------------------------------ MODULE HostProofs ------------------------------
(***************************************************************************)
(* Proofs about what runs on the host, and about what a host submits, in   *)
(* four parts that share only their lemmas.                                *)
(*                                                                         *)
(* The commands of one run directory, for any number of command slots, any *)
(* commands in them and any number of kills: what an import leaves, what a *)
(* valid report may claim, and what becomes of the manifest that all       *)
(* commands rewrite.                                                       *)
(*                                                                         *)
(* `cjp watch`, which shows what it follows to the end, for logs of any    *)
(* length, any replay, and any number of idle polls from two on.           *)
(*                                                                         *)
(* The options and the host's checks, for any heights and index, analyzer  *)
(* operation, host and configuration.                                      *)
(*                                                                         *)
(* The plans, for any graph of stages, any submission and any archive of   *)
(* block files: what they read and in which order they run.                *)
(***************************************************************************)
EXTENDS RunFolder, Watch, Plans, ReportProofs, FunctionTheorems

-----------------------------------------------------------------------------
(***************************************************************************)
(* The commands of one run directory.                                      *)
(***************************************************************************)

\* Where a command is past its lock, and where an import is.
Importing == {"baseline", "sidecars", "manifest"}
Working == {"find", "preflight", "up", "mkdir"} \cup Importing \cup InContainer
Is(p, action) == cmd[p] # None /\ cmd[p].action = action

\* The labels of a command's flow.
Assembling == {"read", "analysis", "hash", "write", "markdown"}
Its(c) ==
    CASE c.action = "emulate" -> {"emulate"}
      [] c.action = "coinjoin-analysis" -> {"find", "collect"}
      [] c.action = "export" -> {"find", "preflight"} \cup Assembling
      [] c.action = "analyze" -> {"find", "up", "collect", "parse", "artifact"} \cup Assembling
      [] c.action = "external" -> (IF c.resume THEN {} ELSE {"mkdir"} \cup Importing)
                                      \cup {"parse", "artifact"} \cup Assembling
\* What comes after label s in c's flow.
Then(c, s) ==
    CASE s = "mkdir" -> "baseline"
      [] s = "baseline" -> "sidecars"
      [] s = "sidecars" -> "manifest"
      [] s = "manifest" -> "parse"
      [] s = "find" -> IF c.action = "analyze" THEN "up" ELSE IF c.action = "export" THEN "preflight" ELSE "collect"
      [] s = "up" -> "collect"
      [] s = "collect" -> IF c.action = "analyze" THEN "parse" ELSE "over"
      [] s = "parse" -> "artifact"
      [] s \in {"preflight", "artifact"} -> "read"
      [] s = "read" -> "analysis"
      [] s = "analysis" -> "hash"
      [] s = "hash" -> "write"
      [] s = "write" -> "markdown"
      [] s \in {"markdown", "emulate"} -> "over"

-----------------------------------------------------------------------------
\* A command's step belongs to its flow, and until it is killed it holds its lock; it reads and
\* writes the manifest only where its launch is recorded.
Recording == {"record", "ending", "recorded"}
WorksAt(p) ==
    /\ cmd[p] = None => at[p] = "off"
    /\ at[p] \in Working => at[p] \in Its(cmd[p])
    /\ at[p] \in Working /\ p \notin killed => held[command_lock_path(cmd[p])] = p
    /\ p \in killed => at[p] \in InContainer \cup {"dead"}
    /\ at[p] \in Recording => start_host_manifest(cmd[p])
    /\ at[p] \in {"record", "recorded"} => ~cmd[p].other
    /\ Is(p, "external") => at[p] \notin {"launch"} \cup Recording
    /\ Is(p, "analyze") /\ cmd[p].other => at[p] \notin Working \ {"find", "up"}

Contents == [REPORT_INPUT_FILES -> Host \cup {0, None}]
Reports == [torn : {TRUE}] \cup
           [read : Contents, recorded : Contents, torn : {FALSE}, overtaken : BOOLEAN,
            verdict : {"baseline_agreement_only", "complete", "diagnostics_not_ok"}]
Folders == [dir : BOOLEAN, emulator : BOOLEAN, config : BOOLEAN, files : Contents, markdown : BOOLEAN,
            mode : {"emulator", "external", None}, manifest : HostManifests \cup {None}, report : Reports \cup {None}]
\* What a command has read is of the kind that its next step needs.
SeenAt(p) ==
    /\ at[p] \in {"record", "recorded"} => seen[p] \in HostManifests \cup {None}
    /\ at[p] \in {"analysis", "hash"} => seen[p] \in Contents
    /\ at[p] = "write" => seen[p] \in Reports

LockNames == {"import", "other", "research", "pipeline"}
HeldBy(l) == held[l] # None => cmd[held[l]] # None /\ command_lock_path(cmd[held[l]]) = l
CommandTypes ==
    /\ cmd \in Assignments /\ at \in [Host -> Steps]
    /\ held \in [LockNames -> Host \cup {None}] /\ \A l \in LockNames : HeldBy(l)
    /\ killed \in SUBSET Host /\ \A p \in Host : WorksAt(p)
DataTypes ==
    /\ folder \in Folders /\ DOMAIN seen = Host /\ \A p \in Host : SeenAt(p)
    /\ overtaken \in SUBSET Host /\ early \in SUBSET Host
FolderTypes == CommandTypes /\ DataTypes

\* One import at a time gets past mkdir; whoever the manifest or a launch says imported the run left
\* its sidecars and, a local analysis aside, its baseline.
Imported(x) ==
    /\ folder.files["sidecars"] = x
    /\ folder.files["baseline"] = x \/ Compose(cmd[folder.files["baseline"]])
    /\ folder.files["baseline"] \in Host
    /\ \A p \in Host : at[p] \notin Importing
Named(m) == HasProvenance(m) => Imported(m.inputs)
ImportAt(p) ==
    /\ at[p] \in Importing => folder.dir /\ \A q \in Host \ {p} : at[q] \notin Importing
    /\ at[p] \in {"sidecars", "manifest"} => /\ folder.files["baseline"] \in Host
                                             /\ folder.files["baseline"] = p \/ Compose(cmd[folder.files["baseline"]])
    /\ at[p] = "manifest" => folder.files["sidecars"] = p
    /\ at[p] \in {"record", "recorded"} /\ seen[p] # None => folder.manifest # None
    /\ at[p] \in {"record", "recorded"} => Named(seen[p])
    /\ at[p] \in {"record", "recorded"} /\ p \notin early => HasProvenance(seen[p])
ImportInv ==
    /\ Named(folder.manifest)
    /\ folder.manifest # None => folder.dir
    /\ \A p \in Host : ImportAt(p)

\* A launch that the manifest calls prepared has not recorded its end.
Unended == Steps \ {"off", "launch", "record", "inputs", "done"}
PreparedInv ==
    folder.manifest # None /\ folder.manifest.status = "prepared" =>
        \E p \in Host : cmd[p] # None /\ start_host_manifest(cmd[p]) /\ ~cmd[p].other /\ at[p] \in Unended

\* A report that was not overtaken read what it recorded.
SoundReport(r) ==
    ~r.torn => r.overtaken \/ \A f \in REPORT_INPUT_FILES : r.read[f] = r.recorded[f]

\* What an assembly has read is what is there, unless it was overtaken.
ReadAt(p) ==
    /\ at[p] \in {"analysis", "hash"} /\ p \notin overtaken =>
           /\ seen[p]["baseline"] = folder.files["baseline"] /\ seen[p]["sidecars"] = folder.files["sidecars"]
    /\ at[p] = "hash" /\ p \notin overtaken =>
           /\ seen[p]["artifact"] = folder.files["artifact"] /\ seen[p]["scenario"] = folder.files["scenario"]
    /\ at[p] = "write" => SoundReport(seen[p])
CurrentInv ==
    /\ folder.report # None => SoundReport(folder.report)
    /\ \A p \in Host : ReadAt(p)
-----------------------------------------------------------------------------
(***************************************************************************)
(* The flows.                                                              *)
(***************************************************************************)
\* A sequence made of two, by its elements.
LEMMA Joined ==
  ASSUME NEW S, NEW s \in Seq(S), NEW t \in Seq(S), NEW u \in Seq(S), Len(u) = Len(s) + Len(t),
         \A i \in 1..Len(s) : u[i] = s[i], \A i \in 1..Len(t) : u[Len(s) + i] = t[i]
  PROVE  s \o t = u
  <1>1. s \o t \in Seq(S) /\ Len(s \o t) = Len(u) /\ Len(s) \in Nat /\ Len(t) \in Nat
    BY ConcatProperties, LenProperties
  <1>2. ASSUME NEW i \in 1..Len(u) PROVE (s \o t)[i] = u[i]
    <2>1. (s \o t)[i] = IF i <= Len(s) THEN s[i] ELSE t[i - Len(s)]
      BY ConcatProperties
    <2>2. CASE i <= Len(s)
      BY <1>1, <2>1, <2>2
    <2>3. CASE i > Len(s)
      <3>1. i - Len(s) \in 1..Len(t) /\ Len(s) + (i - Len(s)) = i
        BY <1>1, <2>3
      <3>2. u[Len(s) + (i - Len(s))] = t[i - Len(s)]
        BY <3>1
      <3> QED
        BY <1>1, <2>1, <2>3, <3>1, <3>2
    <2> QED
      BY <1>1, <2>2, <2>3
  <1> QED
    BY <1>1, <1>2, SeqEqual

\* An assembly after two steps.
LEMMA ExportFlow ==
  ASSUME NEW a, NEW b, NEW v, NEW w, NEW x, NEW y, NEW z
  PROVE  <<a, b>> \o <<v, w, x, y, z>> = <<a, b, v, w, x, y, z>>
  <1> DEFINE S == {a, b, v, w, x, y, z}
             s == <<a, b>>
             t == <<v, w, x, y, z>>
             u == <<a, b, v, w, x, y, z>>
  <1>1. s \in Seq(S) /\ t \in Seq(S) /\ u \in Seq(S)
    OBVIOUS
  <1>2. Len(s) = 2 /\ Len(t) = 5 /\ Len(u) = 7
    OBVIOUS
  <1>3. u[1] = s[1] /\ u[2] = s[2]
    OBVIOUS
  <1>4. /\ u[2 + 1] = t[1] /\ u[2 + 2] = t[2] /\ u[2 + 3] = t[3] /\ u[2 + 4] = t[4]
        /\ u[2 + 5] = t[5]
    OBVIOUS
  <1> HIDE DEF S, s, t, u
  <1>5. \A i \in 1..Len(s) : u[i] = s[i]
    BY <1>2, <1>3
  <1>6. \A i \in 1..Len(t) : u[Len(s) + i] = t[i]
    BY <1>2, <1>4
  <1>7. Len(u) = Len(s) + Len(t)
    BY <1>2
  <1>8. s \o t = u
    BY <1>1, <1>5, <1>6, <1>7, Joined, Zenon
  <1> QED
    BY <1>8 DEF s, t, u

\* An assembly after five steps.
LEMMA AnalysisFlow ==
  ASSUME NEW a, NEW b, NEW c, NEW d, NEW e, NEW v, NEW w, NEW x, NEW y, NEW z
  PROVE  <<a, b, c, d, e>> \o <<v, w, x, y, z>> = <<a, b, c, d, e, v, w, x, y, z>>
  <1> DEFINE S == {a, b, c, d, e, v, w, x, y, z}
             s == <<a, b, c, d, e>>
             t == <<v, w, x, y, z>>
             u == <<a, b, c, d, e, v, w, x, y, z>>
  <1>1. s \in Seq(S) /\ t \in Seq(S) /\ u \in Seq(S)
    OBVIOUS
  <1>2. Len(s) = 5 /\ Len(t) = 5 /\ Len(u) = 10
    OBVIOUS
  <1>3. u[1] = s[1] /\ u[2] = s[2] /\ u[3] = s[3] /\ u[4] = s[4] /\ u[5] = s[5]
    OBVIOUS
  <1>4. /\ u[5 + 1] = t[1] /\ u[5 + 2] = t[2] /\ u[5 + 3] = t[3] /\ u[5 + 4] = t[4]
        /\ u[5 + 5] = t[5]
    OBVIOUS
  <1> HIDE DEF S, s, t, u
  <1>5. \A i \in 1..Len(s) : u[i] = s[i]
    BY <1>2, <1>3
  <1>6. \A i \in 1..Len(t) : u[Len(s) + i] = t[i]
    BY <1>2, <1>4
  <1>7. Len(u) = Len(s) + Len(t)
    BY <1>2
  <1>8. s \o t = u
    BY <1>1, <1>5, <1>6, <1>7, Joined, Zenon
  <1> QED
    BY <1>8 DEF s, t, u

\* A parse and an assembly after an import.
LEMMA ImportFlow ==
  ASSUME NEW a, NEW b, NEW c, NEW d, NEW e, NEW f, NEW v, NEW w, NEW x, NEW y, NEW z
  PROVE  <<a, b, c, d>> \o <<e, f, v, w, x, y, z>> = <<a, b, c, d, e, f, v, w, x, y, z>>
  <1> DEFINE S == {a, b, c, d, e, f, v, w, x, y, z}
             s == <<a, b, c, d>>
             t == <<e, f, v, w, x, y, z>>
             u == <<a, b, c, d, e, f, v, w, x, y, z>>
  <1>1. s \in Seq(S) /\ t \in Seq(S) /\ u \in Seq(S)
    OBVIOUS
  <1>2. Len(s) = 4 /\ Len(t) = 7 /\ Len(u) = 11
    OBVIOUS
  <1>3. u[1] = s[1] /\ u[2] = s[2] /\ u[3] = s[3] /\ u[4] = s[4]
    OBVIOUS
  <1>4. /\ u[4 + 1] = t[1] /\ u[4 + 2] = t[2] /\ u[4 + 3] = t[3] /\ u[4 + 4] = t[4]
        /\ u[4 + 5] = t[5] /\ u[4 + 6] = t[6] /\ u[4 + 7] = t[7]
    OBVIOUS
  <1> HIDE DEF S, s, t, u
  <1>5. \A i \in 1..Len(s) : u[i] = s[i]
    BY <1>2, <1>3
  <1>6. \A i \in 1..Len(t) : u[Len(s) + i] = t[i]
    BY <1>2, <1>4
  <1>7. Len(u) = Len(s) + Len(t)
    BY <1>2
  <1>8. s \o t = u
    BY <1>1, <1>5, <1>6, <1>7, Joined, Zenon
  <1> QED
    BY <1>8 DEF s, t, u

\* The flows, step by step.
LEMMA FlowsAre ==
  /\ external_command = <<"parse", "artifact", "read", "analysis", "hash", "write", "markdown">>
  /\ run_export_only = <<"find", "preflight", "read", "analysis", "hash", "write", "markdown">>
  /\ AnalysisScript = <<"find", "up", "collect", "parse", "artifact", "read", "analysis", "hash", "write", "markdown">>
  /\ << >> \o external_command = external_command
  /\ Import \o external_command = <<"mkdir", "baseline", "sidecars", "manifest", "parse", "artifact",
                                    "read", "analysis", "hash", "write", "markdown">>
  <1>1. external_command = <<"parse", "artifact", "read", "analysis", "hash", "write", "markdown">>
    BY ExportFlow DEF external_command, Assembly
  <1>2. run_export_only = <<"find", "preflight", "read", "analysis", "hash", "write", "markdown">>
    BY ExportFlow DEF run_export_only, Assembly
  <1>3. AnalysisScript = <<"find", "up", "collect", "parse", "artifact", "read", "analysis", "hash", "write", "markdown">>
    BY AnalysisFlow DEF AnalysisScript, Assembly
  <1>4. external_command \in Seq(Steps)
    BY <1>1 DEF Steps, InContainer, Assembly
  <1>5. << >> \o external_command = external_command
    BY <1>4, ConcatEmptySeq
  <1>6. Import \o <<"parse", "artifact", "read", "analysis", "hash", "write", "markdown">>
            = <<"mkdir", "baseline", "sidecars", "manifest", "parse", "artifact",
                "read", "analysis", "hash", "write", "markdown">>
    BY ImportFlow DEF Import
  <1> QED
    BY <1>1, <1>2, <1>3, <1>5, <1>6
-----------------------------------------------------------------------------
(***************************************************************************)
(* What follows each step of a command.                                    *)
(***************************************************************************)
\* The flow of each command.
LEMMA FlowOf ==
  ASSUME NEW c \in Invocations
  PROVE  /\ c.action = "emulate" => Flow(c) = _emulate
         /\ c.action = "coinjoin-analysis" => Flow(c) = run_coinjoin_analysis
         /\ c.action = "export" => Flow(c) = run_export_only
         /\ c.action = "analyze" => Flow(c) = AnalysisScript
         /\ c.action = "external" /\ c.resume => Flow(c) = external_command
         /\ c.action = "external" /\ ~c.resume => Flow(c) = Import \o external_command
  <1>1. << >> \o external_command = external_command
    BY FlowsAre
  <1> QED
    BY <1>1 DEF Flow, Invocations

\* A command goes through its labels in order.
LEMMA AfterIs ==
  ASSUME NEW p, cmd[p] \in Invocations, at[p] \in Its(cmd[p])
  PROVE  After(p) = Then(cmd[p], at[p])
  <1> DEFINE c == cmd[p]
  <1>0. c.action \in {"emulate", "coinjoin-analysis", "analyze", "export", "external"} /\ c.resume \in BOOLEAN
    BY DEF Invocations
  <1>1. CASE c.action = "emulate"
    <2> DEFINE f == <<"emulate">>
    <2>1. Flow(c) = f
      BY <1>1, FlowOf, FlowsAre DEF _emulate
    <2>2. DOMAIN f = 1..1 /\ Len(f) = 1
      OBVIOUS
    <2>3. f[1] = "emulate"
      OBVIOUS
    <2> HIDE DEF f
    <2>4. \A i, k \in 1..1 : f[i] = f[k] => i = k
      BY <2>3
    <2>5. ASSUME NEW i \in 1..1, at[p] = f[i] PROVE After(p) = IF i < 1 THEN f[i + 1] ELSE "over"
      <3>1. i = CHOOSE k \in DOMAIN f : f[k] = at[p]
        BY <2>2, <2>4, <2>5
      <3> QED
        BY <2>1, <2>2, <3>1 DEF After
    <2>6. (at[p] = f[1] => After(p) = "over")
      BY <2>5
    <2> QED
      BY <1>1, <2>3, <2>6 DEF Its, Then, Assembling, Importing
  <1>2. CASE c.action = "coinjoin-analysis"
    <2> DEFINE f == <<"find", "collect">>
    <2>1. Flow(c) = f
      BY <1>2, FlowOf, FlowsAre DEF run_coinjoin_analysis
    <2>2. DOMAIN f = 1..2 /\ Len(f) = 2
      OBVIOUS
    <2>3. f[1] = "find" /\ f[2] = "collect"
      OBVIOUS
    <2> HIDE DEF f
    <2>4. \A i, k \in 1..2 : f[i] = f[k] => i = k
      BY <2>3
    <2>5. ASSUME NEW i \in 1..2, at[p] = f[i] PROVE After(p) = IF i < 2 THEN f[i + 1] ELSE "over"
      <3>1. i = CHOOSE k \in DOMAIN f : f[k] = at[p]
        BY <2>2, <2>4, <2>5
      <3> QED
        BY <2>1, <2>2, <3>1 DEF After
    <2>6. (at[p] = f[1] => After(p) = f[2]) /\ (at[p] = f[2] => After(p) = "over")
      BY <2>5
    <2> QED
      BY <1>2, <2>3, <2>6 DEF Its, Then, Assembling, Importing
  <1>3. CASE c.action = "export"
    <2> DEFINE f == <<"find", "preflight", "read", "analysis", "hash", "write", "markdown">>
    <2>1. Flow(c) = f
      BY <1>3, FlowOf, FlowsAre
    <2>2. DOMAIN f = 1..7 /\ Len(f) = 7
      OBVIOUS
    <2>3. f[1] = "find" /\ f[2] = "preflight" /\ f[3] = "read" /\ f[4] = "analysis" /\ f[5] = "hash" /\ f[6] = "write" /\ f[7] = "markdown"
      OBVIOUS
    <2> HIDE DEF f
    <2>4. \A i, k \in 1..7 : f[i] = f[k] => i = k
      BY <2>3
    <2>5. ASSUME NEW i \in 1..7, at[p] = f[i] PROVE After(p) = IF i < 7 THEN f[i + 1] ELSE "over"
      <3>1. i = CHOOSE k \in DOMAIN f : f[k] = at[p]
        BY <2>2, <2>4, <2>5
      <3> QED
        BY <2>1, <2>2, <3>1 DEF After
    <2>6. (at[p] = f[1] => After(p) = f[2]) /\ (at[p] = f[2] => After(p) = f[3]) /\ (at[p] = f[3] => After(p) = f[4]) /\ (at[p] = f[4] => After(p) = f[5]) /\ (at[p] = f[5] => After(p) = f[6]) /\ (at[p] = f[6] => After(p) = f[7]) /\ (at[p] = f[7] => After(p) = "over")
      BY <2>5
    <2> QED
      BY <1>3, <2>3, <2>6 DEF Its, Then, Assembling, Importing
  <1>4. CASE c.action = "analyze"
    <2> DEFINE f == <<"find", "up", "collect", "parse", "artifact", "read", "analysis", "hash", "write", "markdown">>
    <2>1. Flow(c) = f
      BY <1>4, FlowOf, FlowsAre
    <2>2. DOMAIN f = 1..10 /\ Len(f) = 10
      OBVIOUS
    <2>3. f[1] = "find" /\ f[2] = "up" /\ f[3] = "collect" /\ f[4] = "parse" /\ f[5] = "artifact" /\ f[6] = "read" /\ f[7] = "analysis" /\ f[8] = "hash" /\ f[9] = "write" /\ f[10] = "markdown"
      OBVIOUS
    <2> HIDE DEF f
    <2>4. \A i, k \in 1..10 : f[i] = f[k] => i = k
      BY <2>3
    <2>5. ASSUME NEW i \in 1..10, at[p] = f[i] PROVE After(p) = IF i < 10 THEN f[i + 1] ELSE "over"
      <3>1. i = CHOOSE k \in DOMAIN f : f[k] = at[p]
        BY <2>2, <2>4, <2>5
      <3> QED
        BY <2>1, <2>2, <3>1 DEF After
    <2>6. (at[p] = f[1] => After(p) = f[2]) /\ (at[p] = f[2] => After(p) = f[3]) /\ (at[p] = f[3] => After(p) = f[4]) /\ (at[p] = f[4] => After(p) = f[5]) /\ (at[p] = f[5] => After(p) = f[6]) /\ (at[p] = f[6] => After(p) = f[7]) /\ (at[p] = f[7] => After(p) = f[8]) /\ (at[p] = f[8] => After(p) = f[9]) /\ (at[p] = f[9] => After(p) = f[10]) /\ (at[p] = f[10] => After(p) = "over")
      BY <2>5
    <2> QED
      BY <1>4, <2>3, <2>6 DEF Its, Then, Assembling, Importing
  <1>5. CASE c.action = "external" /\ c.resume
    <2> DEFINE f == <<"parse", "artifact", "read", "analysis", "hash", "write", "markdown">>
    <2>1. Flow(c) = f
      BY <1>5, FlowOf, FlowsAre
    <2>2. DOMAIN f = 1..7 /\ Len(f) = 7
      OBVIOUS
    <2>3. f[1] = "parse" /\ f[2] = "artifact" /\ f[3] = "read" /\ f[4] = "analysis" /\ f[5] = "hash" /\ f[6] = "write" /\ f[7] = "markdown"
      OBVIOUS
    <2> HIDE DEF f
    <2>4. \A i, k \in 1..7 : f[i] = f[k] => i = k
      BY <2>3
    <2>5. ASSUME NEW i \in 1..7, at[p] = f[i] PROVE After(p) = IF i < 7 THEN f[i + 1] ELSE "over"
      <3>1. i = CHOOSE k \in DOMAIN f : f[k] = at[p]
        BY <2>2, <2>4, <2>5
      <3> QED
        BY <2>1, <2>2, <3>1 DEF After
    <2>6. (at[p] = f[1] => After(p) = f[2]) /\ (at[p] = f[2] => After(p) = f[3]) /\ (at[p] = f[3] => After(p) = f[4]) /\ (at[p] = f[4] => After(p) = f[5]) /\ (at[p] = f[5] => After(p) = f[6]) /\ (at[p] = f[6] => After(p) = f[7]) /\ (at[p] = f[7] => After(p) = "over")
      BY <2>5
    <2> QED
      BY <1>5, <2>3, <2>6 DEF Its, Then, Assembling, Importing
  <1>6. CASE c.action = "external" /\ ~c.resume
    <2> DEFINE f == <<"mkdir", "baseline", "sidecars", "manifest", "parse", "artifact", "read", "analysis", "hash", "write", "markdown">>
    <2>1. Flow(c) = f
      BY <1>6, FlowOf, FlowsAre
    <2>2. DOMAIN f = 1..11 /\ Len(f) = 11
      OBVIOUS
    <2>3. f[1] = "mkdir" /\ f[2] = "baseline" /\ f[3] = "sidecars" /\ f[4] = "manifest" /\ f[5] = "parse" /\ f[6] = "artifact" /\ f[7] = "read" /\ f[8] = "analysis" /\ f[9] = "hash" /\ f[10] = "write" /\ f[11] = "markdown"
      OBVIOUS
    <2> HIDE DEF f
    <2>4. \A i, k \in 1..11 : f[i] = f[k] => i = k
      BY <2>3
    <2>5. ASSUME NEW i \in 1..11, at[p] = f[i] PROVE After(p) = IF i < 11 THEN f[i + 1] ELSE "over"
      <3>1. i = CHOOSE k \in DOMAIN f : f[k] = at[p]
        BY <2>2, <2>4, <2>5
      <3> QED
        BY <2>1, <2>2, <3>1 DEF After
    <2>6. (at[p] = f[1] => After(p) = f[2]) /\ (at[p] = f[2] => After(p) = f[3]) /\ (at[p] = f[3] => After(p) = f[4]) /\ (at[p] = f[4] => After(p) = f[5]) /\ (at[p] = f[5] => After(p) = f[6]) /\ (at[p] = f[6] => After(p) = f[7]) /\ (at[p] = f[7] => After(p) = f[8]) /\ (at[p] = f[8] => After(p) = f[9]) /\ (at[p] = f[9] => After(p) = f[10]) /\ (at[p] = f[10] => After(p) = f[11]) /\ (at[p] = f[11] => After(p) = "over")
      BY <2>5
    <2> QED
      BY <1>6, <2>3, <2>6 DEF Its, Then, Assembling, Importing
  <1> QED
    BY <1>0, <1>1, <1>2, <1>3, <1>4, <1>5, <1>6
-----------------------------------------------------------------------------
(***************************************************************************)
(* Labels, and how a command moves along them.                             *)
(***************************************************************************)
\* The labels, written out.
LEMMA LabelsAre ==
  /\ InContainer = {"collect", "parse", "artifact", "emulate"} \cup Assembling
  /\ Steps = {"off", "launch", "record", "lock", "inputs", "find", "preflight", "up", "ending", "recorded", "done", "dead"}
                 \cup {"mkdir", "baseline", "sidecars", "manifest"} \cup InContainer
  <1>1. {Assembly[i] : i \in DOMAIN Assembly} = Assembling
    <2>1. DOMAIN Assembly = 1..5 /\ Assembly[1] = "read" /\ Assembly[2] = "analysis" /\ Assembly[3] = "hash"
          /\ Assembly[4] = "write" /\ Assembly[5] = "markdown"
      BY DEF Assembly
    <2> QED
      BY <2>1 DEF Assembling
  <1>2. {Import[i] : i \in DOMAIN Import} = {"mkdir", "baseline", "sidecars", "manifest"}
    <2>1. DOMAIN Import = 1..4 /\ Import[1] = "mkdir" /\ Import[2] = "baseline" /\ Import[3] = "sidecars"
          /\ Import[4] = "manifest"
      BY DEF Import
    <2> QED
      BY <2>1
  <1> QED
    BY <1>1, <1>2 DEF InContainer, Steps

\* What an invocation can be.
LEMMA InvocationIs ==
  ASSUME NEW c \in Invocations
  PROVE  /\ c.action \in {"emulate", "coinjoin-analysis", "analyze", "export", "external"}
         /\ c.resume \in BOOLEAN /\ c.dry_run \in BOOLEAN /\ c.run_dir \in BOOLEAN /\ c.other \in BOOLEAN
         /\ c.other => c.action = "analyze" /\ c.run_dir
         /\ command_lock_path(c) \in LockNames
         /\ start_host_manifest(c) \in BOOLEAN
  BY DEF Invocations, command_lock_path, LockNames, start_host_manifest

\* The labels of a flow are working ones; a flow begins with one of its labels and ends in containers.
LEMMA FlowLabels ==
  ASSUME NEW c \in Invocations
  PROVE  /\ Its(c) \subseteq Working
         /\ Head(Flow(c)) \in Its(c) /\ Head(Flow(c)) \in {"emulate", "find", "parse", "mkdir"}
         /\ c.action = "analyze" => Head(Flow(c)) = "find"
         /\ \A s \in Its(c) : /\ Then(c, s) \in Its(c) \cup {"over"}
                              /\ s \in InContainer => Then(c, s) \in InContainer \cup {"over"}
  <1>0. /\ c.action \in {"emulate", "coinjoin-analysis", "analyze", "export", "external"} /\ c.resume \in BOOLEAN
        /\ Working = {"find", "preflight", "up", "mkdir"} \cup Importing \cup {"collect", "parse", "artifact", "emulate"} \cup Assembling
    BY InvocationIs, LabelsAre DEF Working
  <1>1. Its(c) \subseteq Working
    BY <1>0 DEF Its
  <1>2. /\ Head(Flow(c)) \in Its(c) /\ Head(Flow(c)) \in {"emulate", "find", "parse", "mkdir"}
        /\ c.action = "analyze" => Head(Flow(c)) = "find"
    <2>1. CASE c.action = "emulate"
      <3>1. Head(Flow(c)) = "emulate"
        BY <2>1, FlowOf, FlowsAre DEF _emulate
      <3> QED
        BY <2>1, <3>1 DEF Its, Importing
    <2>2. CASE c.action = "coinjoin-analysis"
      <3>1. Head(Flow(c)) = "find"
        BY <2>2, FlowOf, FlowsAre DEF run_coinjoin_analysis
      <3> QED
        BY <2>2, <3>1 DEF Its, Importing
    <2>3. CASE c.action = "export"
      <3>1. Head(Flow(c)) = "find"
        BY <2>3, FlowOf, FlowsAre
      <3> QED
        BY <2>3, <3>1 DEF Its, Importing
    <2>4. CASE c.action = "analyze"
      <3>1. Head(Flow(c)) = "find"
        BY <2>4, FlowOf, FlowsAre
      <3> QED
        BY <2>4, <3>1 DEF Its, Importing
    <2>5. CASE c.action = "external" /\ c.resume
      <3>1. Head(Flow(c)) = "parse"
        BY <2>5, FlowOf, FlowsAre
      <3> QED
        BY <2>5, <3>1 DEF Its, Importing
    <2>6. CASE c.action = "external" /\ ~c.resume
      <3>1. Head(Flow(c)) = "mkdir"
        <4>1. Flow(c) = <<"mkdir", "baseline", "sidecars", "manifest", "parse", "artifact",
                          "read", "analysis", "hash", "write", "markdown">>
          BY <2>6, FlowOf, FlowsAre
        <4> QED
          BY <4>1
      <3> QED
        BY <2>6, <3>1 DEF Its, Importing
    <2> QED
      BY <1>0, <2>1, <2>2, <2>3, <2>4, <2>5, <2>6
  <1>3. ASSUME NEW s \in Its(c)
        PROVE  /\ Then(c, s) \in Its(c) \cup {"over"}
               /\ s \in InContainer => Then(c, s) \in InContainer \cup {"over"}
    BY <1>0, <1>3, LabelsAre DEF Its, Then, Importing, Assembling
  <1> QED
    BY <1>1, <1>2, <1>3

\* Where a command goes when its work is over.
LEMMA LeavesIs ==
  ASSUME NEW p, cmd[p] \in Invocations
  PROVE  /\ Leaves(p) \in {"dead", "ending", "done"} /\ (p \in killed => Leaves(p) = "dead")
         /\ Leaves(p) = "ending" => start_host_manifest(cmd[p])
         /\ Leaves(p) = "done" => ~start_host_manifest(cmd[p])
  BY DEF Leaves

\* A working command goes to its next label, or leaves.
Left(p) == Go(p, Leaves(p)) /\ Release(p)

\* A command at work, its flow followed.
LEMMA Advances ==
  ASSUME NEW p, cmd[p] \in Invocations, at[p] \in Its(cmd[p]), Continue(p) \/ Stops(p)
  PROVE  \/ Then(cmd[p], at[p]) # "over" /\ Go(p, Then(cmd[p], at[p])) /\ held' = held
         \/ Left(p)
  BY AfterIs DEF Continue, Stops, Left

-----------------------------------------------------------------------------
(***************************************************************************)
(* Types, and which command works where.                                   *)
(***************************************************************************)
\* A slot whose command is somewhere has one.
LEMMA CommandIs ==
  ASSUME CommandTypes, NEW p \in Host
  PROVE  /\ cmd[p] \in Invocations \cup {None} /\ at[p] \in Steps
         /\ at[p] # "off" => cmd[p] \in Invocations /\ cmd[p] # None
         /\ at[p] \in Working => at[p] \in Its(cmd[p])
  BY DEF CommandTypes, Assignments, WorksAt

\* What a step of p leaves to the others.
LEMMA OtherWorks ==
  ASSUME CommandTypes, NEW q \in Host, at'[q] = at[q], cmd' = cmd, q \in killed' <=> q \in killed,
         \A l \in LockNames : held[l] = q => held'[l] = q
  PROVE  WorksAt(q)'
  <1>1. at[q] \in Working => command_lock_path(cmd[q]) \in LockNames
    BY CommandIs, InvocationIs, LabelsAre DEF Working, Importing, Assembling
  <1> QED
    BY <1>1 DEF CommandTypes, WorksAt, Is

\* What it takes for the step of p to keep the types.
LEMMA OneMoves ==
  ASSUME CommandTypes, NEW p \in Host, NEW x \in Steps, Go(p, x), cmd' = cmd, killed' \in SUBSET Host,
         \A q \in Host \ {p} : q \in killed' <=> q \in killed,
         held' \in [LockNames -> Host \cup {None}],
         \A l \in LockNames : \/ held'[l] = held[l]
                              \/ (held'[l] = None /\ held[l] = p)
                              \/ held'[l] = p /\ held[l] = None /\ cmd[p] # None /\ l = command_lock_path(cmd[p]),
         WorksAt(p)'
  PROVE  CommandTypes'
  <1>1. at' \in [Host -> Steps] /\ \A q \in Host \ {p} : at'[q] = at[q]
    BY DEF Go, CommandTypes
  <1>2. None \notin Host
    BY HostAssumption
  <1>3. ASSUME NEW q \in Host \ {p} PROVE WorksAt(q)'
    <2>1. \A l \in LockNames : held[l] = q => held'[l] = q
      BY <1>2
    <2> QED
      BY <1>1, <2>1, OtherWorks
  <1>4. ASSUME NEW l \in LockNames PROVE HeldBy(l)'
    BY <1>2 DEF CommandTypes, HeldBy
  <1> QED
    BY <1>1, <1>3, <1>4 DEF CommandTypes

\* Release gives up what p holds.
LEMMA ReleaseIs ==
  ASSUME CommandTypes, NEW p, Release(p)
  PROVE  /\ held' \in [LockNames -> Host \cup {None}]
         /\ \A l \in LockNames : held'[l] = IF held[l] = p THEN None ELSE held[l]
  BY DEF CommandTypes, Release

\* The steps of a command that works.
LEMMA WorkMoves ==
  ASSUME CommandTypes, NEW p \in Host, at[p] \in Working \ {"up"}, Continue(p) \/ Stops(p), UNCHANGED <<cmd, killed>>
  PROVE  CommandTypes'
  <1> DEFINE c == cmd[p]
  <1>1. c \in Invocations /\ c # None /\ at[p] \in Its(c) /\ None \notin Host
    BY CommandIs, LabelsAre, HostAssumption DEF Working, Importing, Assembling
  <1>2. command_lock_path(c) \in LockNames /\ (at[p] \in InContainer \/ p \notin killed)
    BY <1>1, InvocationIs, LabelsAre DEF CommandTypes, WorksAt, Working, Importing, Assembling
  <1>3. CASE Then(c, at[p]) # "over" /\ Go(p, Then(c, at[p])) /\ held' = held
    <2> DEFINE x == Then(c, at[p])
    <2>1. x \in Its(c) /\ x \in Working /\ x \in Steps /\ (at[p] \in InContainer => x \in InContainer)
      BY <1>1, <1>3, FlowLabels, LabelsAre DEF Working, Importing
    <2>2. Is(p, "analyze") /\ c.other => x = "up"
      BY <1>1, LabelsAre DEF CommandTypes, WorksAt, Then, Is, Working, Importing, Assembling
    <2>3. at'[p] = x
      BY <1>3 DEF Go, CommandTypes
    <2>4. x \notin {"launch"} \cup Recording /\ x # "off"
      BY <2>1, LabelsAre DEF Working, Importing, Assembling, Recording
    <2>5. WorksAt(p)'
      BY <1>1, <1>2, <1>3, <2>1, <2>2, <2>3, <2>4 DEF CommandTypes, WorksAt, Is, Recording
    <2> QED
      BY <1>3, <2>1, <2>5, OneMoves DEF CommandTypes
  <1>4. CASE Left(p)
    <2>1. Go(p, Leaves(p)) /\ Release(p)
      BY <1>4 DEF Left
    <2>2. at'[p] = Leaves(p) /\ Leaves(p) \in Steps
      BY <1>1, <2>1, LeavesIs, LabelsAre DEF Go, CommandTypes
    <2>3. Leaves(p) \notin Working /\ Leaves(p) \notin {"launch", "record", "recorded", "off"}
      BY <1>1, LeavesIs, LabelsAre DEF Working, Importing, Assembling
    <2>4. Is(p, "external") => ~start_host_manifest(c)
      BY DEF Is, start_host_manifest
    <2>5. WorksAt(p)'
      BY <1>1, <2>2, <2>3, <2>4, LeavesIs DEF WorksAt, Is, Recording
    <2> QED
      BY <2>1, <2>2, <2>5, OneMoves, ReleaseIs DEF CommandTypes
  <1> QED
    BY <1>1, <1>3, <1>4, Advances

\* The lock is taken when it is free.
LEMMA LockMoves ==
  ASSUME CommandTypes, NEW p \in Host, AcquireCommandLock(p)
  PROVE  CommandTypes'
  <1> DEFINE c == cmd[p]
             l == command_lock_path(c)
  <1>1. at[p] = "lock" /\ c \in Invocations /\ c # None /\ None \notin Host /\ l \in LockNames /\ p \notin killed
    BY CommandIs, InvocationIs, LabelsAre, HostAssumption DEF AcquireCommandLock, CommandTypes, WorksAt, Assembling
  <1>2. UNCHANGED <<cmd, killed>>
    BY DEF AcquireCommandLock
  <1>3. CASE held[l] = None
    <2> DEFINE x == Head(Flow(c))
    <2>1. Go(p, x) /\ held' = [held EXCEPT ![l] = p]
      BY <1>3 DEF AcquireCommandLock
    <2>2. x \in Its(c) /\ x \in Working /\ x \in Steps /\ x \in {"emulate", "find", "parse", "mkdir"}
          /\ (c.action = "analyze" => x = "find")
      BY <1>1, FlowLabels, LabelsAre DEF Importing
    <2>3. at'[p] = x /\ held' \in [LockNames -> Host \cup {None}] /\ held'[l] = p
          /\ \A k \in LockNames \ {l} : held'[k] = held[k]
      BY <1>1, <2>1 DEF Go, CommandTypes
    <2>4. WorksAt(p)'
      BY <1>1, <1>2, <2>2, <2>3 DEF CommandTypes, WorksAt, Is, Recording
    <2>5. \A k \in LockNames : \/ held'[k] = held[k]
                               \/ held'[k] = p /\ held[k] = None /\ k = l
      BY <1>3, <2>3
    <2> QED
      BY <1>1, <1>2, <2>1, <2>2, <2>3, <2>4, <2>5, OneMoves DEF CommandTypes
  <1>4. CASE held[l] # None
    <2>1. Go(p, Leaves(p)) /\ Release(p)
      BY <1>4 DEF AcquireCommandLock, Stops
    <2>2. at'[p] = Leaves(p) /\ Leaves(p) \in {"ending", "done"}
      BY <1>1, <2>1, LeavesIs DEF Go, CommandTypes, Leaves
    <2>3. Leaves(p) \in Steps /\ Leaves(p) \notin Working
      BY <2>2, LabelsAre DEF Working, Importing, Assembling
    <2>4. Is(p, "external") => ~start_host_manifest(c)
      BY DEF Is, start_host_manifest
    <2>5. WorksAt(p)'
      BY <1>1, <1>2, <2>2, <2>3, <2>4, LeavesIs DEF WorksAt, Is, Recording
    <2> QED
      BY <1>2, <2>1, <2>3, <2>5, OneMoves, ReleaseIs DEF CommandTypes
  <1> QED
    BY <1>3, <1>4

\* A launch, its records and the check of an import's inputs take no lock and give none up.
LEMMA PlainMoves ==
  ASSUME CommandTypes, NEW p \in Host, Launch(p) \/ Record(p) \/ Ending(p) \/ external_inputs(p)
  PROVE  CommandTypes'
  <1> DEFINE c == cmd[p]
  <1>1. at[p] \in {"launch", "inputs"} \cup Recording /\ c \in Invocations /\ c # None /\ p \notin killed
    BY CommandIs, LabelsAre DEF Launch, Record, Ending, external_inputs, CommandTypes, WorksAt, Recording, Assembling
  <1>2. UNCHANGED <<cmd, held, killed>>
    BY DEF Launch, Record, Ending, external_inputs
  <1>3. PICK x \in {"done", "lock", "record", "recorded"} :
            /\ Go(p, x)
            /\ x = "record" => start_host_manifest(c) /\ ~c.other /\ at[p] = "launch"
            /\ x = "recorded" => at[p] = "ending" /\ ~c.other
    BY DEF Launch, Record, Ending, external_inputs
  <1>4. x \in Steps /\ x \notin Working /\ at'[p] = x
    BY <1>3, LabelsAre DEF Working, Importing, Assembling, Go, CommandTypes
  <1>5. WorksAt(p)'
    BY <1>1, <1>2, <1>3, <1>4, LabelsAre DEF CommandTypes, WorksAt, Is, Recording
  <1> QED
    BY <1>2, <1>3, <1>4, <1>5, OneMoves DEF CommandTypes

\* A kill drops the lock; the container of the command goes on.
LEMMA KillMoves ==
  ASSUME CommandTypes, NEW p \in Host, Killed(p)
  PROVE  CommandTypes'
  <1>1. Release(p) /\ cmd' = cmd /\ killed' = killed \cup {p} /\ at[p] # "off"
    BY DEF Killed
  <1>2. PICK x \in Steps : Go(p, x) /\ ((x = at[p] /\ x \in InContainer) \/ x = "dead")
    <2>1. CASE at[p] \in InContainer
      BY <2>1, CommandIs DEF Killed, Go, CommandTypes
    <2>2. CASE at[p] \notin InContainer
      BY <2>2, LabelsAre DEF Killed
    <2> QED
      BY <2>1, <2>2
  <1>3. at'[p] = x
    BY <1>2 DEF Go, CommandTypes
  <1>4. WorksAt(p)'
    BY <1>1, <1>2, <1>3, CommandIs, LabelsAre DEF CommandTypes, WorksAt, Is, Recording, Working, Importing, Assembling
  <1> QED
    BY <1>1, <1>2, <1>4, OneMoves, ReleaseIs DEF CommandTypes

\* The commands whose containers an analysis of p removes.
Removed(p, q) == q # p /\ cmd[q] # None /\ Compose(cmd[q]) /\ at[q] \in InContainer

\* An analysis that comes up moves itself and those it removes.
LEMMA UpMoves ==
  ASSUME CommandTypes, NEW p \in Host, ComposeUp(p)
  PROVE  CommandTypes'
  <1> DEFINE c == cmd[p]
  <1>1. /\ at[p] = "up" /\ c \in Invocations /\ c # None /\ None \notin Host /\ at[p] \in Its(c)
        /\ p \notin killed /\ command_lock_path(c) \in LockNames /\ held[command_lock_path(c)] = p
        /\ UNCHANGED <<cmd, killed>>
    BY CommandIs, InvocationIs, LabelsAre, HostAssumption DEF ComposeUp, CommandTypes, WorksAt, Working, Assembling
  <1>2. c.action = "analyze" /\ After(p) = "collect"
    BY <1>1, AfterIs DEF Its, Then, Assembling, Importing, Invocations
  <1>3. \A q \in Host : at'[q] = IF q = p THEN IF c.other THEN Leaves(p) ELSE "collect"
                                 ELSE IF Removed(p, q) THEN Leaves(q) ELSE at[q]
    BY <1>2 DEF ComposeUp, Removed
  <1>4. \A q \in Host : at[q] # "off" => Leaves(q) \in {"dead", "ending", "done"}
    BY CommandIs, LeavesIs
  <1>5. at' \in [Host -> Steps]
    <2>1. DOMAIN at' = Host /\ at' = [q \in Host |-> at'[q]]
      BY DEF ComposeUp
    <2>2. \A q \in Host : at'[q] \in Steps
      BY <1>1, <1>3, <1>4, CommandIs, LabelsAre DEF Removed, Assembling
    <2> QED
      BY <2>1, <2>2
  <1>6. \A l \in LockNames : held'[l] = IF held[l] # None /\ ((held[l] = p /\ c.other) \/ Removed(p, held[l]))
                                         THEN None ELSE held[l]
    BY DEF ComposeUp, Removed, CommandTypes, HeldBy
  <1>7. held' \in [LockNames -> Host \cup {None}]
    <2>1. DOMAIN held' = LockNames /\ held' = [l \in LockNames |-> held'[l]]
      BY DEF ComposeUp, CommandTypes
    <2> QED
      BY <1>6, <2>1 DEF CommandTypes
  <1>8. ASSUME NEW q \in Host PROVE WorksAt(q)'
    <2>1. CASE at'[q] = at[q] /\ ~(q = p /\ c.other) /\ ~Removed(p, q)
      BY <1>1, <1>6, <2>1, OtherWorks
    <2>2. CASE q = p /\ ~c.other
      <3>1. "collect" \in Its(c) /\ "collect" \in Working /\ at'[q] = "collect"
        BY <1>2, <1>3, <2>2, LabelsAre DEF Its, Working
      <3>2. held'[command_lock_path(c)] = p
        BY <1>1, <1>6, <2>2 DEF Removed
      <3> QED
        BY <1>1, <1>2, <2>2, <3>1, <3>2 DEF WorksAt, Is, Recording
    <2>3. CASE (q = p /\ c.other) \/ Removed(p, q)
      <3>1. at'[q] = Leaves(q) /\ cmd[q] \in Invocations /\ cmd[q] # None /\ (q \in killed => at'[q] = "dead")
        BY <1>1, <1>3, <2>3, CommandIs, LeavesIs, LabelsAre DEF Removed, Assembling
      <3>2. at'[q] \notin Working /\ at'[q] \notin {"launch", "record", "recorded", "off"}
        BY <3>1, LeavesIs, LabelsAre DEF Working, Importing, Assembling
      <3>3. Is(q, "external") => ~start_host_manifest(cmd[q])
        BY DEF Is, start_host_manifest
      <3> QED
        BY <1>1, <3>1, <3>2, <3>3, LeavesIs DEF WorksAt, Is, Recording
    <2> QED
      BY <1>3, <2>1, <2>2, <2>3
  <1>9. \A l \in LockNames : HeldBy(l)'
    BY <1>1, <1>6 DEF CommandTypes, HeldBy
  <1> QED
    BY <1>1, <1>5, <1>7, <1>8, <1>9 DEF CommandTypes

\* Every step keeps the types of the commands.
LEMMA CommandStep ==
  ASSUME CommandTypes, NEW p \in Host, FolderStep(p)
  PROVE  CommandTypes'
  <1>1. CASE external_analyze(p) \/ Find(p) \/ Produce(p) \/ assemble_reads(p) \/ assemble_writes(p) \/ Fails(p)
    <2>1. at[p] \in Working \ {"up"}
      BY <1>1, LabelsAre DEF external_analyze, Find, Produce, assemble_reads, assemble_writes, Fails,
                             Working, Importing, Assembling
    <2>2. (Continue(p) \/ Stops(p)) /\ UNCHANGED <<cmd, killed>>
      BY <1>1 DEF external_analyze, Find, Produce, assemble_reads, assemble_writes, Fails
    <2> QED
      BY <2>1, <2>2, WorkMoves
  <1> QED
    BY <1>1, LockMoves, PlainMoves, KillMoves, UpMoves DEF FolderStep

\* Where the step of a working command leads, in short.
LEMMA WorkLeads ==
  ASSUME CommandTypes, NEW p \in Host, at[p] \in Working \ {"up"}, Continue(p) \/ Stops(p)
  PROVE  /\ at'[p] \in {Then(cmd[p], at[p]), Leaves(p)} /\ at'[p] \notin {"launch", "record", "recorded", "off", "inputs", "lock"}
         /\ at'[p] # Then(cmd[p], at[p]) => at'[p] \in {"dead", "ending", "done"}
         /\ \A q \in Host \ {p} : at'[q] = at[q]
  <1>1. cmd[p] \in Invocations /\ at[p] \in Its(cmd[p])
    BY CommandIs, LabelsAre DEF Working, Importing, Assembling
  <1>2. PICK x : Go(p, x) /\ ((x = Then(cmd[p], at[p]) /\ x # "over") \/ x = Leaves(p))
    BY <1>1, Advances DEF Left
  <1>3. at'[p] = x /\ \A q \in Host \ {p} : at'[q] = at[q]
    BY <1>2 DEF Go, CommandTypes
  <1>4. x = Leaves(p) => x \in {"dead", "ending", "done"}
    BY <1>1, LeavesIs
  <1>5. x = Then(cmd[p], at[p]) /\ x # "over" => x \in Working
    BY <1>1, FlowLabels
  <1>6. x \notin {"launch", "record", "recorded", "off", "inputs", "lock"}
    BY <1>2, <1>4, <1>5, LabelsAre DEF Working, Importing, Assembling
  <1> QED
    BY <1>2, <1>3, <1>4, <1>6

\* What a step changes of the labels of the others: an analysis sends those it removes away.
LEMMA OthersStay ==
  ASSUME CommandTypes, NEW p \in Host, FolderStep(p), NEW q \in Host \ {p}
  PROVE  \/ at'[q] = at[q]
         \/ ComposeUp(p) /\ Removed(p, q) /\ at'[q] = Leaves(q) /\ at'[q] \in {"dead", "ending", "done"}
  <1>1. CASE external_analyze(p) \/ Find(p) \/ Produce(p) \/ assemble_reads(p) \/ assemble_writes(p) \/ Fails(p)
    <2>1. at[p] \in Working \ {"up"}
      BY <1>1, LabelsAre DEF external_analyze, Find, Produce, assemble_reads, assemble_writes, Fails,
                             Working, Importing, Assembling
    <2>2. Continue(p) \/ Stops(p)
      BY <1>1 DEF external_analyze, Find, Produce, assemble_reads, assemble_writes, Fails
    <2> QED
      BY <2>1, <2>2, WorkLeads
  <1>2. CASE AcquireCommandLock(p) \/ Launch(p) \/ Record(p) \/ Ending(p) \/ external_inputs(p) \/ Killed(p)
    BY <1>2 DEF AcquireCommandLock, Launch, Record, Ending, external_inputs, Killed, Go, Stops, CommandTypes
  <1>3. CASE ComposeUp(p)
    <2>1. at'[q] = IF Removed(p, q) THEN Leaves(q) ELSE at[q]
      BY <1>3 DEF ComposeUp, Removed
    <2>2. Removed(p, q) => Leaves(q) \in {"dead", "ending", "done"}
      BY CommandIs, LeavesIs, LabelsAre DEF Removed, Assembling
    <2> QED
      BY <1>3, <2>1, <2>2
  <1> QED
    BY <1>1, <1>2, <1>3 DEF FolderStep

\* What a step reads concerns its own command.
LEMMA SeenStays ==
  ASSUME DataTypes, NEW p \in Host, FolderStep(p)
  PROVE  DOMAIN seen' = Host /\ \A q \in Host \ {p} : seen'[q] = seen[q]
  BY DEF FolderStep, Launch, Record, Ending, external_inputs, AcquireCommandLock, external_analyze, Find, ComposeUp,
         Produce, assemble_reads, assemble_writes, Fails, Killed, DataTypes

\* The step keeps the types of what is read and written, when it does so for its own command.
LEMMA DataKept ==
  ASSUME FolderTypes, NEW p \in Host, FolderStep(p), folder' \in Folders,
         overtaken' \in SUBSET Host, early' \in SUBSET Host, SeenAt(p)'
  PROVE  DataTypes'
  <1>1. ASSUME NEW q \in Host \ {p} PROVE SeenAt(q)'
    <2>1. at'[q] = at[q] \/ at'[q] \in {"dead", "ending", "done"}
      BY OthersStay DEF FolderTypes
    <2>2. seen'[q] = seen[q]
      BY SeenStays DEF FolderTypes
    <2> QED
      BY <2>1, <2>2 DEF FolderTypes, DataTypes, SeenAt
  <1> QED
    BY <1>1, SeenStays DEF FolderTypes, DataTypes

\* Other fields of the run directory, one by one.
LEMMA FolderFields ==
  ASSUME NEW d \in Folders
  PROVE  /\ d.dir \in BOOLEAN /\ d.emulator \in BOOLEAN /\ d.config \in BOOLEAN /\ d.markdown \in BOOLEAN
         /\ d.files \in Contents /\ d.mode \in {"emulator", "external", None}
         /\ d.manifest \in HostManifests \cup {None} /\ d.report \in Reports \cup {None}
         /\ \A x \in BOOLEAN : [d EXCEPT !.dir = x] \in Folders
         /\ \A x \in BOOLEAN : [d EXCEPT !.config = x] \in Folders
         /\ \A x \in BOOLEAN : [d EXCEPT !.markdown = x] \in Folders
         /\ \A x \in HostManifests \cup {None} : [d EXCEPT !.manifest = x] \in Folders
         /\ \A x \in HostManifests \cup {None} : [d EXCEPT !.dir = TRUE, !.manifest = x] \in Folders
         /\ \A x \in Reports \cup {None} : [d EXCEPT !.report = x] \in Folders
  BY DEF Folders

\* A file is written by a slot.
LEMMA FileWritten ==
  ASSUME NEW d \in Folders, NEW f \in REPORT_INPUT_FILES, NEW p \in Host
  PROVE  /\ [d EXCEPT !.files[f] = p] \in Folders
         /\ [d EXCEPT !.emulator = TRUE, !.files[f] = p] \in Folders
         /\ \A m \in {"emulator", "external"} : [d EXCEPT !.files[f] = p, !.mode = m] \in Folders
  <1>1. [d.files EXCEPT ![f] = p] \in Contents
    BY FolderFields DEF Contents
  <1> QED
    BY <1>1 DEF Folders

\* The records of launches.
LEMMA StoredIs ==
  ASSUME NEW m \in HostManifests \cup {None}, NEW s \in {"prepared", "finished"}
  PROVE  /\ Stored(m, s) \in HostManifests /\ Stored(m, s).status = s /\ Stored(m, s) # None
         /\ HasProvenance(Stored(m, s)) <=> HasProvenance(m)
         /\ m # None => Stored(m, s).inputs = m.inputs
         /\ m # None => Stored(m, s).mode = m.mode
  BY HostAssumption DEF Stored, HostManifests, HasProvenance

\* Every step keeps the types of the data.
LEMMA DataStep ==
  ASSUME FolderTypes, NEW p \in Host, FolderStep(p)
  PROVE  DataTypes'
  <1> USE DEF FolderTypes
  <1>0. folder \in Folders /\ overtaken \in SUBSET Host /\ early \in SUBSET Host /\ DOMAIN seen = Host /\ SeenAt(p)
    BY DEF DataTypes
  <1>1. CASE Launch(p)
    <2>1. at'[p] \in {"done", "lock", "record"} /\ (at'[p] = "record" => seen' = [seen EXCEPT ![p] = folder.manifest])
          /\ folder' = folder /\ overtaken' = overtaken /\ early' \in SUBSET Host
      BY <1>0, <1>1, CommandIs DEF Launch, Go, load_manifest, CommandTypes, Look
    <2>2. SeenAt(p)'
      BY <1>0, <2>1, FolderFields DEF SeenAt
    <2> QED
      BY <1>0, <2>1, <2>2, DataKept
  <1>2. CASE Record(p)
    <2>1. seen[p] \in HostManifests \cup {None} /\ at'[p] \in {"lock", "done"} /\ UNCHANGED <<overtaken, early>>
      BY <1>0, <1>2 DEF Record, SeenAt, Go, CommandTypes
    <2>2. folder' \in Folders
      <3>1. \A s \in {"prepared", "finished"} : Stored(seen[p], s) \in HostManifests
        BY <2>1, StoredIs
      <3> QED
        BY <1>0, <1>2, <3>1, FolderFields DEF Record
    <2>3. SeenAt(p)'
      BY <2>1 DEF SeenAt
    <2> QED
      BY <1>0, <2>1, <2>2, <2>3, DataKept
  <1>3. CASE Ending(p)
    <2>1. at'[p] \in {"done", "recorded"} /\ (at'[p] = "recorded" => seen' = [seen EXCEPT ![p] = folder.manifest])
          /\ folder' = folder /\ overtaken' = overtaken /\ early' \in SUBSET Host
      BY <1>0, <1>3 DEF Ending, Go, load_manifest, CommandTypes, Look
    <2>2. SeenAt(p)'
      BY <1>0, <2>1, FolderFields DEF SeenAt
    <2> QED
      BY <1>0, <2>1, <2>2, DataKept
  <1>4. CASE external_inputs(p)
    <2>1. at'[p] \in {"done", "lock"} /\ UNCHANGED <<folder, overtaken, early>>
      BY <1>4 DEF external_inputs, Go, CommandTypes
    <2> QED
      BY <1>0, <2>1, DataKept DEF SeenAt
  <1>5. CASE AcquireCommandLock(p)
    <2>1. cmd[p] \in Invocations /\ UNCHANGED <<folder, overtaken, early>>
          /\ at'[p] \in {Head(Flow(cmd[p])), Leaves(p)}
      BY <1>5, CommandIs DEF AcquireCommandLock, Go, Stops, CommandTypes
    <2>2. at'[p] \notin {"record", "recorded", "analysis", "hash", "write"}
      BY <2>1, FlowLabels, LeavesIs
    <2> QED
      BY <1>0, <2>1, <2>2, DataKept DEF SeenAt
  <1>6. CASE Killed(p)
    <2>1. UNCHANGED <<seen, folder, overtaken, early>> /\ at'[p] \in {at[p], "dead"}
      BY <1>6 DEF Killed, Go, CommandTypes
    <2> QED
      BY <1>0, <2>1, DataKept DEF SeenAt
  <1>7. CASE ComposeUp(p)
    <2>1. UNCHANGED <<seen, folder, overtaken, early>> /\ at[p] = "up" /\ at'[p] \in {Leaves(p), After(p)}
      BY <1>7 DEF ComposeUp
    <2>2. cmd[p] \in Invocations /\ at[p] \in Its(cmd[p])
      BY <2>1, CommandIs DEF Working
    <2>3. at'[p] \notin {"record", "recorded", "analysis", "hash", "write"}
      BY <2>1, <2>2, AfterIs, LeavesIs DEF Then
    <2> QED
      BY <1>0, <2>1, <2>3, DataKept DEF SeenAt
  <1>8. CASE external_analyze(p) \/ Find(p) \/ Produce(p) \/ assemble_reads(p) \/ assemble_writes(p) \/ Fails(p)
    <2>1. at[p] \in Working \ {"up"}
      BY <1>8, LabelsAre DEF external_analyze, Find, Produce, assemble_reads, assemble_writes, Fails,
                             Working, Importing, Assembling
    <2>2. Continue(p) \/ Stops(p)
      BY <1>8 DEF external_analyze, Find, Produce, assemble_reads, assemble_writes, Fails
    <2>3. /\ at'[p] \in {Then(cmd[p], at[p]), Leaves(p)} /\ at'[p] \notin {"record", "recorded"}
          /\ at'[p] # Then(cmd[p], at[p]) => at'[p] \in {"dead", "ending", "done"}
      BY <2>1, <2>2, WorkLeads
    <2>4. cmd[p] \in Invocations /\ at[p] \in Its(cmd[p])
      BY <2>1, CommandIs, LabelsAre DEF Working, Importing, Assembling
    <2>5. /\ at'[p] = "analysis" => at[p] = "read"
          /\ at'[p] = "hash" => at[p] = "analysis"
          /\ at'[p] = "write" => at[p] = "hash"
      BY <2>1, <2>3, LabelsAre DEF Then, Working, Assembling, Importing
    <2>6. CASE external_analyze(p)
      <3>1. /\ early' = early /\ at[p] \in {"mkdir", "baseline", "sidecars", "manifest"}
            /\ overtaken' \in {overtaken, overtaken \cup Overtaken(p)}
            /\ Overtaken(p) \subseteq Host
        BY <2>6 DEF external_analyze, Overtaken
      <3>2. folder' \in Folders
        <4>1. create_external_manifest(p) \in HostManifests
          BY DEF create_external_manifest, HostManifests
        <4>2. \/ folder' = folder
              \/ folder' = [folder EXCEPT !.dir = TRUE]
              \/ folder' = [folder EXCEPT !.manifest = create_external_manifest(p)]
              \/ at[p] \in REPORT_INPUT_FILES /\ folder' = [folder EXCEPT !.files[at[p]] = p]
          BY <2>6 DEF external_analyze, REPORT_INPUT_FILES
        <4>3. [folder EXCEPT !.dir = TRUE] \in Folders
          BY <1>0, FolderFields
        <4>4. [folder EXCEPT !.manifest = create_external_manifest(p)] \in Folders
          BY <1>0, <4>1, FolderFields
        <4>5. \A f \in REPORT_INPUT_FILES : [folder EXCEPT !.files[f] = p] \in Folders
          BY <1>0, FileWritten
        <4> QED
          BY <1>0, <4>2, <4>3, <4>4, <4>5
      <3>3. SeenAt(p)'
        BY <2>3, <2>5, <3>1 DEF SeenAt
      <3> QED
        BY <1>0, <3>1, <3>2, <3>3, DataKept
    <2>7. CASE Find(p) \/ Fails(p)
      <3>1. UNCHANGED <<overtaken, early, folder, seen>>
        BY <2>7 DEF Find, Fails
      <3>2. SeenAt(p)'
        <4>1. CASE Find(p)
          BY <2>3, <2>5, <4>1 DEF SeenAt, Find
        <4>2. CASE Fails(p)
          <5>1. at'[p] = Leaves(p)
            BY <4>2 DEF Fails, Stops, Go, CommandTypes
          <5> QED
            BY <2>4, <5>1, LeavesIs DEF SeenAt
        <4> QED
          BY <2>7, <4>1, <4>2
      <3> QED
        BY <1>0, <3>1, <3>2, DataKept
    <2>8. CASE Produce(p)
      <3>1. /\ early' = early /\ at[p] \in {"emulate", "collect", "parse", "artifact"}
            /\ overtaken' \in {overtaken, overtaken \cup Overtaken(p)}
            /\ Overtaken(p) \subseteq Host
        BY <2>8 DEF Produce, Overtaken
      <3>2. folder' \in Folders
        <4>1. CASE at[p] = "emulate"
          BY <1>0, <2>8, <4>1, FileWritten DEF Produce, REPORT_INPUT_FILES
        <4>2. CASE at[p] = "collect"
          BY <1>0, <2>8, <4>2, FileWritten DEF Produce, REPORT_INPUT_FILES
        <4>3. CASE at[p] = "parse"
          BY <1>0, <2>8, <4>3, FolderFields DEF Produce
        <4>4. CASE at[p] = "artifact"
          BY <1>0, <2>8, <4>4, FileWritten DEF Produce, REPORT_INPUT_FILES
        <4> QED
          BY <3>1, <4>1, <4>2, <4>3, <4>4
      <3>3. SeenAt(p)'
        BY <2>3, <2>5, <3>1 DEF SeenAt
      <3> QED
        BY <1>0, <3>1, <3>2, <3>3, DataKept
    <2>9. CASE assemble_reads(p)
      <3>1. /\ UNCHANGED <<folder, early>> /\ at[p] \in {"read", "analysis"}
            /\ overtaken' \in SUBSET Host
        BY <1>0, <2>9 DEF assemble_reads
      <3>2. seen'[p] \in Contents
        <4>1. folder.files \in Contents
          BY <1>0, FolderFields
        <4>2. CASE at[p] = "read"
          <5>1. seen'[p] = [NoFiles EXCEPT !["baseline"] = folder.files["baseline"], !["sidecars"] = folder.files["sidecars"]]
            BY <1>0, <2>9, <4>2 DEF assemble_reads
          <5> QED
            BY <4>1, <5>1 DEF Contents, NoFiles, REPORT_INPUT_FILES
        <4>3. CASE at[p] = "analysis"
          <5>1. seen' = [seen EXCEPT ![p]["artifact"] = folder.files["artifact"],
                                     ![p]["scenario"] = folder.files["scenario"]]
            BY <2>9, <4>3 DEF assemble_reads
          <5>2. seen'[p] = [seen[p] EXCEPT !["artifact"] = folder.files["artifact"], !["scenario"] = folder.files["scenario"]]
            BY <1>0, <5>1
          <5>3. seen[p] \in Contents
            BY <1>0, <4>3 DEF SeenAt
          <5> QED
            BY <4>1, <5>2, <5>3 DEF Contents, REPORT_INPUT_FILES
        <4> QED
          BY <3>1, <4>2, <4>3
      <3>3. SeenAt(p)'
        BY <2>3, <2>5, <3>1, <3>2 DEF SeenAt
      <3> QED
        BY <1>0, <3>1, <3>3, DataKept
    <2>10. CASE assemble_writes(p)
      <3>1. UNCHANGED <<overtaken, early>> /\ at[p] \in {"hash", "write", "markdown"} /\ [torn |-> TRUE] \in Reports
        BY <2>10 DEF assemble_writes, Reports
      <3>2. CASE at[p] = "hash"
        <4>1. folder' = [folder EXCEPT !.report = [torn |-> TRUE]]
          BY <2>10, <3>2 DEF assemble_writes
        <4>2. PICK v \in Verdicts(cmd[p]) :
                 seen' = [seen EXCEPT ![p] = [read |-> seen[p], recorded |-> folder.files, verdict |-> v,
                                              overtaken |-> p \in overtaken, torn |-> FALSE]]
          BY <2>10, <3>2 DEF assemble_writes
        <4>3. seen'[p] \in Reports
          <5>1. seen[p] \in Contents /\ folder.files \in Contents
            BY <1>0, <3>2, FolderFields DEF SeenAt
          <5>2. v \in {"baseline_agreement_only", "complete", "diagnostics_not_ok"}
            BY DEF Verdicts
          <5>3. seen'[p] = [read |-> seen[p], recorded |-> folder.files, verdict |-> v,
                            overtaken |-> p \in overtaken, torn |-> FALSE]
            BY <1>0, <4>2
          <5>4. (p \in overtaken) \in BOOLEAN
            OBVIOUS
          <5>5. seen'[p] \in [read : Contents, recorded : Contents, torn : {FALSE}, overtaken : BOOLEAN,
                              verdict : {"baseline_agreement_only", "complete", "diagnostics_not_ok"}]
            BY <5>1, <5>2, <5>3, <5>4
          <5> QED
            BY <5>5 DEF Reports
        <4>4. SeenAt(p)'
          BY <2>3, <2>5, <3>2, <4>3 DEF SeenAt
        <4> QED
          BY <1>0, <3>1, <4>1, <4>4, FolderFields, DataKept
      <3>3. CASE at[p] # "hash"
        <4>1. seen' = seen /\ folder' \in {[folder EXCEPT !.report = seen[p]], [folder EXCEPT !.report = [torn |-> TRUE]],
                                           [folder EXCEPT !.markdown = TRUE]}
              /\ (at[p] = "markdown" => folder' = [folder EXCEPT !.markdown = TRUE])
          BY <2>10, <3>3 DEF assemble_writes
        <4>2. at[p] = "write" => seen[p] \in Reports
          BY <1>0 DEF SeenAt
        <4>3. folder' \in Folders
          <5>1. CASE at[p] = "write"
            <6>1. folder' \in {[folder EXCEPT !.report = seen[p]], [folder EXCEPT !.report = [torn |-> TRUE]]}
              BY <2>10, <5>1 DEF assemble_writes
            <6>2. [folder EXCEPT !.report = seen[p]] \in Folders
              BY <1>0, <4>2, <5>1, FolderFields
            <6>3. [folder EXCEPT !.report = [torn |-> TRUE]] \in Folders
              BY <1>0, <3>1, FolderFields
            <6> QED
              BY <6>1, <6>2, <6>3
          <5>2. CASE at[p] = "markdown"
            BY <1>0, <4>1, <5>2, FolderFields
          <5> QED
            BY <3>1, <3>3, <5>1, <5>2
        <4>4. SeenAt(p)'
          BY <2>3, <2>5, <3>1, <3>3 DEF SeenAt
        <4> QED
          BY <1>0, <3>1, <4>3, <4>4, DataKept
      <3> QED
        BY <3>2, <3>3
    <2> QED
      BY <1>8, <2>6, <2>7, <2>8, <2>9, <2>10
  <1> QED
    BY <1>1, <1>2, <1>3, <1>4, <1>5, <1>6, <1>7, <1>8 DEF FolderStep

\* The first state has its types.
LEMMA FirstTypes ==
  ASSUME FolderInit
  PROVE  FolderTypes
  <1>1. PICK cast \in Assignments, found \in {NoFolder, EmulatedRun} : FolderBegins(cast, found)
    BY DEF FolderInit
  <1>2. /\ cmd = cast /\ at = [p \in Host |-> StartLabel(cast[p])] /\ seen = [p \in Host |-> None]
        /\ held = [l \in LockNames |-> None] /\ folder = found /\ killed = {} /\ overtaken = {} /\ early = {}
    BY <1>1 DEF FolderBegins, LockNames
  <1>3. None \notin Host
    BY HostAssumption
  <1>4. found \in Folders
    <2>1. NoFiles \in Contents /\ [NoFiles EXCEPT !["scenario"] = 0] \in Contents
      BY DEF NoFiles, Contents
    <2>2. NoFolder \in Folders
      BY <2>1 DEF NoFolder, Folders
    <2>3. [mode |-> "emulator", inputs |-> None, status |-> "finished"] \in HostManifests
      BY DEF HostManifests
    <2>4. NoFolder.files = NoFiles
      BY DEF NoFolder
    <2>5. EmulatedRun \in Folders
      <3> DEFINE m == [mode |-> "emulator", inputs |-> None, status |-> "finished"]
      <3>1. [NoFolder EXCEPT !.files["scenario"] = 0] \in Folders
        BY <2>1, <2>2, <2>4 DEF Folders
      <3>2. EmulatedRun = [[[[NoFolder EXCEPT !.files["scenario"] = 0] EXCEPT !.dir = TRUE]
                                EXCEPT !.emulator = TRUE] EXCEPT !.manifest = m]
        BY <2>2 DEF EmulatedRun, Folders
      <3> QED
        BY <2>3, <3>1, <3>2 DEF Folders
    <2> QED
      BY <2>2, <2>5
  <1>5. \A p \in Host : at[p] \in {"off", "launch", "inputs"} /\ (cmd[p] = None => at[p] = "off")
                        /\ (at[p] = "launch" => cmd[p].action # "external")
    BY <1>2 DEF StartLabel
  <1>6. at \in [Host -> Steps]
    BY <1>2, <1>5, LabelsAre
  <1>7. \A p \in Host : WorksAt(p) /\ SeenAt(p)
    BY <1>2, <1>5, LabelsAre DEF WorksAt, SeenAt, Is, Recording, Working, Importing, Assembling
  <1>8. held \in [LockNames -> Host \cup {None}] /\ \A l \in LockNames : HeldBy(l)
    BY <1>2 DEF HeldBy
  <1> QED
    BY <1>2, <1>4, <1>6, <1>7, <1>8 DEF FolderTypes, CommandTypes, DataTypes

\* The types of the commands and of the run directory, in the words of the model.
LEMMA TypesGive ==
  ASSUME FolderTypes
  PROVE  FolderTypeOK
  <1>1. folder.files \in [REPORT_INPUT_FILES -> Host \cup {0, None}]
    BY FolderFields DEF FolderTypes, DataTypes, Contents
  <1>2. \A l \in DOMAIN held : held[l] \in Host \cup {None} /\ (held[l] # None => command_lock_path(cmd[held[l]]) = l)
    BY DEF FolderTypes, CommandTypes, HeldBy
  <1> QED
    BY <1>1, <1>2 DEF FolderTypes, CommandTypes, DataTypes, FolderTypeOK

\* Every step keeps the types.
LEMMA TypesKept ==
  ASSUME FolderTypes, [FolderNext]_folderVars
  PROVE  FolderTypes'
  <1>1. CASE FolderNext
    <2>1. PICK p \in Host : FolderStep(p)
      BY <1>1 DEF FolderNext
    <2> QED
      BY <2>1, CommandStep, DataStep DEF FolderTypes
  <1>2. CASE UNCHANGED folderVars
    BY <1>2 DEF folderVars, FolderTypes, CommandTypes, DataTypes, HeldBy, WorksAt, SeenAt, Is
  <1> QED
    BY <1>1, <1>2

\* The commands, their locks and the run directory are of their kind (locks.py, cli.py).
THEOREM FolderIsTyped == FolderSpec => []FolderTypeOK
  <1>1. FolderInit => FolderTypes
    BY FirstTypes
  <1>2. FolderTypes /\ [FolderNext]_folderVars => FolderTypes'
    BY TypesKept
  <1>3. FolderTypes => FolderTypeOK
    BY TypesGive
  <1> QED
    BY <1>1, <1>2, <1>3, PTL DEF FolderSpec

-----------------------------------------------------------------------------
(***************************************************************************)
(* What an import leaves.                                                  *)
(***************************************************************************)
\* A slot that an import does not concern: it gets neither into an import nor to a record.
Still(q) ==
    at'[q] \in Importing \cup {"record", "recorded"} =>
        at'[q] = at[q] /\ seen'[q] = seen[q] /\ (q \in early' <=> q \in early)
ImportFrame ==
    /\ cmd' = cmd /\ folder'.dir = folder.dir /\ folder'.manifest = folder.manifest
    /\ folder'.files["sidecars"] = folder.files["sidecars"]
\* The kinds of steps for imports: one that does not concern them, ...
BesideImports(p) == Still(p) /\ ImportFrame /\ folder'.files["baseline"] = folder.files["baseline"]
\* ... a launch that reads the manifest, or writes it back, ...
Looks(p) ==
    /\ at'[p] \in {"record", "recorded"} /\ seen'[p] = folder.manifest /\ early' = Look(p)
    /\ cmd' = cmd /\ folder' = folder
Records(p) ==
    /\ at[p] \in {"record", "recorded"} /\ at'[p] # at[p] /\ at'[p] \notin Importing \cup {"record", "recorded"}
    /\ cmd' = cmd /\ folder'.files = folder.files /\ folder'.dir
    /\ \E s \in {"prepared", "finished"} : folder'.manifest = Stored(seen[p], s)
\* ... a local analysis that rewrites the baseline, ...
Collects(p) == Still(p) /\ ImportFrame /\ folder'.files["baseline"] = p /\ Compose(cmd[p])
\* ... and the steps of an import.
MakesRun(p) ==
    /\ at'[p] = "baseline" /\ ~folder.dir /\ folder'.dir
    /\ cmd' = cmd /\ folder'.manifest = folder.manifest /\ folder'.files = folder.files
Copies(p) ==
    /\ cmd' = cmd /\ folder'.dir = folder.dir /\ folder'.manifest = folder.manifest
    /\ \/ /\ at[p] = "baseline" /\ (at'[p] \in Importing \cup {"record", "recorded"} => at'[p] = "sidecars")
          /\ folder'.files["baseline"] = p
       \/ /\ at[p] = "sidecars" /\ (at'[p] \in Importing \cup {"record", "recorded"} => at'[p] = "manifest")
          /\ folder'.files["baseline"] = folder.files["baseline"] /\ folder'.files["sidecars"] = p
Signs(p) ==
    /\ at[p] = "manifest" /\ at'[p] \notin Importing \cup {"record", "recorded"}
    /\ folder.manifest = None /\ folder'.manifest = create_external_manifest(p)
    /\ cmd' = cmd /\ folder'.dir = folder.dir /\ folder'.files = folder.files

\* The files of one step, in other steps.
LEMMA OthersStill ==
  ASSUME FolderTypes, NEW p \in Host, FolderStep(p), NEW q \in Host \ {p}
  PROVE  Still(q)
  <1>1. at'[q] = at[q] \/ at'[q] \in {"dead", "ending", "done"}
    BY OthersStay DEF FolderTypes
  <1>2. seen'[q] = seen[q]
    BY SeenStays DEF FolderTypes
  <1>3. q \in early' <=> q \in early
    BY DEF FolderStep, Launch, Record, Ending, external_inputs, AcquireCommandLock, external_analyze, Find, ComposeUp,
           Produce, assemble_reads, assemble_writes, Fails, Killed, Look
  <1> QED
    BY <1>1, <1>2, <1>3, LabelsAre DEF Still, Importing

\* Every step is of one of the kinds.
LEMMA ImportKinds ==
  ASSUME FolderTypes, NEW p \in Host, FolderStep(p)
  PROVE  \/ BesideImports(p) \/ Looks(p) \/ Records(p) \/ Collects(p) \/ MakesRun(p) \/ Copies(p) \/ Signs(p)
  <1> USE DEF FolderTypes
  <1>0. /\ folder \in Folders /\ DOMAIN folder.files = REPORT_INPUT_FILES /\ folder.files \in Contents
        /\ DOMAIN seen = Host /\ at \in [Host -> Steps] /\ at' \in [Host -> Steps]
    BY FolderFields, CommandStep DEF DataTypes, CommandTypes, Contents
  <1>1. CASE Launch(p)
    <2>1. CASE at'[p] = "record"
      BY <1>0, <1>1, <2>1 DEF Launch, Looks, load_manifest, Go
    <2>2. CASE at'[p] # "record"
      BY <1>0, <1>1, <2>2 DEF Launch, BesideImports, Still, ImportFrame, Go, Importing
    <2> QED
      BY <2>1, <2>2
  <1>2. CASE Record(p)
    <2>1. at[p] \in {"record", "recorded"} /\ at'[p] \in {"lock", "done"}
      BY <1>0, <1>2 DEF Record, Go
    <2>2. cmd' = cmd /\ \E s \in {"prepared", "finished"} :
                            folder' = [folder EXCEPT !.dir = TRUE, !.manifest = Stored(seen[p], s)]
      BY <1>2 DEF Record
    <2>3. folder'.files = folder.files /\ folder'.dir
          /\ \E s \in {"prepared", "finished"} : folder'.manifest = Stored(seen[p], s)
      BY <1>0, <2>2 DEF Folders
    <2> QED
      BY <2>1, <2>2, <2>3 DEF Records, Importing
  <1>3. CASE Ending(p)
    <2>1. CASE at'[p] = "recorded"
      BY <1>0, <1>3, <2>1 DEF Ending, Looks, load_manifest, Go
    <2>2. CASE at'[p] # "recorded"
      BY <1>0, <1>3, <2>2 DEF Ending, BesideImports, Still, ImportFrame, Go, Importing
    <2> QED
      BY <2>1, <2>2
  <1>4. CASE external_inputs(p)
    BY <1>0, <1>4 DEF external_inputs, BesideImports, Still, ImportFrame, Go, Importing
  <1>5. CASE AcquireCommandLock(p)
    <2>1. cmd[p] \in Invocations /\ UNCHANGED <<cmd, folder>> /\ at'[p] \in {Head(Flow(cmd[p])), Leaves(p)}
      BY <1>0, <1>5, CommandIs DEF AcquireCommandLock, Go, Stops
    <2>2. at'[p] \notin Importing \cup {"record", "recorded"}
      BY <2>1, FlowLabels, LeavesIs DEF Importing
    <2> QED
      BY <2>1, <2>2 DEF BesideImports, Still, ImportFrame
  <1>6. CASE Killed(p)
    <2>1. UNCHANGED <<cmd, folder, seen, early>> /\ at'[p] \in {at[p], "dead"}
      BY <1>0, <1>6 DEF Killed, Go
    <2> QED
      BY <2>1 DEF BesideImports, Still, ImportFrame, Importing
  <1>7. CASE ComposeUp(p)
    <2>1. UNCHANGED <<cmd, folder>> /\ at[p] = "up" /\ at'[p] \in {Leaves(p), After(p)}
      BY <1>7 DEF ComposeUp
    <2>2. cmd[p] \in Invocations /\ at[p] \in Its(cmd[p])
      BY <2>1, CommandIs DEF Working
    <2>3. at'[p] \notin Importing \cup {"record", "recorded"}
      BY <2>1, <2>2, AfterIs, LeavesIs DEF Then, Importing
    <2> QED
      BY <2>1, <2>3 DEF BesideImports, Still, ImportFrame
  <1>8. CASE external_analyze(p) \/ Find(p) \/ Produce(p) \/ assemble_reads(p) \/ assemble_writes(p) \/ Fails(p)
    <2>1. at[p] \in Working \ {"up"}
      BY <1>8, LabelsAre DEF external_analyze, Find, Produce, assemble_reads, assemble_writes, Fails,
                             Working, Importing, Assembling
    <2>2. Continue(p) \/ Stops(p)
      BY <1>8 DEF external_analyze, Find, Produce, assemble_reads, assemble_writes, Fails
    <2>3. /\ at'[p] \in {Then(cmd[p], at[p]), Leaves(p)} /\ at'[p] \notin {"record", "recorded"}
          /\ at'[p] # Then(cmd[p], at[p]) => at'[p] \in {"dead", "ending", "done"}
      BY <2>1, <2>2, WorkLeads
    <2>4. cmd[p] \in Invocations /\ at[p] \in Its(cmd[p]) /\ cmd' = cmd
      BY <1>8, <2>1, CommandIs, LabelsAre
         DEF Working, Importing, Assembling, external_analyze, Find, Produce, assemble_reads, assemble_writes, Fails
    <2>5. /\ at'[p] \in Importing => \/ at[p] = "mkdir" /\ at'[p] = "baseline"
                                     \/ at[p] = "baseline" /\ at'[p] = "sidecars"
                                     \/ at[p] = "sidecars" /\ at'[p] = "manifest"
      BY <2>1, <2>3, LabelsAre DEF Then, Working, Assembling, Importing
    <2>6. CASE external_analyze(p)
      <3>1. CASE Stops(p) /\ folder' = folder
        <4>1. at'[p] = Leaves(p) /\ at'[p] \notin Importing
          BY <1>0, <2>4, <3>1, LeavesIs DEF Stops, Go, Importing
        <4> QED
          BY <2>3, <2>4, <3>1, <4>1 DEF BesideImports, Still, ImportFrame
      <3>2. CASE at[p] = "mkdir" /\ ~folder.dir /\ folder' = [folder EXCEPT !.dir = TRUE]
        <4>1. folder'.dir /\ folder'.files = folder.files /\ folder'.manifest = folder.manifest
          BY <1>0, <3>2 DEF Folders
        <4>2. at'[p] = "baseline"
          <5>1. Continue(p) /\ After(p) = "baseline"
            BY <2>4, <2>6, <3>2, AfterIs DEF external_analyze, Then
          <5> QED
            BY <1>0, <5>1 DEF Continue, Go
        <4> QED
          BY <2>4, <3>2, <4>1, <4>2 DEF MakesRun
      <3>3. CASE at[p] = "manifest" /\ folder.manifest = None
                 /\ folder' = [folder EXCEPT !.manifest = create_external_manifest(p)]
        <4>1. /\ folder'.manifest = create_external_manifest(p) /\ folder'.files = folder.files
              /\ folder'.dir = folder.dir
          BY <1>0, <3>3 DEF Folders
        <4>2. at'[p] \notin Importing \cup {"record", "recorded"}
          BY <2>3, <2>5, <3>3
        <4> QED
          BY <2>4, <3>3, <4>1, <4>2 DEF Signs
      <3>4. CASE at[p] \in {"baseline", "sidecars"} /\ folder' = [folder EXCEPT !.files[at[p]] = p]
        <4>1. /\ folder'.manifest = folder.manifest /\ folder'.dir = folder.dir
              /\ folder'.files = [folder.files EXCEPT ![at[p]] = p]
          BY <1>0, <3>4 DEF Folders
        <4>2. folder'.files[at[p]] = p /\ \A f \in REPORT_INPUT_FILES \ {at[p]} : folder'.files[f] = folder.files[f]
          BY <1>0, <3>4, <4>1 DEF REPORT_INPUT_FILES
        <4> QED
          BY <2>3, <2>4, <2>5, <3>4, <4>1, <4>2 DEF Copies, REPORT_INPUT_FILES
      <3> QED
        BY <2>6, <3>1, <3>2, <3>3, <3>4 DEF external_analyze
    <2>7. CASE Find(p) \/ Fails(p) \/ assemble_reads(p) \/ assemble_writes(p)
      <3>1. at'[p] \notin Importing
        <4>1. CASE Fails(p)
          <5>1. at'[p] = Leaves(p)
            BY <1>0, <4>1 DEF Fails, Stops, Go
          <5> QED
            BY <2>4, <5>1, LeavesIs DEF Importing
        <4>2. CASE ~Fails(p)
          BY <2>5, <2>7, <4>2, LabelsAre DEF Find, assemble_reads, assemble_writes
        <4> QED
          BY <4>1, <4>2
      <3>2. folder'.files = folder.files /\ folder'.dir = folder.dir /\ folder'.manifest = folder.manifest
        BY <1>0, <2>7 DEF Find, Fails, assemble_reads, assemble_writes, Folders
      <3> QED
        BY <2>3, <2>4, <3>1, <3>2 DEF BesideImports, Still, ImportFrame
    <2>8. CASE Produce(p)
      <3>1. at[p] \in {"emulate", "collect", "parse", "artifact"} /\ at'[p] \notin Importing
        BY <2>5, <2>8 DEF Produce
      <3>2. folder'.dir = folder.dir /\ folder'.manifest = folder.manifest
            /\ folder'.files["sidecars"] = folder.files["sidecars"]
            /\ folder'.files["baseline"] = IF at[p] = "collect" THEN p ELSE folder.files["baseline"]
        <4>1. CASE at[p] = "emulate"
          BY <1>0, <2>8, <4>1 DEF Produce, Folders, REPORT_INPUT_FILES, Contents
        <4>2. CASE at[p] = "collect"
          BY <1>0, <2>8, <4>2 DEF Produce, Folders, REPORT_INPUT_FILES, Contents
        <4>3. CASE at[p] = "parse"
          BY <1>0, <2>8, <4>3 DEF Produce, Folders, REPORT_INPUT_FILES, Contents
        <4>4. CASE at[p] = "artifact"
          BY <1>0, <2>8, <4>4 DEF Produce, Folders, REPORT_INPUT_FILES, Contents
        <4> QED
          BY <3>1, <4>1, <4>2, <4>3, <4>4
      <3>3. at[p] = "collect" => Compose(cmd[p])
        BY <2>4 DEF Its, Compose, Assembling, Importing, Invocations
      <3> QED
        BY <2>3, <2>4, <3>1, <3>2, <3>3 DEF BesideImports, Collects, Still, ImportFrame
    <2> QED
      BY <1>8, <2>6, <2>7, <2>8
  <1> QED
    BY <1>1, <1>2, <1>3, <1>4, <1>5, <1>6, <1>7, <1>8 DEF FolderStep

\* What keeps an import whole: nobody enters one, and only local analyses rewrite its baseline.
Spares ==
    /\ cmd' = cmd /\ \A q \in Host : at'[q] \in Importing => at[q] \in Importing
    /\ folder'.files["sidecars"] = folder.files["sidecars"]
    /\ \/ folder'.files["baseline"] = folder.files["baseline"]
       \/ folder'.files["baseline"] \in Host /\ Compose(cmd[folder'.files["baseline"]])

\* What the manifest and the launches say of imports stays true.
LEMMA NamedStays ==
  ASSUME Spares
  PROVE  /\ Named(folder.manifest) /\ folder'.manifest = folder.manifest => Named(folder.manifest)'
         /\ \A q \in Host : /\ Named(seen[q]) /\ seen'[q] = seen[q] => Named(seen[q])'
                            /\ Named(folder.manifest) /\ seen'[q] = folder.manifest => Named(seen[q])'
                            /\ Named(seen[q]) /\ (HasProvenance(folder'.manifest) =>
                                                       HasProvenance(seen[q]) /\ folder'.manifest.inputs = seen[q].inputs)
                                   => Named(folder.manifest)'
  <1>1. ASSUME NEW x, Imported(x) PROVE /\ folder'.files["sidecars"] = x
                                        /\ folder'.files["baseline"] = x \/ Compose(cmd'[folder'.files["baseline"]])
                                        /\ folder'.files["baseline"] \in Host
                                        /\ \A p \in Host : at'[p] \notin Importing
    BY <1>1 DEF Spares, Imported
  <1>2. Named(folder.manifest) /\ folder'.manifest = folder.manifest => Named(folder.manifest)'
    BY <1>1 DEF Named, Imported
  <1>3. ASSUME NEW q \in Host
        PROVE  /\ Named(seen[q]) /\ seen'[q] = seen[q] => Named(seen[q])'
               /\ Named(folder.manifest) /\ seen'[q] = folder.manifest => Named(seen[q])'
               /\ Named(seen[q]) /\ (HasProvenance(folder'.manifest) =>
                                          HasProvenance(seen[q]) /\ folder'.manifest.inputs = seen[q].inputs)
                      => Named(folder.manifest)'
    BY <1>1 DEF Named, Imported
  <1> QED
    BY <1>2, <1>3

\* A slot that is still keeps what it knows, unless somebody enters an import.
LEMMA StillKeeps ==
  ASSUME Spares, NEW q \in Host, Still(q), ImportAt(q), folder.dir => folder'.dir,
         folder.manifest # None => folder'.manifest # None
  PROVE  ImportAt(q)'
  <1>1. ASSUME at'[q] \in Importing \cup {"record", "recorded"}
        PROVE  at'[q] = at[q] /\ seen'[q] = seen[q] /\ (q \in early' <=> q \in early)
    BY <1>1 DEF Still
  <1>2. at'[q] \in Importing => folder'.dir /\ \A r \in Host \ {q} : at'[r] \notin Importing
    BY <1>1 DEF ImportAt, Spares
  <1>3. at'[q] \in {"sidecars", "manifest"} =>
            /\ folder'.files["baseline"] \in Host
            /\ folder'.files["baseline"] = q \/ Compose(cmd'[folder'.files["baseline"]])
    BY <1>1 DEF ImportAt, Spares, Importing
  <1>4. at'[q] = "manifest" => folder'.files["sidecars"] = q
    BY <1>1 DEF ImportAt, Spares, Importing
  <1>5. at'[q] \in {"record", "recorded"} /\ seen'[q] # None => folder'.manifest # None
    BY <1>1 DEF ImportAt
  <1>6. at'[q] \in {"record", "recorded"} => Named(seen[q])'
    BY <1>1, NamedStays DEF ImportAt
  <1>7. at'[q] \in {"record", "recorded"} /\ q \notin early' => HasProvenance(seen'[q])
    BY <1>1 DEF ImportAt
  <1> QED
    BY <1>2, <1>3, <1>4, <1>5, <1>6, <1>7 DEF ImportAt

\* The invariant holds at first: no run is imported yet.
LEMMA FirstImport ==
  ASSUME FolderInit
  PROVE  ImportInv
  <1>1. PICK cast \in Assignments, found \in {NoFolder, EmulatedRun} : FolderBegins(cast, found)
    BY DEF FolderInit
  <1>2. folder = found /\ \A p \in Host : at[p] \in {"off", "launch", "inputs"}
    BY <1>1 DEF FolderBegins, StartLabel
  <1>3. (found.manifest # None => found.dir) /\ ~HasProvenance(found.manifest)
    <2>1. NoFolder.manifest = None
      BY DEF NoFolder
    <2>2. EmulatedRun.dir /\ EmulatedRun.manifest = [mode |-> "emulator", inputs |-> None, status |-> "finished"]
      BY DEF EmulatedRun, NoFolder
    <2> QED
      BY <2>1, <2>2 DEF HasProvenance
  <1> QED
    BY <1>2, <1>3 DEF ImportInv, ImportAt, Importing, Named

\* Every step keeps it.
LEMMA ImportStep ==
  ASSUME FolderTypes, ImportInv, NEW p \in Host, FolderStep(p)
  PROVE  ImportInv'
  <1>0. \A q \in Host \ {p} : Still(q)
    BY OthersStill
  <1>1. \A q \in Host : ImportAt(q)
    BY DEF ImportInv
  <1>2. CASE BesideImports(p) \/ Collects(p)
    <2>1. cmd' = cmd /\ folder'.dir = folder.dir /\ folder'.manifest = folder.manifest /\ \A q \in Host : Still(q)
      BY <1>0, <1>2 DEF BesideImports, Collects, ImportFrame
    <2>2. Spares
      BY <1>2, <2>1 DEF BesideImports, Collects, ImportFrame, Spares, Still
    <2>3. \A q \in Host : ImportAt(q)'
      BY <1>1, <2>1, <2>2, StillKeeps
    <2>4. Named(folder.manifest)'
      BY <2>1, <2>2, NamedStays DEF ImportInv
    <2> QED
      BY <2>1, <2>3, <2>4 DEF ImportInv
  <1>3. CASE Looks(p)
    <2>1. /\ at'[p] \in {"record", "recorded"} /\ at'[p] \notin Importing /\ seen'[p] = folder.manifest
          /\ early' = Look(p) /\ cmd' = cmd /\ folder' = folder
      BY <1>3 DEF Looks, Importing
    <2>2. Spares
      BY <1>0, <2>1 DEF Spares, Still
    <2>3. \A q \in Host \ {p} : ImportAt(q)'
      BY <1>0, <1>1, <2>1, <2>2, StillKeeps
    <2>4. Named(folder.manifest)'
      BY <2>1, <2>2, NamedStays DEF ImportInv
    <2>5. p \notin early' => HasProvenance(folder.manifest)
      BY <2>1 DEF Look
    <2>6. ImportAt(p)'
      <3>1. Named(seen[p])'
        BY <2>1, <2>2, NamedStays DEF ImportInv
      <3> QED
        BY <2>1, <2>5, <3>1 DEF ImportAt, Importing
    <2> QED
      BY <2>1, <2>3, <2>4, <2>6 DEF ImportInv
  <1>4. CASE Records(p)
    <2>1. /\ at[p] \in {"record", "recorded"} /\ at'[p] \notin Importing \cup {"record", "recorded"}
          /\ cmd' = cmd /\ folder'.files = folder.files /\ folder'.dir
      BY <1>4 DEF Records
    <2>2. Spares
      BY <1>0, <2>1 DEF Spares, Still
    <2>3. seen[p] \in HostManifests \cup {None}
      BY <2>1 DEF FolderTypes, DataTypes, SeenAt
    <2>4. PICK s \in {"prepared", "finished"} : folder'.manifest = Stored(seen[p], s)
      BY <1>4 DEF Records
    <2>5. /\ folder'.manifest # None
          /\ HasProvenance(folder'.manifest) => HasProvenance(seen[p]) /\ folder'.manifest.inputs = seen[p].inputs
      BY <2>3, <2>4, StoredIs DEF HasProvenance
    <2>6. Still(p)
      BY <2>1 DEF Still
    <2>7. \A q \in Host : ImportAt(q)'
      BY <1>0, <1>1, <2>1, <2>2, <2>5, <2>6, StillKeeps
    <2>8. Named(seen[p])
      BY <1>1, <2>1 DEF ImportAt
    <2>9. Named(folder.manifest)'
      BY <2>2, <2>5, <2>8, NamedStays
    <2> QED
      BY <2>1, <2>7, <2>9 DEF ImportInv
  <1>5. CASE MakesRun(p)
    <2>1. /\ at'[p] = "baseline" /\ ~folder.dir /\ folder'.dir /\ cmd' = cmd
          /\ folder'.manifest = folder.manifest /\ folder'.files = folder.files
      BY <1>5 DEF MakesRun
    <2>2. folder.manifest = None /\ \A q \in Host : at[q] \notin Importing
      BY <1>1, <2>1 DEF ImportInv, ImportAt
    <2>3. \A q \in Host : at[q] \in {"record", "recorded"} => seen[q] = None
      BY <1>1, <2>2 DEF ImportAt
    <2>4. ASSUME NEW q \in Host \ {p} PROVE ImportAt(q)' /\ at'[q] \notin Importing
      BY <1>0, <1>1, <2>2, <2>3 DEF Still, ImportAt, Importing, HasProvenance, Named
    <2>5. ImportAt(p)'
      BY <2>1, <2>4 DEF ImportAt
    <2> QED
      BY <2>1, <2>2, <2>4, <2>5 DEF ImportInv, HasProvenance, Named
  <1>6. CASE Copies(p) \/ Signs(p)
    <2>1. at[p] \in Importing /\ cmd' = cmd /\ folder'.dir = folder.dir /\ folder.dir
      BY <1>1, <1>6 DEF Copies, Signs, Importing, ImportAt
    <2>2. \A q \in Host \ {p} : at[q] \notin Importing
      BY <1>1, <2>1 DEF ImportAt
    <2>3. ~HasProvenance(folder.manifest)
          /\ \A q \in Host : at[q] \in {"record", "recorded"} => ~HasProvenance(seen[q])
      BY <1>1, <2>1 DEF ImportInv, ImportAt, Imported, Named
    <2>4. folder.manifest # None => folder'.manifest # None
      BY <1>6 DEF Copies, Signs
    <2>5. ASSUME NEW q \in Host \ {p} PROVE ImportAt(q)' /\ at'[q] \notin Importing
      BY <1>0, <1>1, <2>2, <2>3, <2>4 DEF Still, ImportAt, Importing, Named
    <2>6. CASE Copies(p)
      <3>1. folder'.manifest = folder.manifest
        BY <2>6 DEF Copies
      <3>2. ImportAt(p)'
        <4>1. CASE at[p] = "baseline"
          BY <2>1, <2>5, <2>6, <4>1 DEF Copies, ImportAt, Importing, Named
        <4>2. CASE at[p] = "sidecars"
          BY <1>1, <2>1, <2>5, <2>6, <4>2 DEF Copies, ImportAt, Importing, Named
        <4> QED
          BY <2>6, <4>1, <4>2 DEF Copies
      <3> QED
        BY <2>1, <2>3, <2>5, <3>1, <3>2 DEF ImportInv, Named
    <2>7. CASE Signs(p)
      <3>1. /\ at[p] = "manifest" /\ at'[p] \notin Importing \cup {"record", "recorded"}
            /\ folder'.manifest = create_external_manifest(p) /\ folder'.files = folder.files
        BY <2>7 DEF Signs
      <3>2. folder'.manifest.inputs = p
        BY <3>1 DEF create_external_manifest
      <3>3. Imported(p)'
        BY <1>1, <2>1, <2>5, <3>1 DEF ImportAt, Imported
      <3>4. ImportAt(p)'
        BY <3>1 DEF ImportAt, Importing
      <3> QED
        BY <2>1, <2>5, <3>1, <3>2, <3>3, <3>4 DEF ImportInv, Imported, Named, create_external_manifest
    <2> QED
      BY <1>6, <2>6, <2>7
  <1> QED
    BY <1>2, <1>3, <1>4, <1>5, <1>6, ImportKinds

\* Every step, and a stuttering one, keeps the invariant.
LEMMA ImportKept ==
  ASSUME FolderTypes, ImportInv, [FolderNext]_folderVars
  PROVE  ImportInv'
  <1>1. CASE FolderNext
    <2>1. PICK p \in Host : FolderStep(p)
      BY <1>1 DEF FolderNext
    <2> QED
      BY <2>1, ImportStep
  <1>2. CASE UNCHANGED folderVars
    BY <1>2 DEF folderVars, ImportInv, ImportAt, Imported, Named
  <1> QED
    BY <1>1, <1>2

\* An import whose manifest names its inputs is whole and of one invocation, whatever is killed and
\* whoever launches beside it (research.py:209-246).
THEOREM ImportsAreWhole == FolderSpec => []ImportIsWhole
  <1>1. FolderInit => FolderTypes /\ ImportInv
    BY FirstTypes, FirstImport
  <1>2. FolderTypes /\ ImportInv /\ [FolderNext]_folderVars => (FolderTypes /\ ImportInv)'
    BY TypesKept, ImportKept
  <1>3. ImportInv => ImportIsWhole
    BY DEF ImportInv, Imported, ImportIsWhole, Named
  <1> QED
    BY <1>1, <1>2, <1>3, PTL DEF FolderSpec

\* A launch that found provenance when it last looked writes back the same.
LEMMA ProvenanceStep ==
  ASSUME FolderTypes, ImportInv, NEW p \in Host, FolderStep(p)
  PROVE  KeepsProvenance
  <1> SUFFICES ASSUME HasProvenance(folder.manifest)
               PROVE  \/ folder'.manifest.inputs = folder.manifest.inputs
                      \/ \E q \in early : at[q] \in {"record", "recorded"} /\ at'[q] # at[q]
    BY DEF KeepsProvenance
  <1>1. CASE Records(p)
    <2>1. at[p] \in {"record", "recorded"} /\ at'[p] # at[p]
      BY <1>1 DEF Records
    <2>2. CASE p \notin early
      <3>1. HasProvenance(seen[p]) /\ Imported(seen[p].inputs) /\ Imported(folder.manifest.inputs)
        BY <2>1, <2>2 DEF ImportInv, ImportAt, Named
      <3>2. seen[p].inputs = folder.manifest.inputs
        BY <3>1 DEF Imported
      <3>3. seen[p] \in HostManifests \cup {None}
        BY <2>1 DEF FolderTypes, DataTypes, SeenAt
      <3>4. folder'.manifest.inputs = seen[p].inputs
        BY <1>1, <3>1, <3>3, StoredIs DEF Records, HasProvenance
      <3> QED
        BY <3>2, <3>4
    <2> QED
      BY <2>1, <2>2 DEF FolderTypes, DataTypes
  <1>2. CASE BesideImports(p) \/ Looks(p) \/ Collects(p) \/ MakesRun(p) \/ Copies(p)
    BY <1>2 DEF BesideImports, Looks, Collects, ImportFrame, MakesRun, Copies
  <1>3. CASE Signs(p)
    BY <1>3 DEF Signs, HasProvenance
  <1> QED
    BY <1>1, <1>2, <1>3, ImportKinds

\* No launch loses the provenance of an import but one that found none (runs.py:54-68).
THEOREM ProvenanceIsKept == FolderSpec => ProvenanceKept
  <1>1. FolderInit => FolderTypes /\ ImportInv
    BY FirstTypes, FirstImport
  <1>2. FolderTypes /\ ImportInv /\ [FolderNext]_folderVars => (FolderTypes /\ ImportInv)'
    BY TypesKept, ImportKept
  <1>3. FolderTypes /\ ImportInv /\ [FolderNext]_folderVars => [KeepsProvenance]_folderVars
    BY ProvenanceStep DEF FolderNext
  <1> QED
    BY <1>1, <1>2, <1>3, PTL DEF FolderSpec, ProvenanceKept

-----------------------------------------------------------------------------
(***************************************************************************)
(* What becomes of a launch that the manifest calls prepared.              *)
(***************************************************************************)
\* Only a record of a launch and an import write the manifest.
LEMMA ManifestWrites ==
  ASSUME FolderTypes, NEW p \in Host, FolderStep(p)
  PROVE  \/ folder'.manifest = folder.manifest
         \/ folder'.manifest = create_external_manifest(p)
         \/ Record(p)
  <1>1. CASE Records(p)
    <2>1. at[p] \in {"record", "recorded"}
      BY <1>1 DEF Records
    <2>2. Record(p) \/ Killed(p)
      BY <2>1, LabelsAre DEF FolderStep, Launch, Ending, external_inputs, AcquireCommandLock, external_analyze, Find,
                             ComposeUp, Produce, assemble_reads, assemble_writes, Fails, Assembling
    <2> QED
      BY <2>2 DEF Killed
  <1> QED
    BY <1>1, ImportKinds DEF BesideImports, Looks, Collects, ImportFrame, MakesRun, Copies, Signs

\* A launch whose end is to be recorded, and its place until then.
Owed(p) == cmd[p] # None /\ start_host_manifest(cmd[p]) /\ ~cmd[p].other

\* A launch keeps its place there until its end is recorded.
LEMMA StaysUnended ==
  ASSUME FolderTypes, NEW p \in Host, FolderStep(p), NEW q \in Host, Owed(q), at[q] \in Unended
  PROVE  at'[q] \in Unended \/ (Record(p) /\ at[p] = "recorded")
  <1> USE DEF FolderTypes
  <1>0. cmd[q] \in Invocations /\ at[q] # "off" /\ at'[q] \in Steps /\ {"dead", "ending", "recorded"} \subseteq Unended
    BY CommandIs, CommandStep, LabelsAre DEF Owed, Unended, CommandTypes
  <1>1. Leaves(q) \in Unended
    BY <1>0, LeavesIs DEF Owed
  <1>2. CASE q # p
    BY <1>0, <1>1, <1>2, OthersStay
  <1>3. CASE q = p
    <2>1. CASE external_analyze(p) \/ Find(p) \/ Produce(p) \/ assemble_reads(p) \/ assemble_writes(p) \/ Fails(p)
      <3>1. at[p] \in Working \ {"up"} /\ (Continue(p) \/ Stops(p))
        BY <2>1, LabelsAre DEF external_analyze, Find, Produce, assemble_reads, assemble_writes, Fails,
                               Working, Importing, Assembling
      <3>2. at'[p] \in {Then(cmd[p], at[p]), Leaves(p)} /\ at'[p] \notin {"launch", "record", "off", "inputs"}
        BY <3>1, WorkLeads
      <3>3. Then(cmd[p], at[p]) \in Working \cup {"over"}
        BY <1>0, <1>3, <3>1, CommandIs, FlowLabels
      <3>4. "done" \notin Working \cup {"over"}
        BY LabelsAre DEF Working, Importing, Assembling
      <3> QED
        BY <1>0, <1>1, <1>3, <3>2, <3>3, <3>4 DEF Unended
    <2>2. CASE AcquireCommandLock(p)
      <3>1. at'[p] \in {Head(Flow(cmd[p])), Leaves(p)}
        BY <2>2 DEF AcquireCommandLock, Go, Stops, CommandTypes
      <3> QED
        BY <1>0, <1>1, <1>3, <3>1, FlowLabels DEF Unended
    <2>3. CASE ComposeUp(p)
      <3>1. at[p] = "up" /\ at'[p] = After(p)
        BY <1>3, <2>3 DEF ComposeUp, Owed
      <3> QED
        BY <1>0, <1>3, <3>1, CommandIs, AfterIs DEF Then, Unended, Working
    <2>4. CASE Killed(p)
      BY <1>0, <1>3, <2>4 DEF Killed, Go, CommandTypes
    <2>5. CASE Launch(p) \/ external_inputs(p)
      BY <1>3, <2>5 DEF Launch, external_inputs, Unended
    <2>6. CASE Record(p)
      BY <1>3, <2>6 DEF Record, Unended
    <2>7. CASE Ending(p)
      BY <1>0, <1>3, <2>7 DEF Ending, Go, CommandTypes, Owed
    <2> QED
      BY <2>1, <2>2, <2>3, <2>4, <2>5, <2>6, <2>7 DEF FolderStep
  <1> QED
    BY <1>2, <1>3

\* Every step keeps the invariant of prepared launches.
LEMMA PreparedStep ==
  ASSUME FolderTypes, PreparedInv, NEW p \in Host, FolderStep(p)
  PROVE  PreparedInv'
  <1> SUFFICES ASSUME folder'.manifest # None, folder'.manifest.status = "prepared"
               PROVE  \E q \in Host : cmd'[q] # None /\ start_host_manifest(cmd'[q]) /\ ~cmd'[q].other /\ at'[q] \in Unended
    BY DEF PreparedInv
  <1>0. cmd' = cmd
    BY DEF FolderStep, Launch, Record, Ending, external_inputs, AcquireCommandLock, external_analyze, Find, ComposeUp,
           Produce, assemble_reads, assemble_writes, Fails, Killed
  <1>1. CASE Record(p)
    <2>1. /\ at[p] \in {"record", "recorded"} /\ seen[p] \in HostManifests \cup {None}
          /\ folder'.manifest = Stored(seen[p], IF at[p] = "record" THEN "prepared" ELSE "finished")
          /\ at'[p] = IF at[p] = "record" THEN "lock" ELSE "done"
      BY <1>1, FolderFields DEF Record, FolderTypes, DataTypes, SeenAt, CommandTypes, Go, Folders
    <2>2. at[p] = "record"
      BY <2>1, StoredIs
    <2>3. Owed(p)
      BY <2>1, CommandIs DEF FolderTypes, CommandTypes, WorksAt, Recording, Owed
    <2> QED
      BY <1>0, <2>1, <2>2, <2>3, LabelsAre DEF Owed, Unended
  <1>2. CASE ~Record(p)
    <2>1. folder'.manifest = folder.manifest
      <3>1. create_external_manifest(p).status # "prepared"
        BY HostAssumption DEF create_external_manifest
      <3> QED
        BY <1>2, <3>1, ManifestWrites
    <2>2. PICK q \in Host : Owed(q) /\ at[q] \in Unended
      BY <2>1 DEF PreparedInv, Owed
    <2>3. at'[q] \in Unended
      BY <1>2, <2>2, StaysUnended
    <2> QED
      BY <1>0, <2>2, <2>3 DEF Owed
  <1> QED
    BY <1>1, <1>2

\* Every step, and a stuttering one, keeps the invariant.
LEMMA PreparedKept ==
  ASSUME FolderTypes, PreparedInv, [FolderNext]_folderVars
  PROVE  PreparedInv'
  <1>1. CASE FolderNext
    <2>1. PICK p \in Host : FolderStep(p)
      BY <1>1 DEF FolderNext
    <2> QED
      BY <2>1, PreparedStep
  <1>2. CASE UNCHANGED folderVars
    BY <1>2 DEF folderVars, PreparedInv
  <1> QED
    BY <1>1, <1>2

\* No launch is left prepared once every command has ended by itself (cli.py:190-234).
THEOREM LaunchesAreEnded == FolderSpec => []NoneLeftPrepared
  <1>1. FolderInit => FolderTypes /\ PreparedInv
    <2>1. ASSUME FolderInit PROVE PreparedInv
      <3>1. PICK cast \in Assignments, found \in {NoFolder, EmulatedRun} : FolderBegins(cast, found)
        BY <2>1 DEF FolderInit
      <3>2. NoFolder.manifest = None
        BY DEF NoFolder
      <3>3. EmulatedRun.manifest = [mode |-> "emulator", inputs |-> None, status |-> "finished"]
        BY DEF EmulatedRun, NoFolder
      <3> QED
        BY <3>1, <3>2, <3>3 DEF FolderBegins, PreparedInv
    <2> QED
      BY <2>1, FirstTypes
  <1>2. FolderTypes /\ PreparedInv /\ [FolderNext]_folderVars => (FolderTypes /\ PreparedInv)'
    BY TypesKept, PreparedKept
  <1>3. PreparedInv => NoneLeftPrepared
    BY DEF PreparedInv, NoneLeftPrepared, Unended
  <1> QED
    BY <1>1, <1>2, <1>3, PTL DEF FolderSpec

-----------------------------------------------------------------------------
(***************************************************************************)
(* What a valid report may claim.                                          *)
(***************************************************************************)
\* A report's inputs do not change under an assembly that holds its lock, as a writer needs it too.
LEMMA OneAssembles ==
  ASSUME FolderTypes, NEW p \in Host, NEW q \in Host \ {p}, at[p] \in Working, at[q] \in {"analysis", "hash"},
         q \notin Overtaken(p)
  PROVE  FALSE
  <1>1. command_lock_path(cmd[q]) = command_lock_path(cmd[p]) /\ p \notin killed /\ q \notin killed
    BY DEF Overtaken
  <1>2. at[q] \in Working
    BY LabelsAre DEF Working, Assembling
  <1> QED
    BY <1>1, <1>2 DEF FolderTypes, CommandTypes, WorksAt

\* A slot that does not change what it has assembled.
AssemblyStays(q) ==
    at'[q] \in {"analysis", "hash", "write"} => at'[q] = at[q] /\ seen'[q] = seen[q]

\* The other slots' assemblies stay.
LEMMA OthersAssemble ==
  ASSUME FolderTypes, NEW p \in Host, FolderStep(p), NEW q \in Host \ {p}
  PROVE  AssemblyStays(q)
  BY OthersStay, SeenStays DEF FolderTypes, AssemblyStays

\* A step that changes none of the files, nor the report, nor any assembly.
Unread(p) ==
    /\ AssemblyStays(p) /\ overtaken' = overtaken
    /\ folder'.files = folder.files /\ folder'.report = folder.report

\* A step that writes a file, and so overtakes the assemblies it is not kept from.
Writes(p) ==
    /\ at[p] \in Working /\ at'[p] \notin {"analysis", "hash", "write"}
    /\ overtaken' = overtaken \cup Overtaken(p) /\ folder'.report = folder.report

\* The steps that concern a report: a writer's, and an assembly's own.
LEMMA ReportKinds ==
  ASSUME FolderTypes, NEW p \in Host, FolderStep(p)
  PROVE  \/ Unread(p)
         \/ Writes(p)
         \/ assemble_reads(p)
         \/ assemble_writes(p) /\ at[p] # "markdown"
  <1> USE DEF FolderTypes
  <1>0. /\ folder \in Folders /\ DOMAIN seen = Host /\ at \in [Host -> Steps] /\ at' \in [Host -> Steps]
    BY CommandStep DEF DataTypes, CommandTypes
  <1>1. CASE Launch(p) \/ Record(p) \/ Ending(p) \/ external_inputs(p)
    <2>1. at'[p] \notin {"analysis", "hash", "write"} /\ overtaken' = overtaken
      BY <1>0, <1>1 DEF Launch, Record, Ending, external_inputs, Go
    <2>2. folder'.files = folder.files /\ folder'.report = folder.report
      BY <1>0, <1>1 DEF Launch, Record, Ending, external_inputs, Folders
    <2> QED
      BY <2>1, <2>2 DEF Unread, AssemblyStays
  <1>2. CASE AcquireCommandLock(p)
    <2>1. cmd[p] \in Invocations /\ at'[p] \in {Head(Flow(cmd[p])), Leaves(p)} /\ UNCHANGED <<folder, overtaken>>
      BY <1>0, <1>2, CommandIs DEF AcquireCommandLock, Go, Stops
    <2>2. at'[p] \notin {"analysis", "hash", "write"}
      BY <2>1, FlowLabels, LeavesIs
    <2> QED
      BY <2>1, <2>2 DEF Unread, AssemblyStays
  <1>3. CASE Killed(p)
    BY <1>0, <1>3 DEF Killed, Go, Unread, AssemblyStays
  <1>4. CASE ComposeUp(p)
    <2>1. UNCHANGED <<folder, overtaken>> /\ at[p] = "up" /\ at'[p] \in {Leaves(p), After(p)}
      BY <1>4 DEF ComposeUp
    <2>2. cmd[p] \in Invocations /\ at[p] \in Its(cmd[p])
      BY <2>1, CommandIs DEF Working
    <2>3. at'[p] \notin {"analysis", "hash", "write"}
      BY <2>1, <2>2, AfterIs, LeavesIs DEF Then
    <2> QED
      BY <2>1, <2>3 DEF Unread, AssemblyStays
  <1>5. CASE external_analyze(p)
    <2>1. at[p] \in Working \ {"up"} /\ (Continue(p) \/ Stops(p)) /\ at[p] \in {"mkdir", "baseline", "sidecars", "manifest"}
      BY <1>5, LabelsAre DEF external_analyze, Working, Importing
    <2>2. at'[p] \notin {"analysis", "hash", "write"}
      BY <2>1, WorkLeads DEF Then
    <2>3. folder'.report = folder.report
      BY <1>0, <1>5 DEF external_analyze, Folders
    <2>4. CASE at[p] \in REPORT_INPUT_FILES
      BY <1>5, <2>1, <2>2, <2>3, <2>4 DEF external_analyze, Writes
    <2>5. CASE at[p] \notin REPORT_INPUT_FILES
      <3>1. folder'.files = folder.files
        BY <1>0, <1>5, <2>1, <2>5 DEF external_analyze, Folders, REPORT_INPUT_FILES
      <3> QED
        BY <1>5, <2>2, <2>3, <2>5, <3>1 DEF external_analyze, Unread, AssemblyStays
    <2> QED
      BY <2>4, <2>5
  <1>6. CASE Find(p) \/ Fails(p) \/ Produce(p) \/ assemble_writes(p)
    <2>1. at[p] \in Working \ {"up"} /\ (Continue(p) \/ Stops(p))
      BY <1>6, LabelsAre DEF Find, Fails, Produce, assemble_writes, Working, Importing, Assembling
    <2>2. /\ at'[p] \in {Then(cmd[p], at[p]), Leaves(p)}
          /\ at'[p] # Then(cmd[p], at[p]) => at'[p] \in {"dead", "ending", "done"}
      BY <2>1, WorkLeads
    <2>3. cmd[p] \in Invocations
      BY <2>1, CommandIs, LabelsAre DEF Working, Importing, Assembling
    <2>4. CASE Find(p)
      <3>1. at'[p] \notin {"analysis", "hash", "write"}
        BY <2>2, <2>4 DEF Find, Then
      <3> QED
        BY <2>4, <3>1 DEF Find, Unread, AssemblyStays
    <2>5. CASE Fails(p)
      <3>1. at'[p] = Leaves(p)
        BY <1>0, <2>5 DEF Fails, Stops, Go
      <3>2. at'[p] \notin {"analysis", "hash", "write"}
        BY <2>3, <3>1, LeavesIs
      <3> QED
        BY <2>5, <3>2 DEF Fails, Unread, AssemblyStays
    <2>6. CASE Produce(p)
      <3>1. at[p] \in {"emulate", "collect", "parse", "artifact"} /\ at'[p] \notin {"analysis", "hash", "write"}
        BY <2>2, <2>6 DEF Produce, Then
      <3>2. CASE at[p] = "parse"
        BY <1>0, <2>6, <3>1, <3>2 DEF Produce, Unread, AssemblyStays, Folders
      <3>3. CASE at[p] = "emulate"
        BY <1>0, <2>1, <2>6, <3>1, <3>3 DEF Produce, Folders, Writes
      <3>4. CASE at[p] = "collect"
        BY <1>0, <2>1, <2>6, <3>1, <3>4 DEF Produce, Folders, Writes
      <3>5. CASE at[p] = "artifact"
        BY <1>0, <2>1, <2>6, <3>1, <3>5 DEF Produce, Folders, Writes
      <3> QED
        BY <2>6, <3>1, <3>2, <3>3, <3>4, <3>5
    <2>7. CASE assemble_writes(p) /\ at[p] = "markdown"
      <3>1. at'[p] \notin {"analysis", "hash", "write"}
        BY <2>2, <2>7 DEF Then
      <3>2. folder' = [folder EXCEPT !.markdown = TRUE] /\ overtaken' = overtaken
        BY <2>7 DEF assemble_writes
      <3> QED
        BY <1>0, <3>1, <3>2 DEF Unread, AssemblyStays, Folders
    <2> QED
      BY <1>6, <2>4, <2>5, <2>6, <2>7
  <1> QED
    BY <1>1, <1>2, <1>3, <1>4, <1>5, <1>6 DEF FolderStep

\* Every step keeps the invariant of reports.
LEMMA CurrentStep ==
  ASSUME FolderTypes, CurrentInv, NEW p \in Host, FolderStep(p)
  PROVE  /\ folder'.report # None => SoundReport(folder.report)'
         /\ \A q \in Host : ReadAt(q)'
  <1> USE DEF FolderTypes
  <1>0. /\ folder \in Folders /\ folder.files \in Contents /\ DOMAIN seen = Host /\ at \in [Host -> Steps]
        /\ (folder.report # None => SoundReport(folder.report)) /\ \A q \in Host : ReadAt(q) /\ SeenAt(q)
    BY FolderFields DEF DataTypes, CommandTypes, CurrentInv
  <1>1. CASE Unread(p)
    <2>1. \A q \in Host : AssemblyStays(q)
      BY <1>1, OthersAssemble DEF Unread
    <2>2. \A q \in Host : ReadAt(q)'
      BY <1>0, <1>1, <2>1 DEF Unread, AssemblyStays, ReadAt, SoundReport
    <2> QED
      BY <1>0, <1>1, <2>2 DEF Unread, SoundReport
  <1>2. CASE Writes(p)
    <2>1. at[p] \in Working /\ overtaken' = overtaken \cup Overtaken(p) /\ at'[p] \notin {"analysis", "hash", "write"}
          /\ folder'.report = folder.report
      BY <1>2 DEF Writes
    <2>2. ASSUME NEW q \in Host \ {p} PROVE ReadAt(q)'
      <3>1. AssemblyStays(q)
        BY OthersAssemble
      <3>2. at[q] \in {"analysis", "hash"} => q \in overtaken'
        BY <2>1, OneAssembles
      <3> QED
        BY <1>0, <3>1, <3>2 DEF AssemblyStays, ReadAt, SoundReport
    <2>3. ReadAt(p)'
      BY <2>1 DEF ReadAt
    <2> QED
      BY <1>0, <2>1, <2>2, <2>3 DEF SoundReport
  <1>3. CASE assemble_reads(p) \/ (assemble_writes(p) /\ at[p] # "markdown")
    <2>1. at[p] \in Working \ {"up"} /\ (Continue(p) \/ Stops(p))
      BY <1>3, LabelsAre DEF assemble_reads, assemble_writes, Working, Importing, Assembling
    <2>2. /\ at'[p] \in {Then(cmd[p], at[p]), Leaves(p)}
          /\ at'[p] # Then(cmd[p], at[p]) => at'[p] \in {"dead", "ending", "done"}
      BY <2>1, WorkLeads
    <2>3. /\ at'[p] = "analysis" => at[p] = "read"
          /\ at'[p] = "hash" => at[p] = "analysis"
          /\ at'[p] = "write" => at[p] = "hash"
      BY <2>1, <2>2, LabelsAre DEF Then, Working, Assembling, Importing
    <2>4. /\ folder'.files = folder.files
          /\ \A q \in Host \ {p} : q \in overtaken' <=> q \in overtaken
      BY <1>0, <1>3 DEF assemble_reads, assemble_writes, Folders
    <2>5. ASSUME NEW q \in Host \ {p} PROVE ReadAt(q)'
      <3>1. AssemblyStays(q)
        BY OthersAssemble
      <3> QED
        BY <1>0, <2>4, <3>1 DEF AssemblyStays, ReadAt, SoundReport
    <2>6. CASE assemble_reads(p) /\ at[p] = "read"
      <3>1. /\ folder' = folder
            /\ seen' = [seen EXCEPT ![p] = [NoFiles EXCEPT !["baseline"] = folder.files["baseline"],
                                                           !["sidecars"] = folder.files["sidecars"]]]
        BY <2>6 DEF assemble_reads
      <3>2. seen'[p]["baseline"] = folder.files["baseline"] /\ seen'[p]["sidecars"] = folder.files["sidecars"]
        BY <1>0, <3>1 DEF NoFiles, REPORT_INPUT_FILES
      <3>3. ReadAt(p)'
        BY <2>3, <2>6, <3>1, <3>2 DEF ReadAt
      <3> QED
        BY <1>0, <2>5, <3>1, <3>3
    <2>7. CASE assemble_reads(p) /\ at[p] = "analysis"
      <3>1. /\ folder' = folder /\ overtaken' = overtaken
            /\ seen' = [seen EXCEPT ![p]["artifact"] = folder.files["artifact"],
                                    ![p]["scenario"] = folder.files["scenario"]]
        BY <2>7 DEF assemble_reads
      <3>2. seen[p] \in Contents
        BY <1>0, <2>7 DEF SeenAt
      <3>3. seen'[p] = [seen[p] EXCEPT !["artifact"] = folder.files["artifact"], !["scenario"] = folder.files["scenario"]]
        BY <1>0, <3>1
      <3>4. /\ seen'[p]["baseline"] = seen[p]["baseline"] /\ seen'[p]["sidecars"] = seen[p]["sidecars"]
            /\ seen'[p]["artifact"] = folder.files["artifact"] /\ seen'[p]["scenario"] = folder.files["scenario"]
        BY <3>2, <3>3 DEF Contents, REPORT_INPUT_FILES
      <3>5. ReadAt(p)'
        BY <1>0, <2>3, <2>7, <3>1, <3>4 DEF ReadAt
      <3> QED
        BY <1>0, <2>5, <3>1, <3>5
    <2>8. CASE assemble_writes(p) /\ at[p] = "hash"
      <3>1. folder' = [folder EXCEPT !.report = [torn |-> TRUE]]
        BY <2>8 DEF assemble_writes
      <3>2. PICK v \in Verdicts(cmd[p]) :
               seen' = [seen EXCEPT ![p] = [read |-> seen[p], recorded |-> folder.files, verdict |-> v,
                                            overtaken |-> p \in overtaken, torn |-> FALSE]]
        BY <2>8 DEF assemble_writes
      <3>3. seen'[p] = [read |-> seen[p], recorded |-> folder.files, verdict |-> v,
                        overtaken |-> p \in overtaken, torn |-> FALSE]
        BY <1>0, <3>2
      <3>4. p \notin overtaken => \A f \in REPORT_INPUT_FILES : seen[p][f] = folder.files[f]
        BY <1>0, <2>8 DEF ReadAt, REPORT_INPUT_FILES
      <3>5. SoundReport(seen[p])'
        <4>1. seen'[p].read = seen[p] /\ seen'[p].recorded = folder.files /\ seen'[p].overtaken = (p \in overtaken)
          BY <3>3
        <4>2. seen'[p].overtaken \/ \A f \in REPORT_INPUT_FILES : seen'[p].read[f] = seen'[p].recorded[f]
          BY <3>4, <4>1
        <4> QED
          BY <4>2, Zenon DEF SoundReport
      <3>6. ReadAt(p)'
        BY <2>3, <2>8, <3>5 DEF ReadAt
      <3>7. folder'.report = [torn |-> TRUE]
        BY <1>0, <3>1 DEF Folders
      <3> QED
        BY <2>5, <3>6, <3>7 DEF SoundReport
    <2>9. CASE assemble_writes(p) /\ at[p] = "write"
      <3>1. folder' \in {[folder EXCEPT !.report = seen[p]], [folder EXCEPT !.report = [torn |-> TRUE]]}
        BY <2>9 DEF assemble_writes
      <3>2. folder'.report \in {seen[p], [torn |-> TRUE]}
        BY <1>0, <3>1 DEF Folders
      <3>3. SoundReport(seen[p])
        BY <1>0, <2>9 DEF ReadAt
      <3>4. SoundReport(folder.report)'
        BY <3>2, <3>3 DEF SoundReport
      <3>5. ReadAt(p)'
        BY <2>3, <2>9 DEF ReadAt
      <3> QED
        BY <2>5, <3>4, <3>5
    <2> QED
      BY <1>3, <2>6, <2>7, <2>8, <2>9 DEF assemble_reads, assemble_writes
  <1> QED
    BY <1>1, <1>2, <1>3, ReportKinds

\* What is recorded of a report's inputs, with the types.
ReportInv == FolderTypes /\ CurrentInv

\* At first there is no report, and no assembly.
LEMMA FirstReport ==
  ASSUME FolderInit
  PROVE  ReportInv
  <1>1. PICK cast \in Assignments, found \in {NoFolder, EmulatedRun} : FolderBegins(cast, found)
    BY DEF FolderInit
  <1>2. folder = found /\ \A p \in Host : at[p] \in {"off", "launch", "inputs"}
    BY <1>1 DEF FolderBegins, StartLabel
  <1>3. NoFolder.report = None /\ EmulatedRun.report = None
    BY DEF EmulatedRun, NoFolder
  <1> QED
    BY <1>2, <1>3, FirstTypes DEF ReportInv, CurrentInv, ReadAt

\* Every step, and a stuttering one, keeps the invariant of reports.
LEMMA ReportKept ==
  ASSUME ReportInv, [FolderNext]_folderVars
  PROVE  ReportInv'
  <1>1. CASE FolderNext
    <2>1. PICK p \in Host : FolderStep(p)
      BY <1>1 DEF FolderNext
    <2>2. CurrentInv'
      BY <2>1, CurrentStep DEF ReportInv, CurrentInv
    <2> QED
      BY <1>1, <2>2, TypesKept DEF ReportInv
  <1>2. CASE UNCHANGED folderVars
    BY <1>2, TypesKept DEF folderVars, ReportInv, CurrentInv, ReadAt, SoundReport
  <1> QED
    BY <1>1, <1>2

\* What `cjp runs validate` accepts is a complete report, and no stale one.
LEMMA ValidGives ==
  ASSUME folder \in Folders, validate_existing_run(folder) = 0
  PROVE  /\ folder.report # None /\ ~folder.report.torn
         /\ \A f \in REPORT_INPUT_FILES : folder.files[f] # None => folder.files[f] = folder.report.recorded[f]
  <1>1. report_status(folder) = "complete"
    BY DEF validate_existing_run
  <1>2. folder.report # None /\ ~folder.report.torn /\ ~_report_is_stale(folder)
    BY <1>1 DEF report_status
  <1> QED
    BY <1>2 DEF _report_is_stale

\* The invariant of reports gives what is claimed of valid ones.
LEMMA CurrentGives ==
  ASSUME ReportInv
  PROVE  ValidIsCurrent
  <1> SUFFICES ASSUME validate_existing_run(folder) = 0
               PROVE  \/ folder.report.overtaken
                      \/ \A f \in REPORT_INPUT_FILES : folder.files[f] # None => folder.report.read[f] = folder.files[f]
    BY DEF ValidIsCurrent
  <1>1. /\ folder.report # None /\ ~folder.report.torn
        /\ \A f \in REPORT_INPUT_FILES : folder.files[f] # None => folder.files[f] = folder.report.recorded[f]
    BY ValidGives DEF ReportInv, FolderTypes, DataTypes
  <1>2. SoundReport(folder.report)
    BY <1>1 DEF ReportInv, CurrentInv
  <1> QED
    BY <1>1, <1>2 DEF SoundReport

\* `cjp runs validate` accepts no report of other inputs than the ones present (run_catalog.py:80-114,
\* locks.py:66-76), but for an assembly whose inputs changed under another lock or after a kill.
THEOREM ValidReportsAreCurrent == FolderSpec => []ValidIsCurrent
  <1>1. FolderInit => ReportInv
    BY FirstReport
  <1>2. ReportInv /\ [FolderNext]_folderVars => ReportInv'
    BY ReportKept
  <1>3. ReportInv => ValidIsCurrent
    BY CurrentGives
  <1> QED
    BY <1>1, <1>2, <1>3, PTL DEF FolderSpec

\* Commands that overlap on a run directory leave it as FolderHolds says: the four invariants together.
THEOREM FolderCommandsHold == FolderSpec => []FolderHolds
  <1>1. FolderTypeOK /\ ImportIsWhole /\ ValidIsCurrent /\ NoneLeftPrepared => FolderHolds
    BY DEF FolderHolds
  <1> QED
    BY <1>1, FolderIsTyped, ImportsAreWhole, ValidReportsAreCurrent, LaunchesAreEnded, PTL

-----------------------------------------------------------------------------
(***************************************************************************)
(* The watch.                                                              *)
(***************************************************************************)

Sources == {"pod", "frontend", "pbs"}
Messages == [source : Sources, line : PrintedLines \cup {None}]
Logs == [begun : {1, 2}, length : Nat]

\* The variables of the watch are of their kind.
WatchTypes ==
    /\ watch \in [at : {"off", "discover", "jobs", "streaming", "returned"}, active : SUBSET Sources,
                  code : {None, "ok", "failure", "usage", "interrupted"}]
    /\ job \in [state : {"Q", "R", "F"}, known : BOOLEAN]
    /\ logs \in [Files -> Logs \cup {None}]
    /\ \A f \in Files : logs[f] # None => logs[f].length \in 0..Lines
    /\ poll \in [at : Files \cup {"off", "state", "ends", "ended"}, pos : [Files -> Nat \cup {None}],
                 cut : [Files -> Nat], seen : [Files -> 0..2], missed : SUBSET Files,
                 emitted : BOOLEAN, idle : Nat, lost : BOOLEAN]
    /\ tails \in [{"pod", "frontend"} -> {"off", "follows", "ok", "failed"}]
    /\ queue \in Seq(Messages)

\* The reader of the job has said that it ended, and main has printed all it put.
Follows == wants.pbs /\ "followed" \in _pbs_sources(wants)
AllPrinted == poll.at = "ended" /\ \A k \in 1..Len(queue) : queue[k].source # "pbs"

\* A watch that streams, or that ended by itself, has a source for the job until all is printed.
Streamed == watch.at = "streaming" \/ (watch.at = "returned" /\ watch.code \in {"ok", "failure"})
StreamInv ==
    /\ watch.at \in {"off", "discover", "jobs"} => poll.at = "off"
    /\ Streamed /\ Follows => poll.at # "off" /\ ("pbs" \in watch.active \/ AllPrinted)
    /\ watch.at = "returned" /\ watch.code \in {"ok", "failure"} => watch.active = {}

\* The end of the job's source is the last of its messages.
IsEnd(message) == message.source = "pbs" /\ message.line = None
EndInv ==
    \A k \in 1..Len(queue) : IsEnd(queue[k]) =>
        /\ poll.at = "ended"
        /\ \A i \in 1..Len(queue) : queue[i].source = "pbs" => i <= k

\* The lines read are on their way, or printed.
Delivered(line) == line \in shown \/ \E k \in 1..Len(queue) : queue[k] = Line("pbs", line)
LineInv ==
    poll.pos["log"] # None /\ "log" \notin poll.missed =>
        \A i \in (poll.cut["log"] + 1)..poll.pos["log"] : Delivered(<<"log", poll.seen["log"], i>>)

\* The polls that count as idle were of an ended job; the second of them has read all its log.
ReadToEnd ==
    \/ logs["log"] = None
    \/ "log" \in poll.missed
    \/ poll.pos["log"] = logs["log"].length /\ poll.seen["log"] = logs["log"].begun
ReadInv ==
    /\ poll.idle >= 1 => job.state = "F"
    /\ poll.idle >= 2 => ReadToEnd
    /\ poll.idle >= 1 /\ poll.at = "state" => ReadToEnd
    /\ poll.at \in {"ends", "ended"} /\ wants.follow /\ ~poll.lost => poll.idle >= 2

WatchInv == WatchTypes /\ StreamInv /\ EndInv /\ LineInv /\ ReadInv

-----------------------------------------------------------------------------
LEMMA WatchInitially == WatchInit => WatchInv
  <1> USE DEF WatchInit, NothingRead, NoWatch
  <1>1. WatchInit => WatchTypes
    BY WatchAssumption DEF WatchTypes, Files, Sources, Messages
  <1>2. WatchInit => StreamInv
    BY WatchAssumption DEF StreamInv, Streamed
  <1>3. WatchInit => EndInv /\ ReadInv
    BY DEF EndInv, ReadInv
  <1>4. WatchInit => LineInv
    BY DEF LineInv, Files
  <1> QED
    BY <1>1, <1>2, <1>3, <1>4 DEF WatchInv

\* What putting messages does to the queue.
LEMMA Puts ==
  ASSUME NEW new \in Seq(Messages), queue \in Seq(Messages), Put(new)
  PROVE  /\ queue' \in Seq(Messages)
         /\ Len(queue') = Len(queue) + Len(new)
         /\ \A i \in 1..Len(queue) : queue'[i] = queue[i]
         /\ \A i \in 1..Len(new) : queue'[Len(queue) + i] = new[i]
         /\ \A i \in 1..Len(queue') : i \in 1..Len(queue) \/ \E j \in 1..Len(new) : i = Len(queue) + j
  <1>1. Len(queue) \in Nat /\ Len(new) \in Nat
    BY LenProperties
  <1>2. queue' = queue \o new
    BY DEF Put
  <1>3. /\ queue' \in Seq(Messages)
        /\ Len(queue') = Len(queue) + Len(new)
        /\ \A i \in 1..Len(queue) + Len(new) : queue'[i] = IF i <= Len(queue) THEN queue[i] ELSE new[i - Len(queue)]
    BY <1>2, ConcatProperties
  <1>4. \A i \in 1..Len(new) : queue'[Len(queue) + i] = new[i]
    BY <1>1, <1>3
  <1>5. ASSUME NEW i \in 1..Len(queue'), i \notin 1..Len(queue)
        PROVE  \E j \in 1..Len(new) : i = Len(queue) + j
    <2>1. i - Len(queue) \in 1..Len(new) /\ i = Len(queue) + (i - Len(queue))
      BY <1>1, <1>3, <1>5
    <2> QED
      BY <2>1
  <1> QED
    BY <1>1, <1>3, <1>4, <1>5

\* What the loop of main takes from the queue.
LEMMA Takes ==
  ASSUME queue \in Seq(Messages), queue # << >>, queue' = Tail(queue)
  PROVE  /\ queue' \in Seq(Messages)
         /\ Len(queue) \in Nat /\ Len(queue') = Len(queue) - 1
         /\ 1 \in 1..Len(queue) /\ Head(queue) = queue[1] /\ Head(queue) \in Messages
         /\ \A i \in 1..Len(queue') : i + 1 \in 1..Len(queue) /\ queue'[i] = queue[i + 1]
         /\ \A i \in 1..Len(queue) : i = 1 \/ \E j \in 1..Len(queue') : i = j + 1
  <1>1. /\ Head(queue) \in Messages
        /\ queue' \in Seq(Messages)
        /\ Len(queue') = Len(queue) - 1
        /\ \A i \in 1..Len(queue') : queue'[i] = queue[i + 1]
    BY HeadTailProperties
  <1>2. Len(queue) \in Nat /\ Len(queue) # 0
    BY LenProperties, EmptySeq
  <1>3. Head(queue) = queue[1]
    OBVIOUS
  <1>4. ASSUME NEW i \in 1..Len(queue), i # 1
        PROVE  \E j \in 1..Len(queue') : i = j + 1
    <2>1. i - 1 \in 1..Len(queue') /\ i = (i - 1) + 1
      BY <1>1, <1>2, <1>4
    <2> QED
      BY <2>1
  <1> QED
    BY <1>1, <1>2, <1>3, <1>4

-----------------------------------------------------------------------------
\* The lines a poll reads of a file start at a line number within it.
LEMMA LinesRead ==
  ASSUME WatchTypes, NEW f \in Files, logs[f] # None
  PROVE  \E from \in 0..logs[f].length :
            /\ ~Replays(f) => from = poll.pos[f]
            /\ Replays(f) => from = Max({0, logs[f].length - Replay})
            /\ _log_lines(f) \in Seq(Messages) /\ Len(_log_lines(f)) = logs[f].length - from
            /\ \A i \in 1..(logs[f].length - from) :
                   _log_lines(f)[i] = Line("pbs", <<f, logs[f].begun, from + i>>)
  <1>1. logs[f] \in Logs /\ poll.pos[f] \in Nat \cup {None}
    BY DEF WatchTypes
  <1> DEFINE from == IF Replays(f) THEN Max({0, logs[f].length - Replay}) ELSE poll.pos[f]
  <1>2. from \in 0..logs[f].length
    <2>1. CASE Replays(f)
      <3>1. logs[f].length \in Nat /\ Replay \in Nat
        BY <1>1, WatchAssumption DEF Logs
      <3>2. \E x \in {0, logs[f].length - Replay} : \A y \in {0, logs[f].length - Replay} : x >= y
        BY <3>1
      <3>3. Max({0, logs[f].length - Replay}) \in {0, logs[f].length - Replay}
            /\ \A y \in {0, logs[f].length - Replay} : Max({0, logs[f].length - Replay}) >= y
        BY <3>2 DEF Max
      <3> QED
        BY <2>1, <3>1, <3>3
    <2>2. CASE ~Replays(f)
      BY <1>1, <2>2 DEF Replays, Logs
    <2> QED
      BY <2>1, <2>2
  <1> DEFINE n == logs[f].length - from
  <1>3. n \in Nat /\ from \in Nat
    BY <1>1, <1>2 DEF Logs
  <1>4. _log_lines(f) = [i \in 1..n |-> Line("pbs", <<f, logs[f].begun, from + i>>)]
    BY DEF _log_lines
  <1>5. ASSUME NEW i \in 1..n PROVE Line("pbs", <<f, logs[f].begun, from + i>>) \in Messages
    BY <1>1, <1>3 DEF Line, Messages, Sources, PrintedLines, Files, Logs
  <1> HIDE DEF from, n
  <1>6. _log_lines(f) \in Seq(Messages) /\ Len(_log_lines(f)) = n
    BY SMTT(60), <1>3, <1>4, <1>5, IsASeq
  <1> QED
    BY <1>2, <1>4, <1>6 DEF from, n

\* The steps of the job and its files.
JobMoves ==
    /\ UNCHANGED <<wants, watch, poll, tails, queue, shown>>
    /\ job.state = "F" => job'.state = "F" /\ logs'["log"] = logs["log"]

LEMMA JobSteps ==
  ASSUME WatchInv, JobRuns \/ JobWrites \/ JobStartsOver \/ JobOutput \/ JobForgotten
  PROVE  WatchInv'
  <1>0. WatchTypes /\ StreamInv /\ EndInv /\ LineInv /\ ReadInv
    BY DEF WatchInv
  <1>1. JobMoves /\ WatchTypes'
    <2>0. /\ job \in [state : {"Q", "R", "F"}, known : BOOLEAN]
          /\ logs \in [Files -> Logs \cup {None}]
          /\ \A f \in Files : logs[f] # None => logs[f] \in Logs /\ logs[f].length \in 0..Lines
          /\ Lines \in Nat \ {0} /\ "log" \in Files /\ "out" \in Files
      BY <1>0, WatchAssumption DEF WatchTypes, Files
    <2>1. CASE JobRuns
      BY <1>0, <2>1 DEF JobRuns, JobMoves, WatchTypes
    <2>2. CASE JobForgotten
      BY <1>0, <2>2 DEF JobForgotten, JobMoves, WatchTypes
    <2>3. CASE JobWrites
      <3>1. job' = job /\ job.state = "R" /\ UNCHANGED <<wants, watch, poll, tails, queue, shown>>
        BY <2>3 DEF JobWrites
      <3>2. Length("log") \in Nat /\ Length("log") + 1 \in 0..Lines
        BY <2>0, <2>3 DEF JobWrites, Length
      <3>3. (IF logs["log"] = None THEN 1 ELSE logs["log"].begun) \in {1, 2}
        BY <2>0 DEF Logs
      <3>4. PICK v \in Logs : logs' = [logs EXCEPT !["log"] = v] /\ v.length \in 0..Lines
        <4> DEFINE new == [begun |-> IF logs["log"] = None THEN 1 ELSE logs["log"].begun, length |-> Length("log") + 1]
        <4>1. new \in Logs /\ new.length \in 0..Lines
          BY <3>2, <3>3 DEF Logs
        <4>2. logs' = [logs EXCEPT !["log"] = new]
          BY <2>3 DEF JobWrites
        <4> QED
          BY <4>1, <4>2
      <3> QED
        BY <1>0, <2>0, <3>1, <3>4 DEF JobMoves, WatchTypes
    <2>4. CASE JobStartsOver
      BY <1>0, <2>0, <2>4 DEF JobStartsOver, JobMoves, WatchTypes, Logs
    <2>5. CASE JobOutput
      BY <1>0, <2>0, <2>5 DEF JobOutput, JobMoves, WatchTypes, Logs
    <2> QED
      BY <2>1, <2>2, <2>3, <2>4, <2>5
  <1>2. StreamInv' /\ EndInv' /\ LineInv'
    BY <1>0, <1>1 DEF JobMoves, StreamInv, Streamed, Follows, AllPrinted, EndInv, LineInv, Delivered
  <1>3. ReadInv'
    <2>1. poll.idle \in Nat
      BY <1>0 DEF WatchTypes
    <2> QED
      BY <1>0, <1>1, <2>1 DEF JobMoves, ReadInv, ReadToEnd
  <1> QED
    BY <1>1, <1>2, <1>3 DEF WatchInv

\* main finds its sources, starts their readers, and returns.
LEMMA MainSteps ==
  ASSUME WatchInv, _kubernetes_sources \/ StartReaders \/ Finishes \/ Interrupted
  PROVE  WatchInv'
  <1>0. WatchTypes /\ StreamInv /\ EndInv /\ LineInv /\ ReadInv
    BY DEF WatchInv
  <1>1. CASE _kubernetes_sources
    <2>1. WatchTypes'
      BY <1>0, <1>1 DEF _kubernetes_sources, Returns, WatchTypes
    <2>2. StreamInv'
      BY <1>0, <1>1 DEF _kubernetes_sources, Returns, WatchTypes, StreamInv, Streamed
    <2>3. EndInv' /\ LineInv' /\ ReadInv'
      BY <1>0, <1>1 DEF _kubernetes_sources, EndInv, LineInv, Delivered, ReadInv, ReadToEnd
    <2> QED
      BY <2>1, <2>2, <2>3 DEF WatchInv
  <1>2. CASE StartReaders
    <2>1. /\ watch.at = "jobs" /\ poll.at = "off"
          /\ UNCHANGED <<wants, job, logs, queue, shown>>
          /\ \/ Returns("usage") /\ UNCHANGED <<poll, tails>>
             \/ /\ watch' = [watch EXCEPT !.at = "streaming",
                                           !.active = Processes \cup (IF Follows THEN {"pbs"} ELSE {})]
                /\ poll' = IF Follows THEN [poll EXCEPT !.at = "out"] ELSE poll
                /\ tails' = [s \in DOMAIN tails |-> IF s \in Processes THEN "follows" ELSE "off"]
      BY <1>0, <1>2 DEF StartReaders, Follows, StreamInv
    <2>2. /\ poll'.at \in {"off", "out"}
          /\ \A x \in {"pos", "cut", "seen", "missed", "emitted", "idle", "lost"} : poll'[x] = poll[x]
      BY <1>0, <2>1 DEF WatchTypes
    <2>8. Processes \subseteq {"pod", "frontend"}
      BY DEF Processes
    <2>9. ASSUME Returns("usage") /\ UNCHANGED <<poll, tails>>
          PROVE  WatchTypes' /\ StreamInv'
      <3>1. watch' = [watch EXCEPT !.at = "returned", !.code = "usage"]
        BY <2>9 DEF Returns
      <3> QED
        BY <1>0, <2>1, <2>9, <3>1 DEF WatchTypes, StreamInv, Streamed
    <2>10. ASSUME /\ watch' = [watch EXCEPT !.at = "streaming",
                                            !.active = Processes \cup (IF Follows THEN {"pbs"} ELSE {})]
                  /\ poll' = IF Follows THEN [poll EXCEPT !.at = "out"] ELSE poll
                  /\ tails' = [s \in DOMAIN tails |-> IF s \in Processes THEN "follows" ELSE "off"]
           PROVE  WatchTypes' /\ StreamInv'
      <3>1. poll' \in [at : Files \cup {"off", "state", "ends", "ended"}, pos : [Files -> Nat \cup {None}],
                       cut : [Files -> Nat], seen : [Files -> 0..2], missed : SUBSET Files,
                       emitted : BOOLEAN, idle : Nat, lost : BOOLEAN]
        BY <1>0, <2>10 DEF WatchTypes, Files
      <3>2. tails' \in [{"pod", "frontend"} -> {"off", "follows", "ok", "failed"}]
        BY <1>0, <2>10 DEF WatchTypes
      <3>3. Processes \cup (IF Follows THEN {"pbs"} ELSE {}) \in SUBSET Sources
        BY <2>8 DEF Sources
      <3>4. watch' \in [at : {"off", "discover", "jobs", "streaming", "returned"}, active : SUBSET Sources,
                        code : {None, "ok", "failure", "usage", "interrupted"}]
        BY <1>0, <2>10, <3>3 DEF WatchTypes
      <3>5. WatchTypes'
        BY <1>0, <2>1, <3>1, <3>2, <3>4 DEF WatchTypes
      <3>6. /\ watch'.at = "streaming" /\ (Follows => "pbs" \in watch'.active)
            /\ Follows => poll'.at = "out"
        BY <1>0, <2>10 DEF WatchTypes
      <3>7. Follows' = Follows
        BY <2>1 DEF Follows
      <3> QED
        BY <3>5, <3>6, <3>7 DEF StreamInv, Streamed
    <2>3. WatchTypes' /\ StreamInv'
      BY <2>1, <2>9, <2>10
    <2>5. EndInv'
      BY <1>0, <2>1 DEF EndInv
    <2>6. LineInv'
      BY <1>0, <2>1, <2>2 DEF LineInv, Delivered
    <2>7. ReadInv'
      BY <1>0, <2>1, <2>2 DEF ReadInv, ReadToEnd
    <2> QED
      BY <2>3, <2>5, <2>6, <2>7 DEF WatchInv
  <1>3. CASE Finishes \/ Interrupted
    <2>1. /\ UNCHANGED <<wants, job, logs, poll, tails, queue, shown>>
          /\ \E code \in {"failure", "ok", "interrupted"} :
                /\ watch' = [watch EXCEPT !.at = "returned", !.code = code]
                /\ code # "interrupted" => watch.active = {}
          /\ watch.at = "streaming"
      BY <1>3 DEF Finishes, Interrupted, Returns
    <2>2. WatchTypes'
      BY <1>0, <2>1 DEF WatchTypes
    <2>3. StreamInv'
      BY <1>0, <2>1 DEF WatchTypes, StreamInv, Streamed, Follows, AllPrinted
    <2>4. EndInv' /\ LineInv' /\ ReadInv'
      BY <1>0, <2>1 DEF EndInv, LineInv, Delivered, ReadInv, ReadToEnd
    <2> QED
      BY <2>2, <2>3, <2>4 DEF WatchInv
  <1> QED
    BY <1>1, <1>2, <1>3

\* main takes the next message: a line, or the end of a source.
LEMMA StreamSteps ==
  ASSUME WatchInv, stream_sources
  PROVE  WatchInv'
  <1>0. WatchTypes /\ StreamInv /\ EndInv /\ LineInv /\ ReadInv
    BY DEF WatchInv
  <1>1. /\ watch.at = "streaming" /\ queue \in Seq(Messages) /\ queue # << >> /\ queue' = Tail(queue)
        /\ UNCHANGED <<wants, job, logs, poll, tails>>
    BY <1>0 DEF stream_sources, WatchTypes
  <1>2. /\ queue' \in Seq(Messages)
        /\ Len(queue) \in Nat /\ Len(queue') = Len(queue) - 1
        /\ 1 \in 1..Len(queue) /\ Head(queue) = queue[1] /\ Head(queue) \in Messages
        /\ \A i \in 1..Len(queue') : i + 1 \in 1..Len(queue) /\ queue'[i] = queue[i + 1]
        /\ \A i \in 1..Len(queue) : i = 1 \/ \E j \in 1..Len(queue') : i = j + 1
    BY <1>1, Takes
  <1>3. \/ /\ queue[1].line = None /\ UNCHANGED shown
           /\ watch' = [watch EXCEPT !.active = @ \ {queue[1].source}]
        \/ queue[1].line # None /\ shown' = shown \cup {queue[1].line} /\ UNCHANGED watch
    BY <1>2 DEF stream_sources
  <1>4. WatchTypes'
    BY <1>0, <1>1, <1>2, <1>3 DEF WatchTypes
  <1>5. EndInv'
    <2> SUFFICES ASSUME NEW k \in 1..Len(queue'), IsEnd(queue'[k])
                 PROVE  /\ poll'.at = "ended"
                        /\ \A i \in 1..Len(queue') : queue'[i].source = "pbs" => i <= k
      BY DEF EndInv, IsEnd
    <2>1. k + 1 \in 1..Len(queue) /\ IsEnd(queue[k + 1])
      BY <1>2 DEF IsEnd
    <2>2. poll.at = "ended" /\ \A i \in 1..Len(queue) : queue[i].source = "pbs" => i <= k + 1
      BY <1>0, <2>1 DEF EndInv
    <2> QED
      BY <1>1, <1>2, <2>2
  <1>6. LineInv'
    <2>1. ASSUME NEW line, line # None, Delivered(line)
          PROVE  Delivered(line)'
      <3>1. CASE line \in shown
        BY <1>3, <3>1 DEF Delivered
      <3>2. CASE line \notin shown
        <4>1. PICK k \in 1..Len(queue) : queue[k] = Line("pbs", line)
          BY <2>1, <3>2 DEF Delivered
        <4>2. CASE k = 1
          BY <1>3, <2>1, <4>1, <4>2 DEF Delivered, Line
        <4>3. CASE k # 1
          <5>1. PICK j \in 1..Len(queue') : k = j + 1
            BY <1>2, <4>3
          <5>2. queue'[j] = Line("pbs", line)
            BY <1>2, <4>1, <5>1
          <5> QED
            BY <5>2 DEF Delivered
        <4> QED
          BY <4>2, <4>3
      <3> QED
        BY <3>1, <3>2
    <2>2. ASSUME poll.pos["log"] # None, NEW i \in (poll.cut["log"] + 1)..poll.pos["log"]
          PROVE  <<"log", poll.seen["log"], i>> # None
      <3>1. i \in Nat /\ poll.seen["log"] \in 0..2 /\ poll.cut["log"] \in Nat /\ poll.pos["log"] \in Nat
        BY <1>0, <2>2 DEF WatchTypes, Files
      <3>2. <<"log", poll.seen["log"], i>> \in PrintedLines
        BY <3>1 DEF PrintedLines
      <3> QED
        BY <3>2, WatchAssumption
    <2> QED
      BY <1>0, <1>1, <2>1, <2>2 DEF LineInv
  <1>7. StreamInv'
    <2>1. watch'.at = "streaming" /\ watch.active \subseteq Sources
      BY <1>0, <1>1, <1>3 DEF WatchTypes
    <2>2. ASSUME AllPrinted PROVE AllPrinted'
      BY <1>1, <1>2, <2>2 DEF AllPrinted
    <2>3. ASSUME Follows, "pbs" \in watch.active, "pbs" \notin watch'.active
          PROVE  AllPrinted'
      <3>1. IsEnd(queue[1])
        BY <1>0, <1>3, <2>3 DEF IsEnd, WatchTypes
      <3>2. poll.at = "ended" /\ \A i \in 1..Len(queue) : queue[i].source = "pbs" => i <= 1
        BY <1>0, <1>2, <3>1 DEF EndInv
      <3> QED
        BY <1>1, <1>2, <3>2 DEF AllPrinted
    <2> QED
      BY <1>0, <1>1, <2>1, <2>2, <2>3 DEF StreamInv, Streamed, Follows
  <1>8. ReadInv'
    BY <1>0, <1>1 DEF ReadInv, ReadToEnd
  <1> QED
    BY <1>4, <1>5, <1>6, <1>7, <1>8 DEF WatchInv

\* A process that is followed puts a line, or says that it ended.
LEMMA ProcessSteps ==
  ASSUME WatchInv, NEW s \in {"pod", "frontend"}, _reader(s)
  PROVE  WatchInv'
  <1>0. WatchTypes /\ StreamInv /\ EndInv /\ LineInv /\ ReadInv
    BY DEF WatchInv
  <1>1. UNCHANGED <<wants, watch, job, logs, poll, shown>> /\ queue \in Seq(Messages)
    BY <1>0 DEF _reader, WatchTypes
  <1>2. PICK m \in Messages : Put(<<m>>) /\ m.source = s
    <2>1. <<s, 1, 1>> \in PrintedLines
      BY DEF PrintedLines
    <2>2. Line(s, <<s, 1, 1>>) \in Messages /\ Ended(s) \in Messages
      BY <2>1 DEF Line, Ended, Messages, Sources
    <2>3. Line(s, <<s, 1, 1>>).source = s /\ Ended(s).source = s
      BY DEF Line, Ended
    <2>4. Put(<<Line(s, <<s, 1, 1>>)>>) \/ Put(<<Ended(s)>>)
      BY DEF _reader
    <2> QED
      BY <2>2, <2>3, <2>4
  <1>3. /\ queue' \in Seq(Messages)
        /\ Len(queue) \in Nat /\ Len(queue') = Len(queue) + 1
        /\ \A i \in 1..Len(queue) : queue'[i] = queue[i]
        /\ queue'[Len(queue) + 1] = m
    <2>1. <<m>> \in Seq(Messages) /\ Len(<<m>>) = 1 /\ <<m>>[1] = m
      OBVIOUS
    <2>2. /\ queue' \in Seq(Messages)
          /\ Len(queue') = Len(queue) + Len(<<m>>)
          /\ \A i \in 1..Len(queue) : queue'[i] = queue[i]
          /\ \A i \in 1..Len(<<m>>) : queue'[Len(queue) + i] = <<m>>[i]
      BY <1>1, <1>2, <2>1, Puts
    <2>3. Len(queue) \in Nat
      BY <1>1, LenProperties
    <2> QED
      BY <2>1, <2>2, <2>3
  <1>4. queue'[Len(queue) + 1].source # "pbs"
    BY <1>2, <1>3
  <1>5. WatchTypes'
    <2>1. tails' \in [{"pod", "frontend"} -> {"off", "follows", "ok", "failed"}]
      BY <1>0 DEF _reader, WatchTypes
    <2> QED
      BY <1>0, <1>1, <1>3, <2>1 DEF WatchTypes
  <1>6. EndInv'
    <2>1. \A k \in 1..Len(queue') : k \in 1..Len(queue) \/ k = Len(queue) + 1
      BY <1>3
    <2> QED
      BY <1>0, <1>1, <1>3, <1>4, <2>1 DEF EndInv, IsEnd
  <1>7. LineInv'
    <2>1. \A line : Delivered(line) => Delivered(line)'
      <3>1. \A k \in 1..Len(queue) : k \in 1..Len(queue')
        BY <1>3
      <3> QED
        BY <1>1, <1>3, <3>1 DEF Delivered
    <2> QED
      BY <1>0, <1>1, <2>1 DEF LineInv
  <1>8. StreamInv'
    <2>1. AllPrinted => AllPrinted'
      BY <1>1, <1>3, <1>4 DEF AllPrinted
    <2> QED
      BY <1>0, <1>1, <2>1 DEF StreamInv, Streamed, Follows
  <1>9. ReadInv'
    BY <1>0, <1>1 DEF ReadInv, ReadToEnd
  <1> QED
    BY <1>5, <1>6, <1>7, <1>8, <1>9 DEF WatchInv

\* The reader of the job asks for its state.
LEMMA AskSteps ==
  ASSUME WatchInv, AsksState
  PROVE  WatchInv'
  <1>0. WatchTypes /\ StreamInv /\ EndInv /\ LineInv /\ ReadInv
    BY DEF WatchInv
  <1>1. /\ UNCHANGED <<wants, watch, job, logs, tails, queue, shown>>
        /\ poll.at = "state" /\ watch.at = "streaming"
    BY DEF AsksState
  <1>2. PICK to \in {"ends", "out"}, idle \in Nat, emitted \in BOOLEAN, lost \in BOOLEAN :
           /\ poll' = [poll EXCEPT !.at = to, !.idle = idle, !.emitted = emitted, !.lost = lost]
           /\ to = "ends" /\ wants.follow /\ ~lost => idle >= IdlePolls
           /\ idle = poll.idle \/ idle = 0 \/ (idle = poll.idle + 1 /\ job.state = "F")
    <2>0. poll.idle \in Nat /\ poll.emitted \in BOOLEAN /\ poll.lost \in BOOLEAN
      BY <1>0 DEF WatchTypes
    <2>1. CASE ~wants.follow
      <3>1. poll' = [poll EXCEPT !.at = "ends"]
        BY <2>1 DEF AsksState
      <3>2. poll' = [poll EXCEPT !.at = "ends", !.idle = poll.idle, !.emitted = poll.emitted, !.lost = poll.lost]
        BY <1>0, <3>1 DEF WatchTypes
      <3> QED
        BY <2>0, <2>1, <3>2
    <2>2. CASE wants.follow /\ ~job.known
      <3>1. poll' = [poll EXCEPT !.at = "ends", !.lost = TRUE]
        BY <2>2 DEF AsksState
      <3>2. poll' = [poll EXCEPT !.at = "ends", !.idle = poll.idle, !.emitted = poll.emitted, !.lost = TRUE]
        BY <1>0, <3>1 DEF WatchTypes
      <3> QED
        BY <2>0, <3>2
    <2>3. CASE wants.follow /\ job.known
      <3> DEFINE idle == IF poll.emitted \/ job.state # "F" THEN 0 ELSE poll.idle + 1
                 to == IF EndsAfter(idle, job.state) THEN "ends" ELSE "out"
      <3>1. poll' = [poll EXCEPT !.idle = idle, !.emitted = FALSE, !.at = to]
        BY <2>3 DEF AsksState
      <3>2. to = "ends" => idle >= IdlePolls
        BY DEF EndsAfter
      <3>3. idle \in Nat /\ (idle = 0 \/ (idle = poll.idle + 1 /\ job.state = "F")) /\ to \in {"ends", "out"}
        BY <2>0
      <3> HIDE DEF idle, to
      <3>4. poll' = [poll EXCEPT !.at = to, !.idle = idle, !.emitted = FALSE, !.lost = poll.lost]
        BY <1>0, <3>1 DEF WatchTypes
      <3> QED
        BY <2>0, <3>2, <3>3, <3>4
    <2> QED
      BY <2>1, <2>2, <2>3
  <1>3. /\ poll'.at = to /\ poll'.idle = idle /\ poll'.lost = lost
        /\ poll'.pos = poll.pos /\ poll'.cut = poll.cut /\ poll'.seen = poll.seen /\ poll'.missed = poll.missed
    BY <1>0, <1>2 DEF WatchTypes
  <1>4. WatchTypes'
    BY <1>0, <1>1, <1>2 DEF WatchTypes, Files
  <1>5. StreamInv' /\ EndInv' /\ LineInv'
    BY <1>0, <1>1, <1>3 DEF StreamInv, Streamed, Follows, AllPrinted, EndInv, LineInv, Delivered
  <1>6. ReadInv'
    <2>1. poll.idle \in Nat /\ IdlePolls \in Nat /\ IdlePolls >= 2
      BY <1>0, WatchAssumption DEF WatchTypes
    <2>2. idle >= 1 => job.state = "F"
      BY <1>0, <1>2, <2>1 DEF ReadInv
    <2>3. idle >= 2 => ReadToEnd
      BY <1>0, <1>1, <1>2, <2>1 DEF ReadInv
    <2>4. ReadToEnd' = ReadToEnd
      BY <1>1, <1>3 DEF ReadToEnd
    <2>5. to = "ends" /\ wants.follow /\ ~lost => idle >= 2
      BY <1>2, <2>1
    <2> QED
      BY <1>1, <1>2, <1>3, <2>2, <2>3, <2>4, <2>5 DEF ReadInv
  <1> QED
    BY <1>4, <1>5, <1>6 DEF WatchInv

\* The reader of the job says that it ended.
LEMMA EndSteps ==
  ASSUME WatchInv, ReaderEnds
  PROVE  WatchInv'
  <1>0. WatchTypes /\ StreamInv /\ EndInv /\ LineInv /\ ReadInv
    BY DEF WatchInv
  <1>1. /\ UNCHANGED <<wants, watch, job, logs, tails, shown>> /\ queue \in Seq(Messages)
        /\ poll.at = "ends" /\ poll' = [poll EXCEPT !.at = "ended"]
    BY <1>0 DEF ReaderEnds, WatchTypes
  <1>2. /\ poll'.at = "ended" /\ poll'.idle = poll.idle /\ poll'.lost = poll.lost
        /\ poll'.pos = poll.pos /\ poll'.cut = poll.cut /\ poll'.seen = poll.seen /\ poll'.missed = poll.missed
    BY <1>0, <1>1 DEF WatchTypes
  <1>3. /\ queue' \in Seq(Messages)
        /\ Len(queue) \in Nat /\ Len(queue') = Len(queue) + 1
        /\ \A i \in 1..Len(queue) : queue'[i] = queue[i]
    <2>1. Ended("pbs") \in Messages
      BY DEF Ended, Messages, Sources
    <2>2. <<Ended("pbs")>> \in Seq(Messages) /\ Len(<<Ended("pbs")>>) = 1
      BY <2>1
    <2>3. Put(<<Ended("pbs")>>)
      BY DEF ReaderEnds
    <2>4. /\ queue' \in Seq(Messages)
          /\ Len(queue') = Len(queue) + Len(<<Ended("pbs")>>)
          /\ \A i \in 1..Len(queue) : queue'[i] = queue[i]
      BY <1>1, <2>2, <2>3, Puts
    <2>5. Len(queue) \in Nat
      BY <1>1, LenProperties
    <2> QED
      BY <2>2, <2>4, <2>5
  <1>4. WatchTypes'
    BY <1>0, <1>1, <1>3 DEF WatchTypes, Files
  <1>5. EndInv'
    <2>1. \A k \in 1..Len(queue) : ~IsEnd(queue[k])
      BY <1>0, <1>1 DEF EndInv
    <2>2. \A k \in 1..Len(queue') : k \in 1..Len(queue) \/ k = Len(queue) + 1
      BY <1>3
    <2>3. \A k \in 1..Len(queue') : IsEnd(queue'[k]) => k = Len(queue')
      BY <1>3, <2>1, <2>2 DEF IsEnd
    <2> QED
      BY <1>2, <1>3, <2>3 DEF EndInv, IsEnd
  <1>6. LineInv'
    <2>1. \A line : Delivered(line) => Delivered(line)'
      <3>1. \A k \in 1..Len(queue) : k \in 1..Len(queue')
        BY <1>3
      <3> QED
        BY <1>1, <1>3, <3>1 DEF Delivered
    <2> QED
      BY <1>0, <1>2, <2>1 DEF LineInv
  <1>7. StreamInv'
    BY <1>0, <1>1, <1>2 DEF StreamInv, Streamed, Follows, AllPrinted
  <1>8. ReadInv'
    BY <1>0, <1>1, <1>2 DEF ReadInv, ReadToEnd
  <1> QED
    BY <1>4, <1>5, <1>6, <1>7, <1>8 DEF WatchInv

\* The reader of the job reads a file.
LEMMA ReadSteps ==
  ASSUME WatchInv, Reads
  PROVE  WatchInv'
  <1>0. WatchTypes /\ StreamInv /\ EndInv /\ LineInv /\ ReadInv
    BY DEF WatchInv
  <1> DEFINE f == poll.at
             next == IF f = "out" THEN "log" ELSE "state"
  <1>1. /\ UNCHANGED <<wants, watch, job, logs, tails, shown>> /\ queue \in Seq(Messages)
        /\ f \in Files /\ watch.at = "streaming"
    BY <1>0 DEF Reads, WatchTypes
  <1>2. next \in {"log", "state"} /\ (next = "state" <=> f = "log")
    BY <1>1 DEF Files
  <1>3. CASE logs[f] = None
    <2>1. poll' = [poll EXCEPT !.at = next] /\ UNCHANGED queue
      BY <1>3 DEF Reads
    <2>2. /\ poll'.at = next /\ poll'.idle = poll.idle /\ poll'.lost = poll.lost
          /\ poll'.pos = poll.pos /\ poll'.cut = poll.cut /\ poll'.seen = poll.seen /\ poll'.missed = poll.missed
      BY <1>0, <2>1 DEF WatchTypes
    <2>3. WatchTypes'
      BY <1>0, <1>1, <1>2, <2>1 DEF WatchTypes, Files
    <2>4. StreamInv' /\ EndInv' /\ LineInv'
      BY <1>0, <1>1, <1>2, <2>1, <2>2
         DEF StreamInv, Streamed, Follows, AllPrinted, EndInv, LineInv, Delivered, Files
    <2>5. ReadInv'
      BY <1>0, <1>1, <1>2, <1>3, <2>2 DEF ReadInv, ReadToEnd
    <2> QED
      BY <2>3, <2>4, <2>5 DEF WatchInv
  <1>4. CASE logs[f] # None
    <2> DEFINE n == logs[f].length
               new == _log_lines(f)
    <2>0. logs[f] \in Logs /\ n \in Nat /\ poll.pos[f] \in Nat \cup {None} /\ poll.seen[f] \in 0..2
          /\ poll.cut[f] \in Nat /\ f \in Files
      BY <1>0, <1>1, <1>4 DEF WatchTypes, Logs
    <2>1. PICK from \in 0..n :
            /\ ~Replays(f) => from = poll.pos[f]
            /\ Replays(f) => from = Max({0, n - Replay})
            /\ new \in Seq(Messages) /\ Len(new) = n - from
            /\ \A i \in 1..(n - from) : new[i] = Line("pbs", <<f, logs[f].begun, from + i>>)
      BY <1>0, <1>1, <1>4, LinesRead
    <2>2. /\ Put(new)
          /\ poll' = [poll EXCEPT
                !.at = next, !.pos[f] = n, !.emitted = poll.emitted \/ Len(new) > 0,
                !.cut[f] = IF Replays(f) THEN Max({0, n - Replay}) ELSE poll.cut[f],
                !.seen[f] = logs[f].begun,
                !.missed = IF ~Replays(f) /\ poll.seen[f] # logs[f].begun THEN poll.missed \cup {f} ELSE poll.missed]
      BY <1>4 DEF Reads
    <2> HIDE DEF new, next, n
    <2>3. /\ poll'.at = next /\ poll'.idle = poll.idle /\ poll'.lost = poll.lost
          /\ poll'.emitted \in BOOLEAN
          /\ poll'.pos = [poll.pos EXCEPT ![f] = n]
          /\ poll'.seen = [poll.seen EXCEPT ![f] = logs[f].begun]
          /\ poll'.cut = [poll.cut EXCEPT ![f] = IF Replays(f) THEN from ELSE poll.cut[f]]
          /\ poll'.missed = IF ~Replays(f) /\ poll.seen[f] # logs[f].begun THEN poll.missed \cup {f} ELSE poll.missed
      BY <1>0, <2>1, <2>2 DEF WatchTypes
    <2>4. /\ queue' \in Seq(Messages)
          /\ Len(queue) \in Nat /\ Len(queue') = Len(queue) + Len(new)
          /\ \A i \in 1..Len(queue) : queue'[i] = queue[i]
          /\ \A i \in 1..Len(new) : queue'[Len(queue) + i] = new[i]
          /\ \A i \in 1..Len(queue') : i \in 1..Len(queue) \/ \E j \in 1..Len(new) : i = Len(queue) + j
      BY <1>1, <2>1, <2>2, Puts, LenProperties
    <2>5. Len(new) \in Nat /\ from \in Nat /\ n \in Nat
      BY <2>0, <2>1 DEF n
    <2>6. WatchTypes'
      <3>1. poll'.pos \in [Files -> Nat \cup {None}] /\ poll'.cut \in [Files -> Nat]
            /\ poll'.seen \in [Files -> 0..2] /\ poll'.missed \in SUBSET Files
        BY <1>0, <2>0, <2>3, <2>5 DEF WatchTypes, Logs
      <3>2. poll' \in [at : Files \cup {"off", "state", "ends", "ended"}, pos : [Files -> Nat \cup {None}],
                       cut : [Files -> Nat], seen : [Files -> 0..2], missed : SUBSET Files,
                       emitted : BOOLEAN, idle : Nat, lost : BOOLEAN]
        <4>1. next \in Files \cup {"off", "state", "ends", "ended"}
          BY <1>2 DEF Files
        <4>2. poll.idle \in Nat /\ poll.lost \in BOOLEAN
          BY <1>0 DEF WatchTypes
        <4>3. poll' = [at |-> next, pos |-> poll'.pos, cut |-> poll'.cut, seen |-> poll'.seen,
                       missed |-> poll'.missed, emitted |-> poll'.emitted, idle |-> poll.idle, lost |-> poll.lost]
          BY <1>0, <2>2 DEF WatchTypes
        <4> QED
          BY <2>3, <3>1, <4>1, <4>2, <4>3
      <3> QED
        BY <1>0, <1>1, <2>4, <3>2 DEF WatchTypes
    <2>7. EndInv'
      <3>1. \A k \in 1..Len(queue) : ~IsEnd(queue[k])
        BY <1>0, <1>1 DEF EndInv, Files
      <3>2. ASSUME NEW j \in 1..Len(new) PROVE ~IsEnd(new[j])
        <4>1. from + j \in Nat /\ logs[f].begun \in Nat
          BY <2>0, <2>5 DEF Logs
        <4>2. <<f, logs[f].begun, from + j>> \in PrintedLines
          BY <1>1, <4>1 DEF PrintedLines, Files
        <4>3. new[j].line = <<f, logs[f].begun, from + j>>
          BY <2>1 DEF Line
        <4> QED
          BY <4>2, <4>3, WatchAssumption DEF IsEnd
      <3>3. \A k \in 1..Len(queue') : ~IsEnd(queue'[k])
        BY <2>4, <3>1, <3>2
      <3> QED
        BY <3>3 DEF EndInv, IsEnd
    <2>8. \A line : Delivered(line) => Delivered(line)'
      <3>1. \A k \in 1..Len(queue) : k \in 1..Len(queue')
        BY <2>4, <2>5
      <3> QED
        BY <1>1, <2>4, <3>1 DEF Delivered
    <2>9. LineInv'
      <3>1. CASE f = "out"
        <4>1. /\ poll'.pos["log"] = poll.pos["log"] /\ poll'.seen["log"] = poll.seen["log"]
              /\ poll'.cut["log"] = poll.cut["log"]
              /\ "log" \in poll'.missed <=> "log" \in poll.missed
          BY <1>0, <2>3, <3>1 DEF WatchTypes, Files
        <4> QED
          BY <1>0, <2>8, <4>1 DEF LineInv
      <3>2. CASE f = "log"
        <4> SUFFICES ASSUME "log" \notin poll'.missed,
                            NEW i \in (poll'.cut["log"] + 1)..poll'.pos["log"]
                     PROVE  Delivered(<<"log", logs["log"].begun, i>>)'
          <5>1. poll'.seen["log"] = logs["log"].begun
            BY <1>0, <2>3, <3>2 DEF WatchTypes, Files
          <5> QED
            BY <1>1, <5>1 DEF LineInv, Delivered
        <4>1. /\ poll'.pos["log"] = n
              /\ poll'.cut["log"] = IF Replays(f) THEN from ELSE poll.cut["log"]
          BY <1>0, <2>3, <3>2 DEF WatchTypes, Files
        <4>2. i \in Nat /\ i <= n /\ i >= (IF Replays(f) THEN from ELSE poll.cut["log"]) + 1
          BY <2>0, <2>5, <3>2, <4>1
        <4>3. CASE i > from
          <5>1. i - from \in 1..(n - from) /\ from + (i - from) = i
            BY <2>5, <4>2, <4>3
          <5>2. new[i - from] = Line("pbs", <<"log", logs["log"].begun, i>>)
            BY <2>1, <3>2, <5>1
          <5>3. Len(queue) + (i - from) \in 1..Len(queue')
                /\ queue'[Len(queue) + (i - from)] = new[i - from]
            BY <2>1, <2>4, <2>5, <5>1
          <5> QED
            BY <1>1, <5>2, <5>3 DEF Delivered
        <4>4. CASE i <= from
          <5>1. ~Replays(f) /\ from = poll.pos["log"] /\ poll.pos["log"] # None
            BY <2>1, <2>5, <3>2, <4>2, <4>4, WatchAssumption
          <5>2. poll.seen["log"] = logs["log"].begun /\ "log" \notin poll.missed
            BY <2>3, <3>2, <5>1
          <5>3. i \in (poll.cut["log"] + 1)..poll.pos["log"]
            BY <2>0, <2>5, <3>2, <4>2, <4>4, <5>1
          <5>4. Delivered(<<"log", logs["log"].begun, i>>)
            BY <1>0, <5>1, <5>2, <5>3 DEF LineInv
          <5> QED
            BY <1>1, <2>8, <5>4 DEF Delivered
        <4> QED
          BY <2>5, <4>2, <4>3, <4>4
      <3> QED
        BY <1>1, <3>1, <3>2 DEF Files
    <2>10. StreamInv'
      BY <1>0, <1>1, <1>2, <2>3 DEF StreamInv, Streamed, Follows, AllPrinted, Files
    <2>11. ReadInv'
      <3>1. CASE f = "out"
        <4>1. ReadToEnd => ReadToEnd'
          BY <1>0, <1>1, <2>3, <3>1 DEF ReadToEnd, WatchTypes, Files
        <4> QED
          BY <1>0, <1>1, <1>2, <2>3, <3>1, <4>1 DEF ReadInv
      <3>2. CASE f = "log"
        <4>1. ReadToEnd'
          BY <1>0, <1>1, <2>3, <3>2 DEF ReadToEnd, WatchTypes, Files, n
        <4> QED
          BY <1>0, <1>1, <1>2, <2>3, <3>2, <4>1 DEF ReadInv
      <3> QED
        BY <1>1, <3>1, <3>2 DEF Files
    <2> QED
      BY <2>6, <2>7, <2>9, <2>10, <2>11 DEF WatchInv
  <1> QED
    BY <1>3, <1>4

-----------------------------------------------------------------------------
LEMMA WatchAlways == WatchInit /\ [][WatchNext]_watchVars => []WatchInv
  <1>1. WatchInv /\ [WatchNext]_watchVars => WatchInv'
    <2> SUFFICES ASSUME WatchInv, [WatchNext]_watchVars PROVE WatchInv'
      OBVIOUS
    <2>1. CASE UNCHANGED watchVars
      BY <2>1 DEF watchVars, WatchInv, WatchTypes, StreamInv, Streamed, Follows, AllPrinted,
                  EndInv, LineInv, Delivered, ReadInv, ReadToEnd
    <2>2. CASE WatchNext
      BY <2>2, JobSteps, MainSteps, StreamSteps, ProcessSteps, AskSteps, EndSteps, ReadSteps DEF WatchNext
    <2> QED
      BY <2>1, <2>2
  <1> QED
    BY <1>1, WatchInitially, PTL

\* A watch that ends by itself has printed the job's log to its end, but for what --tail cut and
\* for a log begun anew and overgrown between two polls, for any lengths and replays.
THEOREM WatchShowsAll == WatchSpec => []WatchHolds
  <1>1. WatchInv => WatchTypeOK
    BY DEF WatchInv, WatchTypes, WatchTypeOK, Sources
  <1>2. WatchInv => WatchShowsTheEnd
    <2> SUFFICES ASSUME WatchInv, watch.at = "returned", watch.code \in {"ok", "failure"}, Follows,
                        wants.follow, ~poll.lost, logs["log"] # None, "log" \notin poll.missed,
                        NEW i \in (poll.cut["log"] + 1)..logs["log"].length
                 PROVE  <<"log", logs["log"].begun, i>> \in shown
      BY DEF WatchShowsTheEnd, Follows
    <2>1. AllPrinted
      BY DEF WatchInv, StreamInv, Streamed
    <2>2. poll.pos["log"] = logs["log"].length /\ poll.seen["log"] = logs["log"].begun
      BY <2>1 DEF WatchInv, ReadInv, ReadToEnd, AllPrinted
    <2>3. poll.pos["log"] # None
      BY <2>2, WatchAssumption DEF WatchInv, WatchTypes, Files
    <2>4. Delivered(<<"log", logs["log"].begun, i>>)
      BY <2>2, <2>3 DEF WatchInv, LineInv
    <2> QED
      BY <2>1, <2>4 DEF Delivered, AllPrinted, Line
  <1> QED
    BY <1>1, <1>2, WatchAlways, PTL DEF WatchSpec, WatchHolds
-----------------------------------------------------------------------------
(***************************************************************************)
(* The heights of a configuration.                                         *)
(***************************************************************************)
\* An accepted configuration is accepted by every group of rules.
LEMMA AcceptedByAll ==
  ASSUME NEW c, validate(c)
  PROVE  /\ c.coinjoin_analysis # None => option_errors(c, c.coinjoin_analysis) = {}
         /\ _pbs_stage_errors(c) = {} /\ _height_errors(c) = {} /\ _s3_errors(c) = {}
         /\ _remaining_errors(c) = {} /\ _general_errors(c) = {}
         /\ _blocksci_task_errors(c) = {} /\ _cache_source_errors(c) = {} /\ _persistent_index_errors(c) = {}
         /\ _blocksci_source_errors(c) = {} /\ _external_baseline_errors(c) = {}
  BY DEF validate, cross_option_errors, _action_errors
\* What the rules say of the heights of a comparison (option_rules.py:346-362).
LEMMA HeightRules ==
  ASSUME NEW c, validate(c)
  PROVE  /\ None \notin {c.scan_start_height, c.scan_end_height} => ~(c.scan_start_height >= c.scan_end_height)
         /\ None \notin {c.pin_height, c.scan_end_height} => ~(c.scan_end_height > c.pin_height + 1)
  <1> DEFINE task == c.task \notin {"script", "external"} /\ {c.pin_height, c.scan_start_height, c.scan_end_height} # {None}
             empty == None \notin {c.scan_start_height, c.scan_end_height} /\ c.scan_start_height >= c.scan_end_height
             past == None \notin {c.pin_height, c.scan_end_height} /\ c.scan_end_height > c.pin_height + 1
             rules == [heights_task |-> task, empty_scan |-> empty, scan_past_pin |-> past]
  <1>1. Conditions(rules) = {}
    BY AcceptedByAll DEF _height_errors, Violated
  <1> HIDE DEF task, empty, past
  <1>2. ~rules.empty_scan /\ ~rules.scan_past_pin
    BY <1>1 DEF Conditions
  <1>3. ~empty /\ ~past
    BY <1>2
  <1> QED
    BY <1>3 DEF empty, past

\* Accepted bounds are a window of the index opened at the pin.
LEMMA WindowHolds == InputTyped => WindowInsidePin
  <1> DEFINE c == input.c
             chain == open_chain([blocks |-> input.blocks, txs |-> << >>], IF c.pin_height = None THEN None ELSE c.pin_height + 1)
  <1> SUFFICES ASSUME InputTyped, input.kind = "heights", None \notin {c.pin_height, c.scan_end_height},
                      c.pin_height < input.blocks
               PROVE  scan_window(chain, c.scan_start_height, c.scan_end_height) # None
    BY DEF WindowInsidePin
  <1>1. /\ validate(c) /\ input.blocks \in Nat /\ c.pin_height \in Nat /\ c.scan_end_height \in Nat \ {0}
        /\ c.scan_start_height \in Nat \cup {None}
    BY DEF InputTyped, HeightOption
  <1>2. c.scan_end_height <= c.pin_height + 1 /\ (c.scan_start_height # None => c.scan_start_height < c.scan_end_height)
    BY <1>1, HeightRules
  <1>3. chain.blocks = c.pin_height + 1
    <2>1. c.pin_height + 1 \in Nat /\ c.pin_height + 1 # 0 /\ c.pin_height + 1 <= input.blocks
      BY <1>1
    <2>2. Min({c.pin_height + 1, input.blocks}) = c.pin_height + 1
      BY <1>1, <2>1, LeastOfTwo
    <2>3. c.pin_height # None /\ c.pin_height + 1 # None
      <3>1. c.pin_height \in Int /\ c.pin_height + 1 \in Int
        BY <1>1
      <3> QED
        BY <3>1, NoneAssumption
    <2> QED
      BY <1>1, <2>1, <2>2, <2>3 DEF open_chain, ExternalBlockchain
  <1> DEFINE start == IF c.scan_start_height = None THEN 0 ELSE c.scan_start_height
  <1>4. start \in Nat /\ start < c.scan_end_height
    BY <1>1, <1>2
  <1> HIDE DEF chain, start
  <1>5. scan_window(chain, c.scan_start_height, c.scan_end_height) = [start |-> start, end |-> c.scan_end_height]
    BY <1>1, <1>2, <1>3, <1>4 DEF scan_window, start
  <1>6. [start |-> start, end |-> c.scan_end_height] \in [start : Nat, end : Nat]
    BY <1>1, <1>4
  <1> QED
    BY <1>5, <1>6, NoneAssumption
-----------------------------------------------------------------------------
(***************************************************************************)
(* Analyzer operations.                                                    *)
(***************************************************************************)
LEMMA ToolRules ==
  ASSUME NEW c, NEW t, option_errors(c, t) = {}
  PROVE  /\ Outside \notin Range(t.targets)
         /\ t.program = "update_txids_with_wabisator" => t.data_mode = "mainnet"
         /\ t.program \in RESEARCH_PROGRAMS =>
                /\ t.program # "generate_llm_inputs" => t.targets = << >>
                /\ t.program = "analyze_tx_size" => {t.txid, t.tx_hex, t.transaction_file} # {None}
                /\ t.program = "update_txids_with_wabisator" => t.allow_network
                /\ Outside \notin {t.transaction_file, t.coordinator_file}
  <1>1. _data_mode_errors(t) = {} /\ research_option_errors(t) = {} /\ _input_errors(c, t) = {}
    BY DEF option_errors
  <1>2. Outside \notin Range(t.targets)
    <2>1. Outside \in Range(t.targets) \cup {t.load_config} => "path_outside" \in _input_errors(c, t)
      BY DEF _input_errors, Conditions
    <2> QED
      BY <1>1, <2>1
  <1>3. t.program = "update_txids_with_wabisator" => t.data_mode = "mainnet"
    BY <1>1 DEF _data_mode_errors, Conditions
  <1>4. ASSUME t.program \in RESEARCH_PROGRAMS
        PROVE  /\ ~(t.program # "generate_llm_inputs" /\ t.targets # << >>)
               /\ ~(t.program = "analyze_tx_size" /\ {t.txid, t.tx_hex, t.transaction_file} = {None})
               /\ ~(t.program = "update_txids_with_wabisator" /\ ~t.allow_network)
               /\ Outside \notin {t.transaction_file, t.coordinator_file}
    <2>1. t.program # "generate_llm_inputs" /\ t.targets # << >> => "research_targets" \in research_option_errors(t)
      BY <1>4 DEF research_option_errors, Conditions
    <2>2. t.program = "analyze_tx_size" /\ {t.txid, t.tx_hex, t.transaction_file} = {None}
          => "no_transaction" \in research_option_errors(t)
      BY <1>4 DEF research_option_errors, Conditions
    <2>3. t.program = "update_txids_with_wabisator" /\ ~t.allow_network => "offline_refresh" \in research_option_errors(t)
      BY <1>4 DEF research_option_errors, Conditions
    <2>4. Outside \in {t.transaction_file, t.coordinator_file} => "research_path" \in research_option_errors(t)
      BY <1>4 DEF research_option_errors, Conditions
    <2> QED
      BY <1>1, <2>1, <2>2, <2>3, <2>4
  <1> QED
    BY <1>2, <1>3, <1>4

\* The arguments of the command lie in the dataset the job assembles.
LEMMA ArgumentsInDataset ==
  ASSUME NEW c, NEW t, Operation(t), option_errors(c, t) = {}
  PROVE  Range(command_argv(t)) \subseteq coinjoin_tools(t, {"baseline"})
  <1> DEFINE dataset == coinjoin_tools(t, {"baseline"})
  <1>1. {"baseline"} # {} /\ Range(t.targets) \subseteq {Inside}
    <2>1. Range(t.targets) \subseteq {Inside, Outside}
      BY DEF Operation, Range
    <2> QED
      BY <2>1, ToolRules
  <1>2. uses_run_input(t) \/ t.input # None => {"root", Inside} \subseteq dataset
    BY <1>1 DEF coinjoin_tools
  <1>3. uses_run_input(t) /\ t.input = None => "run" \in dataset
    BY <1>1 DEF coinjoin_tools
  <1>4. t.program \notin {"analyze_tx_size", "update_txids_with_wabisator"} => uses_run_input(t)
    BY DEF uses_run_input
  <1>5. Range(<< >>) = {} /\ Range(<<"root">>) = {"root"} /\ Range(<<"run">>) = {"run"}
    BY DEF Range
  <1>6. RESEARCH_PROGRAMS = {"analyze_tx_size", "generate_llm_inputs", "update_txids_with_wabisator"}
    BY DEF RESEARCH_PROGRAMS, RESEARCH_FIELDS
  <1> HIDE DEF dataset
  <1>7. CASE t.program = "generate_llm_inputs" /\ t.targets = << >>
    BY <1>2, <1>3, <1>4, <1>5, <1>7 DEF command_argv, dataset
  <1>8. CASE t.program = "generate_llm_inputs" /\ t.targets # << >>
    BY <1>1, <1>2, <1>4, <1>6, <1>8 DEF command_argv, dataset
  <1>9. CASE t.program \in RESEARCH_PROGRAMS /\ t.program # "generate_llm_inputs"
    BY <1>5, <1>9, ToolRules DEF command_argv
  <1>10. CASE t.program \notin RESEARCH_PROGRAMS /\ t.targets # << >>
    BY <1>1, <1>2, <1>4, <1>6, <1>10 DEF command_argv, dataset
  <1>11. CASE t.program \notin RESEARCH_PROGRAMS /\ t.targets = << >>
    BY <1>2, <1>3, <1>4, <1>5, <1>6, <1>11 DEF command_argv, dataset
  <1> QED
    BY <1>7, <1>8, <1>9, <1>10, <1>11

\* The size analysis has a transaction to read.
LEMMA SizeHasATransaction ==
  ASSUME NEW c, NEW t, Operation(t), option_errors(c, t) = {}, t.program = "analyze_tx_size"
  PROVE  analyze_size(t, coinjoin_tools(t, {"baseline"}), TRUE) # None
  <1> DEFINE dataset == coinjoin_tools(t, {"baseline"})
  <1>1. {t.txid, t.tx_hex, t.transaction_file} # {None}
    BY ToolRules DEF RESEARCH_PROGRAMS, RESEARCH_FIELDS
  <1>2. None \notin {"given", "file", "block", "online"} /\ {"baseline"} # {}
    BY NoneAssumption DEF DataSources
  <1>3. uses_run_input(t) \/ t.input # None => Inside \in dataset
    BY <1>2 DEF coinjoin_tools
  <1>4. uses_run_input(t) <=> /\ t.tx_hex = None
                              /\ ~(t.data_mode = "mainnet" /\ t.allow_network /\ t.transaction_file = None)
    BY DEF uses_run_input
  <1> HIDE DEF dataset
  <1>5. CASE t.tx_hex # None
    BY <1>2, <1>5 DEF analyze_size, transaction_hex, dataset
  <1>6. CASE t.tx_hex = None /\ t.transaction_file # None
    BY <1>2, <1>3, <1>4, <1>6 DEF analyze_size, transaction_hex, dataset
  <1>7. CASE t.tx_hex = None /\ t.transaction_file = None
    <2>1. t.txid # None
      BY <1>1, <1>7
    <2>2. CASE Inside \in dataset
      <3>1. transaction_hex(t, dataset, TRUE) = "block"
        BY <1>7, <2>1, <2>2 DEF transaction_hex
      <3> QED
        BY <1>2, <3>1 DEF analyze_size, dataset
    <2>3. CASE Inside \notin dataset
      <3>1. t.data_mode = "mainnet" /\ t.allow_network
        BY <1>3, <1>4, <1>7, <2>3
      <3> QED
        BY <1>2, <2>1, <3>1 DEF analyze_size, dataset
    <2> QED
      BY <2>2, <2>3
  <1> QED
    BY <1>5, <1>6, <1>7

\* The coordinators are updated from the image's file or from the dataset's.
LEMMA CoordinatorsHaveAFile ==
  ASSUME NEW c, NEW t, Operation(t), option_errors(c, t) = {}, t.program = "update_txids_with_wabisator"
  PROVE  update_coordinators(t, coinjoin_tools(t, {"baseline"})) # None
  <1>1. t.data_mode = "mainnet" /\ t.allow_network
    BY ToolRules DEF RESEARCH_PROGRAMS, RESEARCH_FIELDS
  <1>2. t.coordinator_file # None => Inside \in coinjoin_tools(t, {"baseline"})
    BY DEF coinjoin_tools, uses_run_input
  <1> QED
    BY <1>1, <1>2, NoneAssumption DEF DataSources, update_coordinators

\* Analyzer operations find the data they read.
LEMMA ToolsHold == InputTyped => ToolsFindData
  BY ArgumentsInDataset, SizeHasATransaction, CoordinatorsHaveAFile
     DEF InputTyped, ToolsFindData, OperationFindsItsData
-----------------------------------------------------------------------------
(***************************************************************************)
(* Hosts.                                                                  *)
(***************************************************************************)
\* What the rules say of the stages an action may have.
LEMMA HostRules ==
  ASSUME NEW c, validate(c)
  PROVE  /\ "analysis" \in c.given => c.action \in {"full-run", "coinjoin-analysis", "pbs-from-s3"}
         /\ "blocksci" \in c.given => c.action \in {"full-run", "analyze", "pbs-from-s3"}
         /\ "mappings" \in c.given => c.action \in {"full-run", "mappings", "pbs-from-s3"}
         /\ c.backend = "s3" /\ c.action \in Fresh => c.driver = "kubernetes"
         /\ c.action = "mappings" => "mappings" \in c.given
         /\ c.coinjoin_analysis # None /\ c.action = "coinjoin-analysis" => "analysis" \notin c.given
  <1> DEFINE permitted == [analysis |-> {"full-run", "coinjoin-analysis", "pbs-from-s3"},
                           blocksci |-> {"full-run", "analyze", "pbs-from-s3"},
                           mappings |-> {"full-run", "mappings", "pbs-from-s3"}]
  <1>1. \A s \in c.given \cap DOMAIN permitted : c.action \in permitted[s]
    <2>1. (\E s \in c.given \cap DOMAIN permitted : c.action \notin permitted[s])
          => "stage_of_another_action" \in _pbs_stage_errors(c)
      BY DEF _pbs_stage_errors, Violated, Conditions
    <2> QED
      BY <2>1, AcceptedByAll
  <1>2. c.backend = "s3" /\ c.action \in Fresh => c.driver = "kubernetes"
    <2>1. (c.backend = "s3" /\ c.action \in {"full-run", "emulate"}) /\ c.driver # "kubernetes" => "s3_driver" \in _s3_errors(c)
      BY DEF _s3_errors, Violated, Conditions
    <2> QED
      BY <2>1, AcceptedByAll DEF Fresh
  <1>3. c.action = "mappings" => "mappings" \in c.given
    <2>1. c.action = "mappings" /\ ~Given(c, "mappings") => "mappings_stage" \in _remaining_errors(c)
      BY DEF _remaining_errors, Violated, Conditions
    <2> QED
      BY <2>1, AcceptedByAll DEF Given
  <1>4. c.coinjoin_analysis # None /\ c.action = "coinjoin-analysis" => "analysis" \notin c.given
    <2>1. c.action = "coinjoin-analysis" /\ "analysis" \in c.given => "tools_local" \in _placement_errors(c)
      BY DEF _placement_errors, Conditions
    <2> QED
      BY <2>1, AcceptedByAll DEF option_errors
  <1> QED
    BY <1>1, <1>2, <1>3, <1>4

\* A host is checked for what resolve_configuration answers, which is a resolved configuration or None (context.py).
THEOREM ResolvesToResolved ==
  ASSUME NEW c, c.action \in Actions, {"given", "backend", "coinjoin_type", "run_id"} \subseteq DOMAIN c, "action" \in DOMAIN c,
         NEW provided, resolve_configuration(c, provided) # None
  PROVE  Resolved(resolve_configuration(c, provided))
  <1> DEFINE implied == {s \in StageSwitches : Configured(c, s) /\ s \notin provided}
             joinmarket == c.engine = "joinmarket" /\ "coinjoin_type" \notin provided
             resolved == [c EXCEPT !.given = c.given \cup implied,
                                   !.backend = IF c.action = "pbs-from-s3" THEN "s3" ELSE c.backend,
                                   !.coinjoin_type = IF joinmarket THEN "joinmarket" ELSE c.coinjoin_type,
                                   !.run_id = IF c.action \in Fresh /\ c.run_id = None THEN "generated" ELSE c.run_id]
  <1>1. resolve_configuration(c, provided) = IF validate(resolved) THEN resolved ELSE None
    BY DEF resolve_configuration
  <1>2. resolved.action = c.action /\ (c.action = "pbs-from-s3" => resolved.backend = "s3")
    OBVIOUS
  <1> HIDE DEF resolved
  <1> QED
    BY <1>1, <1>2 DEF Resolved

\* What a host must have when nothing is delegated, and when something is.
LEMMA Required ==
  ASSUME NEW c
  PROVE  LET required == required_capabilities(c)
             pbs == c.given \cap StageSwitches # {} \/ c.action = "pbs-from-s3"
         IN /\ "kubectl" \in required <=> c.driver = "kubernetes"
            /\ pbs \/ (c.backend = "s3" /\ c.action = "full-run") => Queue \subseteq required
            /\ c.backend = "s3" => "s5cmd" \in required
            /\ c.backend # "s3" /\ (pbs => c.action \in Fresh) => "runtime" \in required
  BY DEF required_capabilities, Queue

\* A use the host check covers.
Covered(use, c) ==
    /\ use.tools \subseteq required_capabilities(c)
    /\ use.images # {} => "runtime" \in use.tools
    /\ use.images \subseteq required_image_components(c)

\* Two requirements are covered as soon as each of them is.
LEMMA BothCovered ==
  ASSUME NEW c, NEW uses, \A u \in uses : Covered(u, c)
  PROVE  Covered(Both(uses), c)
  BY DEF Both, Use, Covered

\* A requirement of two uses is covered as soon as each use is.
LEMMA BothOfTwo ==
  ASSUME NEW c, NEW u, NEW v, Covered(u, c), Covered(v, c)
  PROVE  Covered(Both({u, v}), c)
  BY BothCovered

\* What a submission needs of the host.
LEMMA SubmitsCovered ==
  ASSUME NEW c, c.given \cap StageSwitches # {}
  PROVE  Covered(Submits, c)
  <1>1. Queue \subseteq required_capabilities(c)
    BY Required
  <1> QED
    BY <1>1 DEF Covered, Submits, Use, Queue

\* What a local container needs of the host.
LEMMA DockerCovered ==
  ASSUME NEW c, NEW images, "runtime" \in required_capabilities(c), images \subseteq required_image_components(c)
  PROVE  Covered(Docker(images), c)
  BY DEF Covered, Docker, Use

\* What an emulation needs of the host.
LEMMA EmulationCovered ==
  ASSUME NEW c, "runtime" \in required_capabilities(c), "emulator" \in required_image_components(c)
  PROVE  Covered(EmulationUses(c), c)
  <1>1. Covered(Docker({"emulator"}), c)
    BY DockerCovered
  <1>2. c.driver = "kubernetes" => Covered(Use({"kubectl"}, {}), c)
    BY Required DEF Covered, Use
  <1>3. c.driver = "kubernetes" => Covered(run_kubernetes_emulation, c)
    BY <1>1, <1>2, BothOfTwo DEF run_kubernetes_emulation
  <1> QED
    BY <1>1, <1>3 DEF EmulationUses

\* The images nothing delegates.
LEMMA LocalImages ==
  ASSUME NEW c, c.backend # "s3", c.action # "clean", c.given \cap StageSwitches = {} \/ c.action \in Fresh
  PROVE  /\ c.action \in Fresh => "emulator" \in required_image_components(c)
         /\ c.action = "full-run" /\ ~Given(c, "analysis") => "coinjoin_analysis" \in required_image_components(c)
         /\ c.action = "full-run" /\ ~Given(c, "blocksci") => "blocksci" \in required_image_components(c)
         /\ c.action = "external analyze" => "blocksci" \in required_image_components(c)
         /\ c.action = "analyze" => {"blocksci", "coinjoin_analysis"} \subseteq required_image_components(c)
         /\ c.action = "coinjoin-analysis" => "coinjoin_analysis" \in required_image_components(c)
  <1> DEFINE of == [analysis |-> {"coinjoin_analysis"}, blocksci |-> {"blocksci"}, mappings |-> {"mappings", "sake"}]
             delegated == UNION {of[s] : s \in c.given \cap StageSwitches}
  <1>1. /\ "emulator" \notin delegated
        /\ "analysis" \notin c.given => "coinjoin_analysis" \notin delegated
        /\ "blocksci" \notin c.given => "blocksci" \notin delegated
        /\ c.given \cap StageSwitches = {} => delegated = {}
    <2>1. \A image : image \in delegated <=> \E s \in c.given \cap StageSwitches : image \in of[s]
      OBVIOUS
    <2> HIDE DEF delegated
    <2> QED
      BY <2>1 DEF StageSwitches
  <1> HIDE DEF delegated
  <1> DEFINE selected == CASE c.action = "external analyze" -> {"blocksci"}
                      [] c.action = "emulate" -> {"emulator"}
                      [] c.action = "coinjoin-analysis" -> {"coinjoin_analysis"}
                      [] c.action = "analyze" -> {"blocksci", "coinjoin_analysis"}
                      [] c.action = "export" -> {}
                      [] c.action = "mappings" -> {"mappings", "sake"}
                      [] OTHER -> {"emulator", "coinjoin_analysis", "blocksci"}
  <1>2. required_image_components(c) = selected \ delegated
    BY <1>1 DEF required_image_components, delegated
  <1>3. c.action \in Fresh => c.action \in {"full-run", "emulate"}
    BY DEF Fresh
  <1> QED
    BY <1>1, <1>2, <1>3 DEF Given

\* An appended element joins the range.
LEMMA RangeOfAppend ==
  ASSUME NEW S, NEW s \in Seq(S), NEW x \in S
  PROVE  Range(Append(s, x)) = Range(s) \cup {x}
  BY AppendProperties DEF Range

\* The ranges of the short sequences of images.
LEMMA RangeOfOneOrTwo ==
  ASSUME NEW x, NEW y
  PROVE  Range(<<x>>) = {x} /\ Range(<<x, y>>) = {x, y}
  BY DEF Range

\* Every stage of the local graph is a PBS job or runs in an image of its own.
LEMMA StagesCovered ==
  ASSUME NEW c, c.action = "full-run", c.backend # "s3", NEW s \in Range(LocalPlan(c))
  PROVE  Covered(LocalStage(s), c)
  <1>1. /\ "runtime" \in required_capabilities(c)
        /\ ~Given(c, "analysis") => "coinjoin_analysis" \in required_image_components(c)
        /\ ~Given(c, "blocksci") => "blocksci" \in required_image_components(c)
    BY Required, LocalImages DEF Fresh
  <1>2. /\ s.runner \in {"pbs", "local"}
        /\ s.runner = "pbs" => c.given \cap StageSwitches # {}
        /\ s.runner = "local" => \/ s.kind = "baseline" /\ ~Given(c, "analysis")
                                 \/ s.kind = "work" /\ ~Given(c, "blocksci")
                                 \/ s.kind = "report"
    <2> DEFINE Runner(onPbs) == IF onPbs THEN "pbs" ELSE "local"
               baseline == Stage("coinjoin-analysis", "baseline", Runner(Given(c, "analysis")), {})
               work == Stage("blocksci", "work", Runner(Given(c, "blocksci")), {})
               maps == _mappings_stage(baseline)
               analyzers == <<baseline, work>> \o (IF Given(c, "mappings") THEN <<maps>> ELSE << >>)
               report == _report_stage(Runner(Given(c, "blocksci")), Range(analyzers))
    <2>1. LocalPlan(c) = Append(analyzers, report)
      BY DEF LocalPlan, analysis_plan
    <2>2. s \in {baseline, work, report} \/ (s = maps /\ Given(c, "mappings"))
      <3> DEFINE both == <<baseline, work>>
                 later == IF Given(c, "mappings") THEN <<maps>> ELSE << >>
                 stages == {baseline, work, maps, report}
      <3> HIDE DEF baseline, work, maps, report
      <3>1. both \in Seq(stages) /\ later \in Seq(stages) /\ report \in stages
        <4>1. baseline \in stages /\ work \in stages /\ maps \in stages /\ report \in stages
          OBVIOUS
        <4> HIDE DEF stages
        <4>2. <<baseline, work>> \in Seq(stages) /\ <<maps>> \in Seq(stages) /\ << >> \in Seq(stages)
          BY <4>1
        <4> QED
          BY <4>1, <4>2
      <3>2. /\ Range(both) = {baseline, work} /\ Range(later) \subseteq {maps}
            /\ ~Given(c, "mappings") => Range(later) = {}
        BY RangeOfOneOrTwo DEF Range
      <3>3. analyzers = both \o later
        OBVIOUS
      <3> HIDE DEF both, later, stages, analyzers
      <3>4. analyzers \in Seq(stages) /\ Range(analyzers) = {baseline, work} \cup Range(later)
        BY <3>1, <3>2, <3>3, ConcatProperties, RangeConcatenation
      <3>5. Range(LocalPlan(c)) = {baseline, work} \cup Range(later) \cup {report}
        BY <2>1, <3>1, <3>4, RangeOfAppend
      <3> QED
        BY <3>2, <3>5
    <2>3. /\ baseline.kind = "baseline" /\ baseline.runner = Runner(Given(c, "analysis"))
          /\ work.kind = "work" /\ work.runner = Runner(Given(c, "blocksci"))
          /\ maps.runner = "pbs"
          /\ report.kind = "report" /\ report.runner = Runner(Given(c, "blocksci"))
      BY DEF Stage, _mappings_stage, _report_stage
    <2> HIDE DEF baseline, work, maps, report
    <2>4. /\ Given(c, "analysis") => c.given \cap StageSwitches # {}
          /\ Given(c, "blocksci") => c.given \cap StageSwitches # {}
          /\ Given(c, "mappings") => c.given \cap StageSwitches # {}
      BY DEF Given, StageSwitches
    <2> QED
      BY <2>2, <2>3, <2>4
  <1>3. CASE s.runner = "pbs"
    BY <1>2, <1>3, SubmitsCovered DEF LocalStage
  <1>4. CASE s.runner = "local"
    <2> DEFINE images == CASE s.kind = "baseline" -> {"coinjoin_analysis"}
                           [] s.kind = "work" -> {"blocksci"}
                           [] s.kind = "report" -> {}
    <2>1. images \subseteq required_image_components(c)
      BY <1>1, <1>2, <1>4
    <2>2. LocalStage(s) = Docker(images)
      BY <1>4 DEF LocalStage
    <2> HIDE DEF images
    <2> QED
      BY <1>1, <2>1, <2>2, DockerCovered
  <1> QED
    BY <1>2, <1>3, <1>4

\* Every action uses what is required of the host.
LEMMA UsesCovered ==
  ASSUME NEW c, Resolved(c), LocalOrS3(c)
  PROVE  Covered(run_configuration(c), c)
  <1> DEFINE emulates == Use({"kubectl", "s5cmd"}, {})
             pbs == Use(Queue \cup {"s5cmd"}, {})
             delegates == c.given \cap StageSwitches # {}
  <1>1. /\ c.backend = "s3" => c.action \in {"full-run", "emulate", "pbs-from-s3"}
        /\ c.action = "pbs-from-s3" => c.backend = "s3"
        /\ c.action \in Actions /\ Fresh = {"full-run", "emulate"}
    BY DEF Resolved, LocalOrS3, Fresh
  <1>2. validate(c)
    BY DEF Resolved
  <1>3. /\ c.action \in {"clean", "external analyze", "export", "emulate"} => ~delegates
        /\ c.action = "analyze" => (delegates <=> Given(c, "blocksci"))
        /\ c.action = "coinjoin-analysis" => (delegates <=> Given(c, "analysis"))
        /\ c.action = "mappings" => delegates
    BY <1>2, HostRules DEF StageSwitches, Given
  <1>4. c.backend # "s3" /\ (delegates => c.action \in Fresh) => "runtime" \in required_capabilities(c)
    BY <1>1, Required
  <1>5. CASE Given(c, "dry_run")
    BY <1>5 DEF run_configuration, _print_dry_run, Covered, Use
  <1>6. CASE ~Given(c, "dry_run") /\ c.backend = "s3"
    <2>1. c.action \in {"full-run", "emulate"} => Covered(emulates, c)
      BY <1>1, <1>2, <1>6, HostRules, Required DEF Covered, Use
    <2>2. c.action \in {"full-run", "pbs-from-s3"} => Covered(pbs, c)
      BY <1>6, Required DEF Covered, Use
    <2>3. c.action = "full-run" => Covered(Both({emulates, pbs}), c)
      BY <2>1, <2>2, BothOfTwo
    <2> HIDE DEF emulates, pbs
    <2>4. run_configuration(c) = CASE c.action = "pbs-from-s3" -> pbs
                                   [] c.action = "emulate" -> emulates
                                   [] c.action = "full-run" ->
                                        IF Submitted(c) = {} THEN emulates ELSE Both({emulates, pbs})
      BY <1>1, <1>6 DEF run_configuration, _print_dry_run, emulates, pbs
    <2> QED
      BY <1>1, <1>6, <2>1, <2>2, <2>3, <2>4
  <1>7. CASE ~Given(c, "dry_run") /\ c.backend # "s3" /\ c.action = "external analyze"
    <2>1. run_configuration(c) = Docker({"blocksci"})
      BY <1>7 DEF run_configuration, _print_dry_run
    <2> QED
      BY <1>3, <1>4, <1>7, <2>1, LocalImages, DockerCovered
  <1>8. CASE ~Given(c, "dry_run") /\ c.backend # "s3" /\ c.action # "external analyze"
    <2>1. run_configuration(c) = LocalUses(c)
      BY <1>1, <1>8 DEF run_configuration, _print_dry_run
    <2>2. ~delegates \/ c.action \in Fresh => Covered(Docker({}), c)
      BY <1>4, <1>8, DockerCovered
    <2>3. c.action \in Fresh => Covered(EmulationUses(c), c)
      BY <1>1, <1>4, <1>8, LocalImages, EmulationCovered
    <2>4. CASE c.action = "full-run"
      <3> DEFINE uses == {Docker({}), EmulationUses(c)} \cup {LocalStage(s) : s \in Range(LocalPlan(c))}
      <3>1. \A u \in uses : Covered(u, c)
        BY <1>1, <1>8, <2>2, <2>3, <2>4, StagesCovered
      <3>2. LocalUses(c) = Both(uses)
        BY <2>4 DEF LocalUses
      <3> QED
        BY <2>1, <3>1, <3>2, BothCovered
    <2>5. CASE c.action = "emulate"
      BY <1>1, <2>1, <2>3, <2>5 DEF LocalUses
    <2>6. CASE c.action \in {"clean", "export"}
      BY <1>3, <2>1, <2>2, <2>6 DEF LocalUses
    <2>7. CASE c.action = "mappings"
      BY <1>3, <2>1, <2>7, SubmitsCovered DEF LocalUses
    <2>8. CASE c.action = "analyze"
      <3>1. LocalUses(c) = IF Given(c, "blocksci") THEN Submits ELSE Docker({"blocksci", "coinjoin_analysis"})
        BY <2>8 DEF LocalUses
      <3>2. ~delegates => Covered(Docker({"blocksci", "coinjoin_analysis"}), c)
        BY <1>4, <1>8, <2>8, LocalImages, DockerCovered
      <3> QED
        BY <1>3, <2>1, <2>8, <3>1, <3>2, SubmitsCovered
    <2>9. CASE c.action = "coinjoin-analysis"
      <3>1. LocalUses(c) = IF c.coinjoin_analysis = None /\ Given(c, "analysis") THEN Submits
                           ELSE Docker({"coinjoin_analysis"})
        BY <2>9 DEF LocalUses
      <3>2. ~delegates => Covered(Docker({"coinjoin_analysis"}), c)
        BY <1>4, <1>8, <2>9, LocalImages, DockerCovered
      <3>3. Given(c, "analysis") => c.coinjoin_analysis = None
        BY <1>2, <2>9, HostRules DEF Given
      <3> QED
        BY <1>3, <2>1, <2>9, <3>1, <3>2, <3>3, SubmitsCovered
    <2> QED
      BY <1>1, <1>8, <2>4, <2>5, <2>6, <2>7, <2>8, <2>9 DEF Actions
  <1> QED
    BY <1>5, <1>6, <1>7, <1>8

\* What an accepted invocation found on its host.
LEMMA HostChecked ==
  ASSUME NEW host, NEW c, preflight_errors(host, c) = {}
  PROVE  /\ required_capabilities(c) \subseteq host.tools
         /\ "runtime" \in required_capabilities(c) =>
                host.daemon /\ required_image_components(c) \subseteq host.local \cup host.registry
         /\ c.driver = "kubernetes" => host.kubeconfig
         /\ Given(c, "blocksci") /\ c.pbs_bitcoin_datadir # None
            /\ ~(c.driver = "kubernetes" /\ c.action \in Fresh /\ ~Given(c, "copy_to_host"))
            => c.pbs_bitcoin_datadir \in host.blocks
  <1>1. check(host, c) = {} /\ validate_arguments(host, c) = {}
    BY DEF preflight_errors
  <1>2. required_capabilities(c) \subseteq host.tools
    BY <1>1 DEF check
  <1>3. ASSUME "runtime" \in required_capabilities(c)
        PROVE  host.daemon /\ required_image_components(c) \subseteq host.local \cup host.registry
    <2>1. host.daemon /\ _image_errors(host, required_image_components(c)) = {}
      BY <1>1, <1>2, <1>3 DEF check
    <2> QED
      BY <2>1 DEF _image_errors
  <1>4. c.driver = "kubernetes" => host.kubeconfig
    BY <1>1 DEF validate_arguments
  <1>5. Given(c, "blocksci") /\ c.pbs_bitcoin_datadir # None
        /\ ~(c.driver = "kubernetes" /\ c.action \in Fresh /\ ~Given(c, "copy_to_host"))
        => c.pbs_bitcoin_datadir \in host.blocks
    BY <1>1 DEF validate_arguments
  <1> QED
    BY <1>2, <1>3, <1>4, <1>5

\* A dispatched action finds the host it was checked for.
LEMMA HostHolds == InputTyped => HostReady
  <1> SUFFICES ASSUME NEW c, NEW host, Resolved(c), Accepted(host, c), LocalOrS3(c)
               PROVE  LET used == run_configuration(c)
                      IN /\ used.tools \subseteq host.tools
                         /\ "runtime" \in used.tools => host.daemon
                         /\ "kubectl" \in used.tools => host.kubeconfig
                         /\ used.images \subseteq host.local \cup host.registry
    BY DEF InputTyped, HostReady, HostHasWhatRuns
  <1>1. CASE Given(c, "dry_run")
    BY <1>1 DEF run_configuration, _print_dry_run, Use
  <1>2. CASE ~Given(c, "dry_run")
    <2>1. preflight_errors(host, c) = {}
      BY <1>2 DEF Accepted
    <2> QED
      BY <2>1, UsesCovered, HostChecked, Required DEF Covered
  <1> QED
    BY <1>1, <1>2

\* One datadir at most where an emulation fills the datadir of the BlockSci job.
LEMMA OneDatadir ==
  ASSUME NEW c, validate(c), c.driver = "kubernetes", Given(c, "blocksci"), ~Given(c, "copy_to_host"),
         c.btc_datadir # None, c.pbs_bitcoin_datadir # None
  PROVE  c.btc_datadir = c.pbs_bitcoin_datadir
  <1> DEFINE datadirs == {c.btc_datadir, c.pbs_bitcoin_datadir}
  <1>1. Cardinality(datadirs) # 2
    <2>1. SUFFICES ASSUME Cardinality(datadirs) = 2 PROVE FALSE
      OBVIOUS
    <2>2. None \notin datadirs
      OBVIOUS
    <2> HIDE DEF datadirs
    <2>3. "two_datadirs" \in _general_errors(c)
      BY <2>1, <2>2 DEF _general_errors, Violated, Conditions, datadirs
    <2> QED
      BY <2>3, AcceptedByAll
  <1>2. c.btc_datadir # c.pbs_bitcoin_datadir => Cardinality(datadirs) = 2
    <2> SUFFICES ASSUME c.btc_datadir # c.pbs_bitcoin_datadir PROVE Cardinality(datadirs) = 2
      OBVIOUS
    <2>1. IsFiniteSet({c.btc_datadir}) /\ Cardinality({c.btc_datadir}) = 1
      BY FS_Singleton
    <2>2. Cardinality({c.btc_datadir} \cup {c.pbs_bitcoin_datadir}) = 1 + 1
      BY <2>1, FS_AddElement
    <2>3. {c.btc_datadir} \cup {c.pbs_bitcoin_datadir} = datadirs
      OBVIOUS
    <2> QED
      BY <2>2, <2>3
  <1> QED
    BY <1>1, <1>2

\* A parse reads the chain the host has, unless the copy of an emulated one failed.
LEMMA ChainHolds == InputTyped => ChainFound
  <1> SUFFICES ASSUME NEW c, NEW host, Resolved(c), Accepted(host, c), ~Given(c, "dry_run"), c.backend # "s3",
                      c.action \in {"full-run", "analyze"}
               PROVE  IF Given(c, "blocksci")
                      THEN \/ c.pbs_bitcoin_datadir = None
                           \/ c.pbs_bitcoin_datadir \in host.blocks
                           \/ c.action = "full-run" /\ c.pbs_bitcoin_datadir \in EmulatedChain(host, c)
                      ELSE c.action = "full-run" => "volume" \in EmulatedChain(host, c) \/ CopyFailed(host, c)
    BY DEF InputTyped, ChainFound, BlockSciFindsAChain
  <1>1. preflight_errors(host, c) = {} /\ validate(c)
    BY DEF Accepted, Resolved
  <1>2. CASE Given(c, "blocksci") /\ c.pbs_bitcoin_datadir # None /\ c.pbs_bitcoin_datadir \notin host.blocks
    <2>1. c.driver = "kubernetes" /\ c.action = "full-run" /\ ~Given(c, "copy_to_host")
      BY <1>1, <1>2, HostChecked DEF Fresh
    <2>2. c.btc_datadir # None => c.btc_datadir = c.pbs_bitcoin_datadir
      BY <1>1, <1>2, <2>1, OneDatadir
    <2> QED
      BY <1>2, <2>1, <2>2 DEF EmulatedChain, Target
  <1>3. CASE ~Given(c, "blocksci")
    BY <1>3 DEF EmulatedChain, CopyFailed
  <1> QED
    BY <1>2, <1>3
-----------------------------------------------------------------------------
(***************************************************************************)
(* Synchronizations.                                                       *)
(***************************************************************************)
\* A prefix by its components.
LEMMA PrefixByComponents ==
  ASSUME NEW T, NEW s \in Seq(T), NEW t \in Seq(T)
  PROVE  IsPrefix(s, t) <=> Len(s) <= Len(t) /\ \A i \in 1 .. Len(s) : s[i] = t[i]
  <1>1. ASSUME Len(s) <= Len(t)
        PROVE  SubSeq(s, 1, Len(s)) = SubSeq(t, 1, Len(s)) <=> \A i \in 1 .. Len(s) : s[i] = t[i]
    <2> DEFINE S == SubSeq(s, 1, Len(s))
               U == SubSeq(t, 1, Len(s))
    <2>1. S \in Seq(T) /\ Len(S) = Len(s) /\ \A i \in 1 .. Len(s) : S[i] = s[i]
      OBVIOUS
    <2>2. U \in Seq(T) /\ Len(U) = Len(s) /\ \A i \in 1 .. Len(s) : U[i] = t[i]
      BY <1>1
    <2> HIDE DEF S, U
    <2>3. S = U <=> \A i \in 1 .. Len(s) : S[i] = U[i]
      BY <2>1, <2>2, SeqEqual
    <2> QED
      BY <2>1, <2>2, <2>3 DEF S, U
  <1> QED
    BY <1>1 DEF IsPrefix

\* The state prefix of a restore check lies apart from what is apart from the one beside it.
LEMMA BesideApart ==
  ASSUME NEW T, NEW state \in Seq(T), state # << >>, NEW name \in T, NEW id \in T, NEW other \in Seq(T),
         ~IsPrefix(Append(Front(state), name), other), other = state \/ ~IsPrefix(other, state)
  PROVE  ~Overlap(Append(Append(Front(state), name), id), other)
  <1> DEFINE n == Len(state)
             front == Front(state)
             beside == Append(front, name)
             checked == Append(beside, id)
  <1>1. n \in Nat /\ n >= 1
    BY EmptySeq
  <1>2. front \in Seq(T) /\ Len(front) = n - 1 /\ \A i \in 1 .. n - 1 : front[i] = state[i]
    <2>1. \A i \in 1 .. n - 1 : state[i] \in T
      BY <1>1
    <2>2. front = SubSeq(state, 1, n - 1)
      BY DEF Front
    <2> HIDE DEF front, n
    <2> QED
      BY <1>1, <2>1, <2>2, SubSeqProperties
  <1> HIDE DEF front, n
  <1>3. beside \in Seq(T) /\ Len(beside) = n /\ \A i \in 1 .. n - 1 : beside[i] = state[i]
    BY <1>1, <1>2, AppendProperties
  <1> HIDE DEF beside
  <1>4. checked \in Seq(T) /\ Len(checked) = n + 1 /\ \A i \in 1 .. n : checked[i] = beside[i]
    BY <1>1, <1>3, AppendProperties
  <1> HIDE DEF checked
  <1>5. ~(Len(other) >= n /\ \A i \in 1 .. n : beside[i] = other[i])
    BY <1>3, PrefixByComponents DEF beside, front
  <1>6. ~IsPrefix(checked, other)
    BY SMTT(60), <1>1, <1>4, <1>5, PrefixByComponents
  <1>7. ~IsPrefix(other, checked)
    <2>1. SUFFICES ASSUME IsPrefix(other, checked) PROVE FALSE
      OBVIOUS
    <2>2. Len(other) <= n + 1 /\ \A i \in 1 .. Len(other) : other[i] = checked[i]
      BY <1>4, <2>1, PrefixByComponents
    <2>3. Len(other) < n
      BY <1>1, <1>4, <1>5, <2>2
    <2>4. \A i \in 1 .. Len(other) : other[i] = state[i]
      BY <1>1, <1>3, <1>4, <2>2, <2>3
    <2>5. IsPrefix(other, state)
      BY <2>3, <2>4, PrefixByComponents DEF n
    <2> QED
      BY <2>3, <2>5 DEF n
  <1> QED
    BY <1>6, <1>7 DEF Overlap, checked, beside, front

\* An accepted synchronization: every prefix is given and lies apart, the directories are of a
\* location or of storage.
LEMMA SyncRules ==
  ASSUME NEW s, Synchronization(s), configuration_errors(s) = {}, IsInjective(s.node)
  PROVE  /\ s.prefix \in [Locators -> Place]
         /\ {s.root, s.index_dir} \subseteq Directory
         /\ \A p, q \in Locators : p # q => ~IsPrefix(s.prefix[p], s.prefix[q])
  <1>1. _location_errors(s) = {} /\ _working_directory_errors(s) = {}
    BY DEF configuration_errors
  <1>2. None \notin {s.prefix[p] : p \in Locators}
    <2>1. None \in {s.prefix[p] : p \in Locators} \cup {s.run_id} \/ ~s.access => "missing" \in _location_errors(s)
      BY DEF _location_errors, Violated, Conditions
    <2> QED
      BY <1>1, <2>1
  <1>3. s.prefix \in [Locators -> Place]
    BY <1>2 DEF Synchronization
  <1>4. \A a, b \in Locators : s.node[a] # s.node[b] => ~IsPrefix(s.prefix[a], s.prefix[b])
    <2> DEFINE present == {p \in Locators : s.prefix[p] # None}
    <2>1. (\E a, b \in present : s.node[a] # s.node[b] /\ IsPrefix(s.prefix[a], s.prefix[b])) => "nested" \in _location_errors(s)
      BY DEF _location_errors, Violated, Conditions
    <2>2. present = Locators
      BY <1>2
    <2> QED
      BY <1>1, <2>1, <2>2
  <1>5. None \notin {s.root, s.index_dir}
    BY <1>1 DEF _working_directory_errors
  <1> QED
    BY <1>3, <1>4, <1>5 DEF Synchronization, IsInjective

\* A directory of a location or of storage lies apart from one below "work".
LEMMA WorkApart ==
  ASSUME NEW T, NEW mine \in Seq(T), NEW theirs \in Directory, mine # << >>, mine[1] = "work"
  PROVE  ~Overlap(mine, theirs)
  <1>1. theirs \in Seq(STRING) /\ theirs # << >> /\ theirs[1] # "work"
    BY DEF Directory, Place, Locations
  <1> DEFINE U == T \cup STRING
  <1>2. mine \in Seq(U) /\ theirs \in Seq(U)
    BY <1>1
  <1>3. Len(mine) \in Nat \ {0} /\ Len(theirs) \in Nat \ {0}
    BY <1>1, EmptySeq
  <1> HIDE DEF U
  <1> QED
    BY <1>1, <1>2, <1>3, PrefixByComponents DEF Overlap

\* A restore check clears only its own directories.
LEMMA SyncHolds == InputTyped => ClearsItsOwn
  <1> SUFFICES ASSUME NEW s, Synchronization(s), configuration_errors(s) = {}, Usual(s)
               PROVE  LET checked == render_restore_check(s)
                      IN /\ \A p, q \in Locators : p # q => ~Overlap(s.prefix[p], s.prefix[q])
                         /\ \A p \in Locators : ~Overlap(checked.state, s.prefix[p])
                         /\ \A mine \in {checked.root, checked.index_dir}, theirs \in {s.root, s.index_dir} : ~Overlap(mine, theirs)
    BY DEF InputTyped, ClearsItsOwn, RestoreClearsItsOwn
  <1> DEFINE state == s.prefix["state"]
             name == Last(state) \o "-restore-check"
             checked == render_restore_check(s)
  <1>1. /\ s.prefix \in [Locators -> Place] /\ {s.root, s.index_dir} \subseteq Directory
        /\ \A p, q \in Locators : p # q => ~IsPrefix(s.prefix[p], s.prefix[q])
    BY SyncRules DEF Usual
  <1>2. \A p \in Locators : ~IsPrefix(Append(Front(state), name), s.prefix[p])
    BY DEF Usual
  <1>3. /\ checked.state = Append(Append(Front(state), name), s.run_id)
        /\ checked.root = <<"work", "dataset", "core">> /\ checked.index_dir = <<"work", "dataset", "index">>
    BY DEF render_restore_check, sync_settings
  <1> HIDE DEF state, name, checked
  <1>4. \A p, q \in Locators : p # q => ~Overlap(s.prefix[p], s.prefix[q])
    BY <1>1 DEF Overlap
  <1>5. ASSUME NEW p \in Locators PROVE ~Overlap(checked.state, s.prefix[p])
    <2> DEFINE T == STRING \cup {name, s.run_id}
    <2>1. state \in Seq(T) /\ state # << >> /\ s.prefix[p] \in Seq(T)
      BY <1>1 DEF Place, Locators, state
    <2>2. s.prefix[p] = state \/ ~IsPrefix(s.prefix[p], state)
      BY <1>1 DEF Locators, state
    <2> HIDE DEF T
    <2>3. name \in T /\ s.run_id \in T
      BY DEF T
    <2> QED
      BY <1>2, <1>3, <2>1, <2>2, <2>3, BesideApart
  <1>6. ASSUME NEW mine \in {checked.root, checked.index_dir}, NEW theirs \in {s.root, s.index_dir}
        PROVE  ~Overlap(mine, theirs)
    <2> DEFINE parts == {"work", "dataset", "core", "index"}
    <2>1. /\ <<"work", "dataset", "core">> \in Seq(parts) /\ <<"work", "dataset", "core">>[1] = "work"
          /\ <<"work", "dataset", "index">> \in Seq(parts) /\ <<"work", "dataset", "index">>[1] = "work"
      OBVIOUS
    <2>2. <<"work", "dataset", "core">> # << >> /\ <<"work", "dataset", "index">> # << >>
      OBVIOUS
    <2>3. mine = <<"work", "dataset", "core">> \/ mine = <<"work", "dataset", "index">>
      BY <1>3, <1>6
    <2>4. theirs \in Directory
      BY <1>1, <1>6
    <2> HIDE DEF parts
    <2>5. CASE mine = <<"work", "dataset", "core">>
      BY <2>1, <2>2, <2>4, <2>5, WorkApart
    <2>6. CASE mine = <<"work", "dataset", "index">>
      BY <2>1, <2>2, <2>4, <2>6, WorkApart
    <2> QED
      BY <2>3, <2>5, <2>6
  <1> QED
    BY <1>4, <1>5, <1>6 DEF checked
-----------------------------------------------------------------------------
\* Every input of its type that the rules, the preflight and the operation checks let through finds
\* what it runs on: a scanned window inside the pinned index, the data of an analyzer operation, the
\* commands, runtime and images of the host, a chain for BlockSci; and a restore clears nothing of
\* another prefix or of the working dataset (option_rules.py, doctor.py, coinjoin_tools.py,
\* mainnet_sync.py).
THEOREM OptionsHold == InputTyped => OptionsAreSound
  BY WindowHolds, ToolsHold, HostHolds, ChainHolds, SyncHolds DEF OptionsAreSound
-----------------------------------------------------------------------------
(***************************************************************************)
(* The order of a graph.                                                   *)
(***************************************************************************)
\* A graph is a sequence of stages with a name each of its own.
Distinct(stages) == \A i, j \in DOMAIN stages : stages[i].name = stages[j].name => i = j

\* Stages have a name each exactly when they have as many names as they are.
LEMMA DistinctNames ==
  ASSUME NEW T, NEW stages \in Seq(T)
  PROVE  /\ IsFiniteSet(Names(stages)) /\ Cardinality(Names(stages)) \in Nat /\ Len(stages) \in Nat
         /\ Names(stages) = {stages[i].name : i \in DOMAIN stages}
         /\ Distinct(stages) <=> Cardinality(Names(stages)) = Len(stages)
  <1> DEFINE size == Len(stages)
             f == [i \in 1..size |-> stages[i].name]
             names == Names(stages)
  <1>0. size \in Nat /\ DOMAIN stages = 1..size
    BY LenProperties
  <1>1. size \in Nat /\ DOMAIN stages = 1..size /\ IsFiniteSet(1..size) /\ Cardinality(1..size) = size
    <2> HIDE DEF size
    <2>1. 1 \in Int /\ size \in Int
      BY <1>0
    <2>2. IsFiniteSet(1..size) /\ Cardinality(1..size) = IF 1 > size THEN 0 ELSE size - 1 + 1
      BY <2>1, FS_Interval
    <2> QED
      BY <1>0, <2>2
  <1>2. names = {stages[i].name : i \in DOMAIN stages}
    BY DEF Names, Range
  <1>3. f \in Surjection(1..size, names)
    BY <1>1, <1>2 DEF Surjection
  <1>4. IsFiniteSet(names) /\ (Cardinality(names) = size <=> f \in Injection(1..size, names))
    BY <1>1, <1>3, FS_Surjection
  <1>5. Distinct(stages) <=> f \in Injection(1..size, names)
    <2>1. f \in [1..size -> names]
      BY <1>1, <1>2
    <2>2. IsInjective(f) <=> Distinct(stages)
      BY <1>1 DEF Distinct, IsInjective
    <2> QED
      BY <2>1, <2>2 DEF Injection
  <1>6. Cardinality(names) \in Nat
    BY <1>4, FS_CardinalityType
  <1> QED
    BY <1>1, <1>2, <1>4, <1>5, <1>6

\* A round of the order places the first ready stage, or none is ready.
LEMMA PlacesOne ==
  ASSUME NEW T, NEW stages \in Seq(T), NEW placed \in Seq(T)
  PROVE  /\ PlaceOne(stages, placed) \in Seq(T)
         /\ Ready(stages, placed) = {} => PlaceOne(stages, placed) = placed
         /\ Ready(stages, placed) # {} =>
              \E i \in Ready(stages, placed) :
                  PlaceOne(stages, placed) = Append(placed, stages[i]) /\ \A j \in Ready(stages, placed) : i <= j
  <1> DEFINE ready == Ready(stages, placed)
  <1>1. CASE ready = {}
    BY <1>1 DEF PlaceOne
  <1>2. CASE ready # {}
    <2>1. DOMAIN stages = 1..Len(stages) /\ Len(stages) \in Nat
      BY LenProperties
    <2>2. ready \in SUBSET Nat
      BY <2>1 DEF Ready
    <2>3. Min(ready) \in ready /\ \A j \in ready : Min(ready) <= j
      BY <1>2, <2>2, Least
    <2>4. PlaceOne(stages, placed) = Append(placed, stages[Min(ready)])
      BY <1>2 DEF PlaceOne
    <2>5. stages[Min(ready)] \in T
      BY <2>1, <2>3, ElementOfSeq DEF Ready
    <2>6. Append(placed, stages[Min(ready)]) \in Seq(T)
      BY <2>5, AppendProperties
    <2> QED
      BY <1>2, <2>3, <2>4, <2>6
  <1> QED
    BY <1>1, <1>2

\* The rounds of the order, one for each stage at most.
LEMMA Rounds ==
  ASSUME NEW T, NEW stages \in Seq(T)
  PROVE  \E placed \in [0..Len(stages) -> Seq(T)] :
             /\ placed[0] = << >> /\ \A n \in 1..Len(stages) : placed[n] = PlaceOne(stages, placed[n - 1])
             /\ Placed(stages) = placed[Len(stages)]
  <1> DEFINE size == Len(stages)
             Goes(f) == f = [n \in 0..size |-> IF n = 0 THEN << >> ELSE PlaceOne(stages, f[n - 1])]
             placed == CHOOSE f : Goes(f)
             step == [x \in (1..size) \X Seq(T) |-> PlaceOne(stages, x[2])]
  <1>1. size \in Nat /\ << >> \in Seq(T)
    BY LenProperties, EmptySeq
  <1>2. step \in [(1..size) \X Seq(T) -> Seq(T)]
    BY PlacesOne
  <1>3. PICK f \in [0..size -> Seq(T)] : f[0] = << >> /\ \A n \in 1..size : f[n] = step[<<n, f[n - 1]>>]
    <2>1. \E f : Recurs(f, size, Seq(T), << >>, step)
      <3> HIDE DEF step, size
      <3> QED
        BY <1>1, <1>2, Recursion
    <2> HIDE DEF step, size
    <2> QED
      BY <2>1 DEF Recurs
  <1>4. \A n \in 1..size : f[n] = PlaceOne(stages, f[n - 1])
    <2> SUFFICES ASSUME NEW n \in 1..size
                 PROVE  f[n] = PlaceOne(stages, f[n - 1])
      OBVIOUS
    <2>1. n - 1 \in 0..size /\ f[n - 1] \in Seq(T)
      BY <1>1
    <2>2. step[<<n, f[n - 1]>>] = PlaceOne(stages, f[n - 1])
      BY <2>1
    <2> QED
      BY <1>3, <2>2
  <1>5. Goes(f)
    <2>1. \A n \in 0..size : f[n] = IF n = 0 THEN << >> ELSE PlaceOne(stages, f[n - 1])
      BY <1>1, <1>3, <1>4
    <2> QED
      BY <2>1
  <1>6. Goes(placed)
    <2> HIDE DEF Goes
    <2> QED
      BY <1>5
  <1>7. Placed(stages) = placed[size]
    BY DEF Placed
  <1> HIDE DEF placed, step
  <1>8. DOMAIN placed = 0..size /\ \A n \in 0..size : placed[n] = IF n = 0 THEN << >> ELSE PlaceOne(stages, placed[n - 1])
    BY <1>6
  <1> HIDE DEF Goes
  <1>9. placed[0] = << >> /\ \A n \in 1..size : placed[n] = PlaceOne(stages, placed[n - 1])
    BY <1>1, <1>8
  <1> DEFINE S == {n \in 0..size : placed[n] \in Seq(T)}
  <1>10. 0 \in S
    BY <1>1, <1>9
  <1>11. ASSUME NEW n \in 0..(size - 1), n \in S
         PROVE  n + 1 \in S
    <2>1. n + 1 \in 1..size /\ (n + 1) - 1 = n
      BY <1>1
    <2>2. placed[n + 1] = PlaceOne(stages, placed[n])
      BY <1>9, <2>1
    <2>3. placed[n] \in Seq(T)
      BY <1>11
    <2>4. PlaceOne(stages, placed[n]) \in Seq(T)
      BY <2>3, PlacesOne
    <2> QED
      BY <2>1, <2>2, <2>4
  <1> HIDE DEF S
  <1>12. \A n \in 0..size : n \in S
    BY <1>1, <1>10, <1>11, UpTo
  <1>13. placed = [n \in 0..size |-> placed[n]]
    BY <1>6, <1>8 DEF Goes
  <1>14. placed \in [0..size -> Seq(T)]
    BY <1>12, <1>13 DEF S
  <1> QED
    BY <1>7, <1>9, <1>14

\* What the loop has placed: stages of the graph, each once, none before one it depends on.
Good(stages, placed) == placed \in Seq(Range(stages)) /\ Distinct(placed) /\ Topological(placed)

\* What an appended stage leaves alone.
LEMMA AppendNames ==
  ASSUME NEW T, NEW placed \in Seq(T), NEW s \in T
  PROVE  /\ Append(placed, s) \in Seq(T) /\ Len(Append(placed, s)) = Len(placed) + 1
         /\ DOMAIN placed = 1..Len(placed) /\ DOMAIN Append(placed, s) = 1..(Len(placed) + 1) /\ Len(placed) \in Nat
         /\ Append(placed, s)[Len(placed) + 1] = s
         /\ \A i \in 1..Len(placed) : Append(placed, s)[i] = placed[i]
         /\ Names(placed) = {placed[i].name : i \in 1..Len(placed)}
  <1>1. Append(placed, s) \in Seq(T) /\ Len(Append(placed, s)) = Len(placed) + 1
    BY AppendProperties
  <1>2. DOMAIN placed = 1..Len(placed) /\ Len(placed) \in Nat
    BY LenProperties
  <1>3. DOMAIN Append(placed, s) = 1..(Len(placed) + 1)
    BY <1>1, LenProperties
  <1>4. Append(placed, s)[Len(placed) + 1] = s /\ \A i \in 1..Len(placed) : Append(placed, s)[i] = placed[i]
    BY AppendProperties
  <1>5. Names(placed) = {placed[i].name : i \in 1..Len(placed)}
    BY <1>2 DEF Names, Range
  <1> QED
    BY <1>1, <1>2, <1>3, <1>4, <1>5

\* A round keeps the placed stages distinct and behind what they depend on.
LEMMA PlacesGood ==
  ASSUME NEW T, NEW stages \in Seq(T), NEW placed, Good(stages, placed)
  PROVE  /\ Good(stages, PlaceOne(stages, placed))
         /\ Ready(stages, placed) = {} => PlaceOne(stages, placed) = placed
         /\ Ready(stages, placed) # {} => Len(PlaceOne(stages, placed)) = Len(placed) + 1
  <1> DEFINE R == Range(stages)
             next == PlaceOne(stages, placed)
             size == Len(placed)
  <1>1. stages \in Seq(R) /\ placed \in Seq(R)
    BY SeqOfRange DEF Good
  <1>2. CASE Ready(stages, placed) = {}
    BY <1>1, <1>2, PlacesOne
  <1>3. CASE Ready(stages, placed) # {}
    <2>1. PICK i \in Ready(stages, placed) : next = Append(placed, stages[i])
      <3> HIDE DEF R
      <3> QED
        BY <1>1, <1>3, PlacesOne
    <2> DEFINE s == stages[i]
    <2>2. s \in R /\ s.name \notin Names(placed) /\ s.after \subseteq Names(placed)
      BY DEF Ready, Range
    <2>3. /\ next \in Seq(R) /\ Len(next) = size + 1
          /\ DOMAIN placed = 1..size /\ DOMAIN next = 1..(size + 1) /\ size \in Nat
          /\ next[size + 1] = s
          /\ \A k \in 1..size : next[k] = placed[k]
          /\ Names(placed) = {placed[k].name : k \in 1..size}
      <3> HIDE DEF R, next, s
      <3>1. /\ Append(placed, s) \in Seq(R) /\ Len(Append(placed, s)) = size + 1
            /\ DOMAIN placed = 1..size /\ DOMAIN Append(placed, s) = 1..(size + 1) /\ size \in Nat
            /\ Append(placed, s)[size + 1] = s
            /\ \A k \in 1..size : Append(placed, s)[k] = placed[k]
            /\ Names(placed) = {placed[k].name : k \in 1..size}
        BY <1>1, <2>2, AppendNames
      <3>2. next = Append(placed, s)
        BY <2>1 DEF s
      <3> QED
        BY <3>1, <3>2
    <2> HIDE DEF R, next, s, size
    <2>4. Distinct(next)
      <3>1. \A k \in 1..size : placed[k].name # s.name
        BY <2>2, <2>3
      <3>2. \A j, k \in 1..size : placed[j].name = placed[k].name => j = k
        BY <2>3 DEF Good, Distinct
      <3> SUFFICES ASSUME NEW j \in 1..(size + 1), NEW k \in 1..(size + 1), next[j].name = next[k].name
                   PROVE  j = k
        BY <2>3 DEF Distinct
      <3>3. (j \in 1..size \/ j = size + 1) /\ (k \in 1..size \/ k = size + 1)
        BY <2>3
      <3> QED
        BY <2>3, <3>1, <3>2, <3>3
    <2>5. Topological(next)
      <3> SUFFICES ASSUME NEW k \in 1..(size + 1)
                   PROVE  next[k].after \subseteq {next[j].name : j \in 1..(k - 1)}
        BY <2>3 DEF Topological
      <3>1. CASE k = size + 1
        <4>1. {next[j].name : j \in 1..(k - 1)} = {placed[j].name : j \in 1..size}
          BY <2>3, <3>1
        <4> QED
          BY <2>2, <2>3, <3>1, <4>1
      <3>2. CASE k \in 1..size
        <4>1. {next[j].name : j \in 1..(k - 1)} = {placed[j].name : j \in 1..(k - 1)}
          BY <2>3, <3>2
        <4>2. placed[k].after \subseteq {placed[j].name : j \in 1..(k - 1)}
          BY <2>3, <3>2 DEF Good, Topological
        <4> QED
          BY <2>3, <3>2, <4>1, <4>2
      <3> QED
        BY <2>3, <3>1, <3>2
    <2> QED
      BY <1>3, <2>3, <2>4, <2>5 DEF Good, R, next, size
  <1> QED
    BY <1>2, <1>3

\* The order is good, and its last round placed a stage only if each round did.
LEMMA OrderGood ==
  ASSUME NEW T, NEW stages \in Seq(T)
  PROVE  Good(stages, Placed(stages)) /\ (Len(Placed(stages)) = Len(stages) \/ Ready(stages, Placed(stages)) = {})
  <1> DEFINE size == Len(stages)
  <1>1. size \in Nat
    BY LenProperties
  <1>2. PICK placed \in [0..size -> Seq(T)] :
            /\ placed[0] = << >> /\ \A n \in 1..size : placed[n] = PlaceOne(stages, placed[n - 1])
            /\ Placed(stages) = placed[size]
    BY Rounds
  <1> HIDE DEF size
  <1> DEFINE S == {n \in 0..size : Good(stages, placed[n]) /\ (Len(placed[n]) = n \/ Ready(stages, placed[n]) = {})}
  <1>3. 0 \in S
    <2>1. << >> \in Seq(Range(stages)) /\ Len(<< >>) = 0 /\ DOMAIN << >> = {}
      BY EmptySeq
    <2>2. Good(stages, << >>)
      BY <2>1 DEF Good, Distinct, Topological
    <2> QED
      BY <1>1, <1>2, <2>1, <2>2
  <1>4. ASSUME NEW n \in 0..(size - 1), n \in S
        PROVE  n + 1 \in S
    <2>1. n + 1 \in 1..size /\ (n + 1) - 1 = n /\ n + 1 \in 0..size
      BY <1>1
    <2>2. placed[n + 1] = PlaceOne(stages, placed[n])
      BY <1>2, <2>1
    <2>3. Good(stages, placed[n]) /\ (Len(placed[n]) = n \/ Ready(stages, placed[n]) = {})
      BY <1>4
    <2>4. /\ Good(stages, placed[n + 1])
          /\ Ready(stages, placed[n]) = {} => placed[n + 1] = placed[n]
          /\ Ready(stages, placed[n]) # {} => Len(placed[n + 1]) = Len(placed[n]) + 1
      BY <2>2, <2>3, PlacesGood
    <2>5. Len(placed[n + 1]) = n + 1 \/ Ready(stages, placed[n + 1]) = {}
      BY <2>3, <2>4
    <2> QED
      BY <2>1, <2>4, <2>5
  <1> HIDE DEF S
  <1>5. \A n \in 0..size : n \in S
    BY <1>1, <1>3, <1>4, UpTo
  <1>6. size \in S
    BY <1>1, <1>5
  <1> QED
    BY <1>2, <1>6 DEF S, size

\* An order as long as its graph has every stage of it.
LEMMA AllPlaced ==
  ASSUME NEW T, NEW stages \in Seq(T), NEW order, Distinct(stages), Good(stages, order)
  PROVE  /\ Names(order) \subseteq Names(stages)
         /\ (Len(order) = Len(stages)) = (Names(order) = Names(stages))
         /\ Len(order) = Len(stages) => Range(order) = Range(stages)
  <1> DEFINE R == Range(stages)
  <1>1. order \in Seq(R) /\ DOMAIN order = 1..Len(order) /\ DOMAIN stages = 1..Len(stages)
    BY LenProperties DEF Good
  <1>2. \A i \in DOMAIN order : order[i] \in R
    <2> HIDE DEF R
    <2> QED
      BY <1>1, ElementOfSeq
  <1>3. Range(order) \subseteq R /\ Names(order) \subseteq Names(stages)
    <2>1. Range(order) \subseteq R
      BY <1>2 DEF Range
    <2> QED
      BY <2>1 DEF Names
  <1>4. IsFiniteSet(Names(stages)) /\ Cardinality(Names(stages)) = Len(stages)
    BY DistinctNames
  <1>5. Cardinality(Names(order)) = Len(order)
    <2> HIDE DEF R
    <2> QED
      BY <1>1, DistinctNames DEF Good
  <1>6. Len(order) = Len(stages) => Names(order) = Names(stages)
    BY <1>3, <1>4, <1>5, FS_Subset
  <1>7. Names(order) = Names(stages) => Range(order) = R
    <2> SUFFICES ASSUME Names(order) = Names(stages), NEW i \in DOMAIN stages
                 PROVE  stages[i] \in Range(order)
      BY <1>3 DEF Range
    <2>1. stages[i].name \in Names(order)
      BY DEF Names, Range
    <2>2. PICK k \in DOMAIN order : order[k].name = stages[i].name
      BY <2>1 DEF Names, Range
    <2>3. PICK j \in DOMAIN stages : order[k] = stages[j]
      BY <1>2 DEF Range
    <2>4. j = i
      BY <2>2, <2>3 DEF Distinct
    <2> QED
      BY <2>3, <2>4 DEF Range
  <1> QED
    BY <1>3, <1>4, <1>5, <1>6, <1>7

-----------------------------------------------------------------------------
(***************************************************************************)
(* What a stage reaches.                                                   *)
(***************************************************************************)
LEMMA Reaches ==
  ASSUME NEW stages, NEW name \in Names(stages)
  PROVE  /\ name \in Reached(stages, name) /\ Closed(stages, Reached(stages, name))
         /\ Reached(stages, name) \subseteq Names(stages)
         /\ \A S \in SUBSET Names(stages) : name \in S /\ Closed(stages, S) => Reached(stages, name) \subseteq S
         /\ \A m \in Reached(stages, name) : Reached(stages, m) \subseteq Reached(stages, name)
  <1> DEFINE reached == Reached(stages, name)
  <1>1. name \in reached /\ reached \subseteq Names(stages)
    BY DEF Reached
  <1>2. \A S \in SUBSET Names(stages) : name \in S /\ Closed(stages, S) => reached \subseteq S
    BY DEF Reached
  <1>3. ASSUME NEW s \in Range(stages), s.after \cap reached # {}
        PROVE  s.name \in reached
    <2>1. PICK d : d \in s.after /\ d \in reached
      BY <1>3
    <2>2. s.name \in Names(stages)
      BY DEF Names
    <2>3. ASSUME NEW S \in SUBSET Names(stages), name \in S, Closed(stages, S)
          PROVE  s.name \in S
      <3>1. d \in S
        BY <2>1, <2>3 DEF Reached
      <3> QED
        BY <2>1, <2>3, <3>1 DEF Closed
    <2> QED
      BY <2>2, <2>3 DEF Reached
  <1>4. Closed(stages, reached)
    BY <1>3 DEF Closed
  <1>5. ASSUME NEW m \in reached
        PROVE  Reached(stages, m) \subseteq reached
    BY <1>1, <1>4, <1>5 DEF Reached
  <1> QED
    BY <1>1, <1>2, <1>4, <1>5

\* A graph has a cycle where a stage is reached from one it waits for.
LEMMA AcyclicReached ==
  ASSUME NEW stages
  PROVE  Acyclic(stages) = (\A s \in Range(stages) : s.after \cap Reached(stages, s.name) = {})
  <1>1. \A s \in Range(stages) : Downstream(stages, s.name) \cup {s.name} = Reached(stages, s.name)
    <2> SUFFICES ASSUME NEW s \in Range(stages)
                 PROVE  Downstream(stages, s.name) \cup {s.name} = Reached(stages, s.name)
      OBVIOUS
    <2>1. s.name \in Reached(stages, s.name)
      BY Reaches DEF Names
    <2> QED
      BY <2>1 DEF Downstream
  <1> QED
    BY <1>1 DEF Acyclic

\* Stages that can be put behind all they depend on have no cycle: the first of a cycle would
\* wait for a later one.
LEMMA OrderedAcyclic ==
  ASSUME NEW stages, NEW order, Distinct(order), Topological(order), Range(order) = Range(stages),
         NEW size \in Nat, DOMAIN order = 1..size
  PROVE  Acyclic(stages)
  <1> SUFFICES ASSUME NEW s \in Range(stages)
               PROVE  s.after \cap Reached(stages, s.name) = {}
    BY AcyclicReached
  <1>1. PICK k \in 1..size : s = order[k]
    BY DEF Range
  <1> DEFINE later == {order[j].name : j \in k..size}
  <1>2. later \in SUBSET Names(stages) /\ s.name \in later
    BY <1>1 DEF Names, Range
  <1>3. ASSUME NEW t \in Range(stages), t.after \cap later # {}
        PROVE  t.name \in later
    <2>1. PICK i \in 1..size : t = order[i]
      BY DEF Range
    <2>2. t.after \subseteq {order[j].name : j \in 1..(i - 1)}
      BY <2>1 DEF Topological
    <2>3. PICK j \in k..size : order[j].name \in t.after
      BY <1>3
    <2>4. PICK l \in 1..(i - 1) : order[l].name = order[j].name
      BY <2>2, <2>3
    <2>5. l = j
      BY <2>4 DEF Distinct
    <2>6. i \in k..size
      BY <2>3, <2>4, <2>5
    <2> QED
      BY <2>1, <2>6
  <1>4. Reached(stages, s.name) \subseteq later
    <2>1. Closed(stages, later)
      BY <1>3 DEF Closed
    <2> HIDE DEF later
    <2> QED
      BY <1>2, <2>1, Reaches DEF Names
  <1>5. s.after \cap later = {}
    <2>1. s.after \subseteq {order[j].name : j \in 1..(k - 1)}
      BY <1>1 DEF Topological
    <2>2. \A i \in 1..(k - 1), j \in k..size : order[i].name # order[j].name
      BY DEF Distinct
    <2> QED
      BY <2>1, <2>2
  <1> QED
    BY <1>4, <1>5

\* When no stage is ready and some are left, each of these waits for another: they hold a cycle.
LEMMA StuckIsCyclic ==
  ASSUME NEW T, NEW stages \in Seq(T), NEW placed, Distinct(stages), Good(stages, placed),
         \A s \in Range(stages) : s.after \subseteq Names(stages),
         Ready(stages, placed) = {}, Len(placed) # Len(stages)
  PROVE  ~Acyclic(stages)
  <1> SUFFICES ASSUME Acyclic(stages)
               PROVE  FALSE
    OBVIOUS
  <1> DEFINE names == Names(stages)
             left == names \ Names(placed)
             size(m) == Cardinality(Reached(stages, m))
             gaps == {g \in Nat : \E m \in left : g = Cardinality(names) - size(m)}
  <1>1. left # {}
    <2>1. Names(placed) \subseteq Names(stages) /\ Names(placed) # Names(stages)
      BY AllPlaced
    <2> QED
      BY <2>1
  <1>2. IsFiniteSet(names) /\ Cardinality(names) \in Nat
    BY DistinctNames
  <1>3. \A m \in names : IsFiniteSet(Reached(stages, m)) /\ size(m) \in Nat /\ size(m) <= Cardinality(names)
    <2> SUFFICES ASSUME NEW m \in names
                 PROVE  IsFiniteSet(Reached(stages, m)) /\ size(m) \in Nat /\ size(m) <= Cardinality(names)
      OBVIOUS
    <2>1. Reached(stages, m) \subseteq names
      BY Reaches
    <2> QED
      BY <1>2, <2>1, FS_Subset, FS_CardinalityType
  <1>4. gaps # {}
    <2>1. PICK m \in left : TRUE
      BY <1>1
    <2>2. Cardinality(names) - size(m) \in Nat
      <3>1. size(m) \in Nat /\ size(m) <= Cardinality(names)
        BY <1>3, <2>1
      <3> HIDE DEF size, names
      <3> QED
        BY <1>2, <3>1
    <2> QED
      BY <2>1, <2>2
  <1>5. PICK m \in left : Min(gaps) = Cardinality(names) - size(m)
    <2>1. Min(gaps) \in gaps
      <3> HIDE DEF gaps
      <3>1. gaps \subseteq Nat
        BY DEF gaps
      <3> QED
        BY <1>4, <3>1, Least
    <2> QED
      BY <2>1
  <1>6. \A d \in left : size(d) <= size(m)
    <2> SUFFICES ASSUME NEW d \in left
                 PROVE  size(d) <= size(m)
      OBVIOUS
    <2>1. size(d) \in Nat /\ size(d) <= Cardinality(names) /\ size(m) \in Nat /\ size(m) <= Cardinality(names)
      BY <1>3
    <2>2. Cardinality(names) - size(d) \in gaps
      <3>1. Cardinality(names) - size(d) \in Nat
        <4> HIDE DEF size, names
        <4> QED
          BY <1>2, <2>1
      <3> QED
        BY <3>1
    <2>3. Min(gaps) <= Cardinality(names) - size(d)
      <3> HIDE DEF gaps
      <3>1. gaps \subseteq Nat
        BY DEF gaps
      <3> QED
        BY <2>2, <3>1, Least
    <2> HIDE DEF size, names, gaps
    <2> QED
      BY <1>2, <1>5, <2>1, <2>3
  <1>7. PICK i \in DOMAIN stages : stages[i].name = m
    BY DEF Names, Range
  <1>8. stages[i] \in Range(stages) /\ i \notin Ready(stages, placed)
    BY DEF Range
  <1>9. PICK d \in stages[i].after : d \in left
    BY <1>7, <1>8 DEF Ready
  <1>10. m \in Reached(stages, d)
    <2>1. d \in Reached(stages, d) /\ Closed(stages, Reached(stages, d))
      BY <1>9, Reaches
    <2> QED
      BY <1>7, <1>8, <1>9, <2>1 DEF Closed
  <1>11. d \notin Reached(stages, m) /\ d \in Reached(stages, d)
    BY <1>7, <1>8, <1>9, AcyclicReached, Reaches
  <1>12. Reached(stages, m) \subseteq Reached(stages, d)
    BY <1>9, <1>10, Reaches
  <1>13. size(m) < size(d)
    <2>1. IsFiniteSet(Reached(stages, d)) /\ size(d) \in Nat /\ size(m) \in Nat
      BY <1>3, <1>9
    <2>2. size(m) <= size(d) /\ (size(m) = size(d) => Reached(stages, m) = Reached(stages, d))
      BY <1>12, <2>1, FS_Subset
    <2>3. Reached(stages, m) # Reached(stages, d)
      BY <1>11
    <2> HIDE DEF size
    <2> QED
      BY <2>1, <2>2, <2>3
  <1>14. size(d) <= size(m) /\ size(d) \in Nat /\ size(m) \in Nat
    BY <1>3, <1>6, <1>9
  <1> HIDE DEF size
  <1> QED
    BY <1>13, <1>14

\* A stage other than `name` is reached through one of its dependencies.
LEMMA ReachedThrough ==
  ASSUME NEW stages, Distinct(stages), NEW name \in Names(stages), NEW s \in Range(stages),
         s.name \in Reached(stages, name), s.name # name
  PROVE  s.after \cap Reached(stages, name) # {}
  <1> DEFINE reached == Reached(stages, name)
             rest == reached \ {s.name}
  <1> SUFFICES ASSUME s.after \cap reached = {}
               PROVE  FALSE
    OBVIOUS
  <1>1. name \in reached /\ Closed(stages, reached) /\ reached \subseteq Names(stages)
    BY Reaches
  <1>2. ASSUME NEW t \in Range(stages), t.after \cap rest # {}
        PROVE  t.name \in rest
    <2>1. t.name \in reached
      BY <1>1, <1>2 DEF Closed
    <2>2. t # s
      BY <1>2
    <2>3. t.name # s.name
      BY <2>2 DEF Distinct, Range
    <2> QED
      BY <2>1, <2>3
  <1>3. Closed(stages, rest)
    BY <1>2 DEF Closed
  <1>4. rest \in SUBSET Names(stages) /\ name \in rest
    BY <1>1
  <1>5. reached \subseteq rest
    <2> HIDE DEF reached, rest
    <2>1. Reached(stages, name) \subseteq rest
      BY <1>3, <1>4, Reaches
    <2> QED
      BY <2>1 DEF reached
  <1> QED
    BY <1>5

\* The loop of dependents_of, round by round.
BlockedBy(stages, order, name, names, blocked) ==
    /\ blocked \in [0..Len(order) -> SUBSET names]
    /\ blocked[0] = {name} /\ \A n \in 1..Len(order) : blocked[n] = Block(blocked[n - 1], order[n])
    /\ dependents_of(stages, name) = blocked[Len(order)] \ {name}

\* The stages a failure blocks, one stage of the order after the other.
LEMMA Blocks ==
  ASSUME NEW stages, NEW order, order = ordered(stages), NEW name, NEW names, name \in names,
         Len(order) \in Nat, \A n \in 1..Len(order) : order[n].name \in names
  PROVE  \E blocked : BlockedBy(stages, order, name, names, blocked)
  <1> DEFINE size == Len(order)
             Goes(f) == f = [n \in 0..size |-> IF n = 0 THEN {name} ELSE Block(f[n - 1], order[n])]
             blocked == CHOOSE f : Goes(f)
             step == [x \in (1..size) \X (SUBSET names) |-> Block(x[2], order[x[1]])]
  <1>1. size \in Nat /\ {name} \in SUBSET names
    OBVIOUS
  <1>2. \A B \in SUBSET names, n \in 1..size : Block(B, order[n]) \in SUBSET names
    BY DEF Block
  <1>3. step \in [(1..size) \X (SUBSET names) -> SUBSET names]
    <2> SUFFICES ASSUME NEW x \in (1..size) \X (SUBSET names)
                 PROVE  Block(x[2], order[x[1]]) \in SUBSET names
      OBVIOUS
    <2>1. x[1] \in 1..size /\ x[2] \in SUBSET names
      OBVIOUS
    <2> QED
      BY <1>2, <2>1
  <1>4. PICK f \in [0..size -> SUBSET names] : f[0] = {name} /\ \A n \in 1..size : f[n] = step[<<n, f[n - 1]>>]
    <2>1. \E f : Recurs(f, size, SUBSET names, {name}, step)
      <3> HIDE DEF step, size
      <3> QED
        BY <1>1, <1>3, Recursion
    <2> HIDE DEF step, size
    <2> QED
      BY <2>1 DEF Recurs
  <1>5. \A n \in 1..size : f[n] = Block(f[n - 1], order[n])
    <2> SUFFICES ASSUME NEW n \in 1..size
                 PROVE  f[n] = Block(f[n - 1], order[n])
      OBVIOUS
    <2>1. n - 1 \in 0..size /\ f[n - 1] \in SUBSET names
      BY <1>1
    <2>2. step[<<n, f[n - 1]>>] = Block(f[n - 1], order[n])
      BY <2>1
    <2> QED
      BY <1>4, <2>2
  <1>6. Goes(f)
    <2>1. \A n \in 0..size : f[n] = IF n = 0 THEN {name} ELSE Block(f[n - 1], order[n])
      BY <1>1, <1>4, <1>5
    <2> HIDE DEF step
    <2> QED
      BY <2>1, <1>4
  <1>7. Goes(blocked)
    <2> HIDE DEF Goes
    <2> QED
      BY <1>6
  <1>8. dependents_of(stages, name) = blocked[size] \ {name}
    BY DEF dependents_of
  <1> HIDE DEF blocked, step
  <1>9. DOMAIN blocked = 0..size /\ \A n \in 0..size : blocked[n] = IF n = 0 THEN {name} ELSE Block(blocked[n - 1], order[n])
    BY <1>7
  <1>10. blocked = [n \in 0..size |-> blocked[n]]
    BY <1>7, <1>9
  <1> HIDE DEF Goes
  <1>11. blocked[0] = {name} /\ \A n \in 1..size : blocked[n] = Block(blocked[n - 1], order[n])
    BY <1>1, <1>9
  <1> DEFINE S == {n \in 0..size : blocked[n] \in SUBSET names}
  <1>12. 0 \in S
    BY <1>1, <1>11
  <1>13. ASSUME NEW n \in 0..(size - 1), n \in S
         PROVE  n + 1 \in S
    <2>1. n + 1 \in 1..size /\ (n + 1) - 1 = n
      BY <1>1
    <2>2. blocked[n + 1] = Block(blocked[n], order[n + 1])
      BY <1>11, <2>1
    <2>3. Block(blocked[n], order[n + 1]) \in SUBSET names
      BY <1>2, <1>13, <2>1
    <2> QED
      BY <2>1, <2>2, <2>3
  <1> HIDE DEF S
  <1>14. \A n \in 0..size : n \in S
    BY <1>1, <1>12, <1>13, UpTo
  <1>15. blocked \in [0..size -> SUBSET names]
    BY <1>10, <1>14 DEF S
  <1> QED
    BY <1>8, <1>11, <1>15 DEF BlockedBy

\* A failure blocks exactly the stages its own reaches, because the order puts them behind it.
LEMMA DependentsReached ==
  ASSUME NEW T, NEW stages \in Seq(T), NEW order, order = ordered(stages), Distinct(stages), Good(stages, order),
         Range(order) = Range(stages), NEW name \in Names(stages)
  PROVE  dependents_of(stages, name) = Downstream(stages, name)
  <1> DEFINE size == Len(order)
             reached == Reached(stages, name)
             first(n) == {name} \cup {order[j].name : j \in 1..n}
  <1>1. size \in Nat /\ DOMAIN order = 1..size
    <2>1. order \in Seq(Range(stages))
      BY DEF Good
    <2> QED
      BY <2>1, LenProperties
  <1>2. Names(order) = Names(stages) /\ \A n \in 1..size : order[n] \in Range(stages) /\ order[n].name \in Names(stages)
    <2>1. Names(order) = Names(stages)
      BY DEF Names
    <2>2. \A n \in 1..size : order[n] \in Range(order)
      BY <1>1 DEF Range
    <2>3. \A s \in Range(stages) : s.name \in Names(stages)
      BY DEF Names
    <2> QED
      BY <2>1, <2>2, <2>3
  <1>3. PICK blocked \in [0..size -> SUBSET Names(stages)] :
            /\ blocked[0] = {name} /\ \A n \in 1..size : blocked[n] = Block(blocked[n - 1], order[n])
            /\ dependents_of(stages, name) = blocked[size] \ {name}
    <2>1. \E blocked : BlockedBy(stages, order, name, Names(stages), blocked)
      BY <1>1, <1>2, Blocks
    <2> QED
      BY <2>1 DEF BlockedBy
  <1>4. name \in reached /\ Closed(stages, reached) /\ reached \subseteq Names(stages)
    BY Reaches
  <1> DEFINE S == {n \in 0..size : blocked[n] = reached \cap first(n)}
  <1> HIDE DEF size, reached
  <1>5. 0 \in S
    <2>1. first(0) = {name}
      OBVIOUS
    <2> QED
      BY <1>1, <1>3, <1>4, <2>1
  <1>6. ASSUME NEW n \in 0..(size - 1), n \in S
        PROVE  n + 1 \in S
    <2> DEFINE s == order[n + 1]
    <2>1. n + 1 \in 1..size /\ (n + 1) - 1 = n /\ n + 1 \in 0..size
      BY <1>1
    <2>2. blocked[n + 1] = Block(blocked[n], s) /\ blocked[n] = reached \cap first(n)
      BY <1>3, <1>6, <2>1
    <2>3. s \in Range(stages) /\ s.name \in Names(stages)
      BY <1>2, <2>1
    <2>4. first(n + 1) = first(n) \cup {s.name}
      BY <2>1
    <2>5. s.after \subseteq first(n)
      <3>1. s.after \subseteq {order[j].name : j \in 1..((n + 1) - 1)}
        BY <1>1, <2>1 DEF Good, Topological
      <3> QED
        BY <2>1, <3>1
    <2> HIDE DEF s, first
    <2>6. CASE s.name \in blocked[n]
      BY <2>1, <2>2, <2>4, <2>6 DEF Block
    <2>7. CASE s.name \notin blocked[n] /\ blocked[n] \cap s.after # {}
      <3>1. s.name \in reached
        BY <1>4, <2>2, <2>3, <2>7 DEF Closed
      <3> QED
        BY <2>1, <2>2, <2>4, <2>7, <3>1 DEF Block
    <2>8. CASE s.name \notin blocked[n] /\ blocked[n] \cap s.after = {}
      <3>1. s.name # name
        BY <1>4, <2>2, <2>8 DEF first
      <3>2. s.name \notin reached
        <4> SUFFICES ASSUME s.name \in reached
                     PROVE  FALSE
          OBVIOUS
        <4>1. s.after \cap reached # {}
          BY <2>3, <3>1, ReachedThrough DEF reached
        <4> QED
          BY <2>2, <2>5, <2>8, <4>1
      <3> QED
        BY <2>1, <2>2, <2>4, <2>8, <3>2 DEF Block
    <2> QED
      BY <2>6, <2>7, <2>8
  <1> HIDE DEF S
  <1>7. \A n \in 0..size : n \in S
    BY <1>1, <1>5, <1>6, UpTo
  <1>8. blocked[size] = reached \cap first(size)
    BY <1>1, <1>7 DEF S
  <1>9. Names(stages) \subseteq first(size)
    <2>1. Names(order) = {order[j].name : j \in 1..size}
      BY <1>1 DEF Names, Range
    <2> QED
      BY <1>2, <2>1
  <1> HIDE DEF first
  <1> QED
    BY <1>3, <1>4, <1>8, <1>9 DEF Downstream, reached

-----------------------------------------------------------------------------
\* A graph of stages with a name each is ordered exactly when it has no cycle, dependencies first and
\* every stage kept, and a failure blocks exactly what depends on it (stages.py:87-142).
THEOREM GraphHolds ==
  ASSUME NEW T, NEW stages \in Seq(T), Distinct(stages), None \notin Seq(T)
  PROVE  OrderIsTopological(stages)
  <1> DEFINE order == ordered(stages)
             placed == Placed(stages)
             known == \A s \in Range(stages) : s.after \subseteq Names(stages)
             full == Len(placed) = Len(stages)
  <1>1. Good(stages, placed) /\ (full \/ Ready(stages, placed) = {})
    BY OrderGood
  <1>2. placed # None
    <2>1. Range(stages) \subseteq T
      BY RangeOfSeq
    <2>2. placed \in Seq(T)
      <3>1. placed \in Seq(Range(stages))
        BY <1>1 DEF Good
      <3> HIDE DEF placed
      <3> QED
        BY <2>1, <3>1, SeqMonotonic
    <2> QED
      BY <2>2
  <1>3. order = IF ~known \/ ~full THEN None ELSE placed
    <2>1. Cardinality(Names(stages)) = Len(stages)
      BY DistinctNames
    <2> QED
      BY <2>1 DEF ordered
  <1>4. full => Range(placed) = Range(stages)
    <2> HIDE DEF placed
    <2> QED
      BY <1>1, AllPlaced
  <1>5. placed \in Seq(Range(stages)) /\ Len(placed) \in Nat /\ DOMAIN placed = 1..Len(placed)
    <2>1. placed \in Seq(Range(stages))
      BY <1>1 DEF Good
    <2> HIDE DEF placed
    <2> QED
      BY <2>1, LenProperties
  <1>6. full => Acyclic(stages)
    <2> HIDE DEF placed
    <2>1. Distinct(placed) /\ Topological(placed)
      BY <1>1 DEF Good
    <2> QED
      BY <1>4, <1>5, <2>1, OrderedAcyclic
  <1>7. known /\ ~full => ~Acyclic(stages)
    <2> HIDE DEF placed
    <2> QED
      BY <1>1, StuckIsCyclic
  <1>8. (order # None) = (known /\ Acyclic(stages))
    <2> HIDE DEF placed, known, order, full
    <2> QED
      BY <1>2, <1>3, <1>6, <1>7
  <1>9. ASSUME order # None
        PROVE  /\ Topological(order) /\ Range(order) = Range(stages)
               /\ \A n \in Names(stages) : dependents_of(stages, n) = Downstream(stages, n)
    <2>1. order = placed /\ full
      BY <1>3, <1>9
    <2> HIDE DEF placed, order
    <2>2. Good(stages, order) /\ Range(order) = Range(stages)
      BY <1>1, <1>4, <2>1
    <2>3. \A n \in Names(stages) : dependents_of(stages, n) = Downstream(stages, n)
      BY <2>2, DependentsReached DEF order
    <2> QED
      BY <2>2, <2>3 DEF Good
  <1> QED
    BY <1>8, <1>9 DEF OrderIsTopological
-----------------------------------------------------------------------------
(***************************************************************************)
(* The plan of a configuration.                                            *)
(***************************************************************************)
InOrder(stages) == Distinct(stages) /\ Topological(stages)

\* A stage added behind those it depends on.
LEMMA OneMore ==
  ASSUME NEW T, NEW placed \in Seq(T), NEW s \in T, InOrder(placed),
         s.name \notin Names(placed), s.after \subseteq Names(placed)
  PROVE  /\ Append(placed, s) \in Seq(T) /\ InOrder(Append(placed, s))
         /\ Range(Append(placed, s)) = Range(placed) \cup {s}
         /\ Names(Append(placed, s)) = Names(placed) \cup {s.name}
  <1> DEFINE next == Append(placed, s)
             size == Len(placed)
  <1>1. /\ next \in Seq(T) /\ Len(next) = size + 1
        /\ DOMAIN placed = 1..size /\ DOMAIN next = 1..(size + 1) /\ size \in Nat
        /\ next[size + 1] = s
        /\ \A k \in 1..size : next[k] = placed[k]
        /\ Names(placed) = {placed[k].name : k \in 1..size}
    BY AppendNames
  <1> HIDE DEF next, size
  <1>2. Distinct(next)
    <2>1. \A k \in 1..size : placed[k].name # s.name
      BY <1>1
    <2>2. \A j, k \in 1..size : placed[j].name = placed[k].name => j = k
      BY <1>1 DEF InOrder, Distinct
    <2> SUFFICES ASSUME NEW j \in 1..(size + 1), NEW k \in 1..(size + 1), next[j].name = next[k].name
                 PROVE  j = k
      BY <1>1 DEF Distinct
    <2>3. (j \in 1..size \/ j = size + 1) /\ (k \in 1..size \/ k = size + 1)
      BY <1>1
    <2> QED
      BY <1>1, <2>1, <2>2, <2>3
  <1>3. Topological(next)
    <2> SUFFICES ASSUME NEW k \in 1..(size + 1)
                 PROVE  next[k].after \subseteq {next[j].name : j \in 1..(k - 1)}
      BY <1>1 DEF Topological
    <2>1. CASE k = size + 1
      <3>1. {next[j].name : j \in 1..(k - 1)} = {placed[j].name : j \in 1..size}
        BY <1>1, <2>1
      <3> QED
        BY <1>1, <2>1, <3>1
    <2>2. CASE k \in 1..size
      <3>1. {next[j].name : j \in 1..(k - 1)} = {placed[j].name : j \in 1..(k - 1)}
        BY <1>1, <2>2
      <3>2. placed[k].after \subseteq {placed[j].name : j \in 1..(k - 1)}
        BY <1>1, <2>2 DEF InOrder, Topological
      <3> QED
        BY <1>1, <2>2, <3>1, <3>2
    <2> QED
      BY <1>1, <2>1, <2>2
  <1>4. Range(next) = Range(placed) \cup {s}
    <2>1. \A k \in 1..(size + 1) : next[k] \in Range(placed) \cup {s}
      BY <1>1 DEF Range
    <2>2. \A k \in 1..size : placed[k] \in Range(next)
      BY <1>1 DEF Range
    <2>3. s \in Range(next)
      <3>1. size + 1 \in DOMAIN next
        BY <1>1
      <3> QED
        BY <1>1, <3>1 DEF Range
    <2> QED
      BY <1>1, <2>1, <2>2, <2>3 DEF Range
  <1>5. Names(next) = Names(placed) \cup {s.name}
    BY <1>4 DEF Names
  <1> QED
    BY <1>1, <1>2, <1>3, <1>4, <1>5 DEF InOrder, next

\* A stage that may be left out, added behind those it depends on.
LEMMA AtMostOneMore ==
  ASSUME NEW T, NEW placed \in Seq(T), InOrder(placed), NEW more, NEW given \in BOOLEAN, NEW s \in T,
         more = IF given THEN <<s>> ELSE << >>,
         given => s.name \notin Names(placed) /\ s.after \subseteq Names(placed)
  PROVE  /\ placed \o more \in Seq(T) /\ InOrder(placed \o more)
         /\ Range(placed \o more) = Range(placed) \cup (IF given THEN {s} ELSE {})
         /\ Names(placed \o more) = Names(placed) \cup (IF given THEN {s.name} ELSE {})
  <1>1. CASE given
    <2>1. placed \o more = Append(placed, s)
      BY <1>1, AppendIsConcat
    <2>2. /\ Append(placed, s) \in Seq(T) /\ InOrder(Append(placed, s))
          /\ Range(Append(placed, s)) = Range(placed) \cup {s}
          /\ Names(Append(placed, s)) = Names(placed) \cup {s.name}
      BY <1>1, OneMore
    <2>3. (IF given THEN {s} ELSE {}) = {s} /\ (IF given THEN {s.name} ELSE {}) = {s.name}
      BY <1>1
    <2> QED
      BY <2>1, <2>2, <2>3
  <1>2. CASE ~given
    <2>1. placed \o more = placed
      BY <1>2, ConcatEmptySeq
    <2> QED
      BY <1>2, <2>1
  <1> QED
    BY <1>1, <1>2

\* What is written in order is ordered as it is written.
LEMMA InOrderPlaced ==
  ASSUME NEW T, NEW stages \in Seq(T), InOrder(stages)
  PROVE  Placed(stages) = stages
  <1> DEFINE size == Len(stages)
  <1>1. size \in Nat /\ DOMAIN stages = 1..size
    BY LenProperties
  <1>2. PICK placed \in [0..size -> Seq(T)] :
            /\ placed[0] = << >> /\ \A n \in 1..size : placed[n] = PlaceOne(stages, placed[n - 1])
            /\ Placed(stages) = placed[size]
    BY Rounds
  <1> HIDE DEF size
  <1> DEFINE S == {n \in 0..size : Len(placed[n]) = n /\ \A i \in 1..n : placed[n][i] = stages[i]}
  <1>3. 0 \in S
    BY <1>1, <1>2
  <1>4. ASSUME NEW n \in 0..(size - 1), n \in S
        PROVE  n + 1 \in S
    <2> DEFINE now == placed[n]
               s == stages[n + 1]
    <2>1. n + 1 \in 1..size /\ (n + 1) - 1 = n /\ n + 1 \in 0..size /\ n \in 0..size
      BY <1>1
    <2>2. now \in Seq(T) /\ Len(now) = n /\ \A i \in 1..n : now[i] = stages[i]
      BY <1>2, <1>4, <2>1
    <2>3. placed[n + 1] = PlaceOne(stages, now)
      BY <1>2, <2>1
    <2>4. s \in T
      BY <1>1, <2>1, ElementOfSeq
    <2> HIDE DEF now, s
    <2>5. Names(now) = {now[i].name : i \in 1..n}
      BY SMTT(60), <2>2, <2>4, AppendNames
    <2>6. Names(now) = {stages[i].name : i \in 1..n}
      BY <2>2, <2>5
    <2>7. n + 1 \in Ready(stages, now)
      <3>1. s.name \notin Names(now)
        <4> SUFFICES ASSUME NEW i \in 1..n
                     PROVE  stages[i].name # s.name
          BY <2>6
        <4>1. i \in DOMAIN stages /\ n + 1 \in DOMAIN stages /\ i # n + 1
          BY <1>1, <2>1
        <4> QED
          BY <4>1 DEF s, InOrder, Distinct
      <3>2. s.after \subseteq Names(now)
        <4>1. s.after \subseteq {stages[j].name : j \in 1..((n + 1) - 1)}
          BY <1>1, <2>1 DEF s, InOrder, Topological
        <4> QED
          BY <2>1, <2>6, <4>1
      <3> QED
        BY <1>1, <2>1, <3>1, <3>2 DEF Ready, s
    <2>8. \A i \in Ready(stages, now) : n + 1 <= i
      <3> SUFFICES ASSUME NEW i \in Ready(stages, now), ~(n + 1 <= i)
                   PROVE  FALSE
        OBVIOUS
      <3>1. i \in 1..size /\ stages[i].name \notin Names(now)
        BY <1>1 DEF Ready
      <3>2. i \in 1..n
        BY <2>1, <3>1
      <3> QED
        BY <2>6, <3>1, <3>2
    <2>9. PICK i \in Ready(stages, now) : PlaceOne(stages, now) = Append(now, stages[i]) /\ \A j \in Ready(stages, now) : i <= j
      BY <2>2, <2>7, PlacesOne
    <2>10. i = n + 1
      <3>1. i \in 1..size /\ i <= n + 1 /\ n + 1 <= i
        BY <1>1, <2>7, <2>8, <2>9 DEF Ready
      <3> QED
        BY <2>1, <3>1
    <2>11. placed[n + 1] = Append(now, s)
      BY <2>3, <2>9, <2>10 DEF s
    <2>12. Len(placed[n + 1]) = n + 1 /\ \A k \in 1..(n + 1) : placed[n + 1][k] = stages[k]
      <3>1. Len(Append(now, s)) = n + 1 /\ Append(now, s)[n + 1] = s /\ \A k \in 1..n : Append(now, s)[k] = now[k]
        BY SMTT(60), <2>2, <2>4, AppendNames
      <3>2. \A k \in 1..(n + 1) : Append(now, s)[k] = stages[k]
        <4> SUFFICES ASSUME NEW k \in 1..(n + 1)
                     PROVE  Append(now, s)[k] = stages[k]
          OBVIOUS
        <4>1. k \in 1..n \/ k = n + 1
          BY <2>1
        <4> QED
          BY <2>2, <3>1, <4>1 DEF s
      <3> QED
        BY <2>11, <3>1, <3>2
    <2> QED
      BY <2>1, <2>12
  <1>5. \A n \in 0..size : n \in S
    <2> HIDE DEF S
    <2> QED
      BY <1>1, <1>3, <1>4, UpTo
  <1>6. placed[size] \in Seq(T) /\ Len(placed[size]) = size /\ \A i \in 1..size : placed[size][i] = stages[i]
    <2>1. size \in S
      <3> HIDE DEF S
      <3> QED
        BY <1>1, <1>5
    <2> QED
      BY <1>1, <2>1
  <1>7. placed[size] = stages
    <2>1. \A i \in 1..Len(stages) : placed[size][i] = stages[i]
      BY <1>6 DEF size
    <2>2. Len(placed[size]) = Len(stages)
      BY <1>6 DEF size
    <2> HIDE DEF S
    <2> QED
      BY <1>6, <2>1, <2>2, SeqEqual
  <1> QED
    BY <1>2, <1>7

BaselineStage == Stage("coinjoin-analysis", "baseline", "pbs", {Emulation.name})
ParseStage == Stage("blocksci-parse", "parse", "pbs", {Emulation.name})
MappingsStage(c) == _mappings_stage(IF Given(c, "analysis") THEN BaselineStage ELSE Emulation)

\* The stage that updates, parses and analyses, or works on an index.
WorkStage(c) ==
    IF c.task = "update" THEN Stage("blocksci-update", "update", "pbs", {Emulation.name})
    ELSE IF c.workflow = "combined" THEN Stage("blocksci", "work", "pbs", {Emulation.name})
    ELSE Stage(WorkNames[c.task], "work", "pbs", {IF c.workflow = "reusable" THEN ParseStage.name ELSE Emulation.name})

HasParse(c) == Given(c, "blocksci") /\ c.task # "update" /\ c.workflow = "reusable"
HasWork(c) == Given(c, "blocksci") /\ ~(c.task = "parse" /\ c.workflow # "combined")

Analyzers(c) ==
    (IF Given(c, "analysis") THEN {BaselineStage} ELSE {}) \cup (IF HasWork(c) THEN {WorkStage(c)} ELSE {})
    \cup (IF Given(c, "mappings") THEN {MappingsStage(c)} ELSE {})

ReportStage(c) == Stage("unified-report", "report", "pbs", {s.name : s \in Analyzers(c)})

\* The plan of a configuration, part by part (s3_submission.py:293-322).
LEMMA PlanOfParts ==
  ASSUME NEW c
  PROVE  s3_full_run_plan(c) =
             <<Emulation>>
             \o (IF Given(c, "analysis") THEN <<BaselineStage>> ELSE << >>)
             \o (IF HasParse(c) THEN <<ParseStage>> ELSE << >>)
             \o (IF HasWork(c) THEN <<WorkStage(c)>> ELSE << >>)
             \o (IF Given(c, "mappings") THEN <<MappingsStage(c)>> ELSE << >>)
             \o (IF runs_unified_report(c) THEN <<ReportStage(c)>> ELSE << >>)
  <1> DEFINE baseline == IF Given(c, "analysis") THEN <<BaselineStage>> ELSE << >>
             parse == IF HasParse(c) THEN <<ParseStage>> ELSE << >>
             work == IF HasWork(c) THEN <<WorkStage(c)>> ELSE << >>
             mappings == IF Given(c, "mappings") THEN <<MappingsStage(c)>> ELSE << >>
  <1>1. _blocksci_stages(c) = <<parse, work>>
    BY DEF _blocksci_stages, HasParse, HasWork, ParseStage, WorkStage, Stage
  <1>2. baseline = << >> <=> ~Given(c, "analysis")
    OBVIOUS
  <1>3. mappings = IF Given(c, "mappings")
                   THEN <<_mappings_stage(IF baseline = << >> THEN Emulation ELSE baseline[1])>> ELSE << >>
    BY <1>2 DEF MappingsStage
  <1>4. ReportStage(c) = _report_stage("pbs", Range(baseline \o work \o mappings))
    <2> DEFINE T == {BaselineStage, WorkStage(c), MappingsStage(c)}
    <2>1. baseline \in Seq(T) /\ work \in Seq(T) /\ mappings \in Seq(T)
      <3>1. BaselineStage \in T /\ WorkStage(c) \in T /\ MappingsStage(c) \in T
        OBVIOUS
      <3> HIDE DEF T
      <3>2. << >> \in Seq(T) /\ <<BaselineStage>> \in Seq(T) /\ <<WorkStage(c)>> \in Seq(T) /\ <<MappingsStage(c)>> \in Seq(T)
        BY <3>1
      <3> QED
        BY <3>2
    <2>2. Range(baseline) = (IF Given(c, "analysis") THEN {BaselineStage} ELSE {})
      BY DEF Range
    <2>3. Range(work) = (IF HasWork(c) THEN {WorkStage(c)} ELSE {})
      BY DEF Range
    <2>4. Range(mappings) = (IF Given(c, "mappings") THEN {MappingsStage(c)} ELSE {})
      BY DEF Range
    <2> HIDE DEF T, baseline, work, mappings
    <2>5. baseline \o work \in Seq(T) /\ Range(baseline \o work) = Range(baseline) \cup Range(work)
      BY <2>1, ConcatProperties, RangeConcatenation
    <2>6. Range((baseline \o work) \o mappings) = Range(baseline) \cup Range(work) \cup Range(mappings)
      <3> DEFINE both == baseline \o work
      <3>1. both \in Seq(T) /\ Range(both) = Range(baseline) \cup Range(work)
        BY <2>5
      <3> HIDE DEF both
      <3>2. Range(both \o mappings) = Range(both) \cup Range(mappings)
        BY <2>1, <3>1, RangeConcatenation
      <3> QED
        BY <3>1, <3>2 DEF both
    <2> QED
      BY <2>2, <2>3, <2>4, <2>6 DEF ReportStage, _report_stage, Analyzers
  <1>5. s3_full_run_plan(c) =
            <<Emulation>> \o baseline \o parse \o work \o mappings
            \o (IF runs_unified_report(c) THEN <<ReportStage(c)>> ELSE << >>)
    <2>1. _blocksci_stages(c)[1] = parse /\ _blocksci_stages(c)[2] = work
      <3> HIDE DEF parse, work
      <3> QED
        BY <1>1
    <2>2. baseline = IF Given(c, "analysis")
                     THEN <<Stage("coinjoin-analysis", "baseline", "pbs", {Emulation.name})>> ELSE << >>
      BY DEF BaselineStage
    <2> HIDE DEF baseline, parse, work, mappings
    <2> QED
      BY <1>3, <1>4, <2>1, <2>2 DEF s3_full_run_plan
  <1> QED
    BY <1>5

WorkStageNames == {"blocksci-update", "blocksci", "blocksci-analyze", "blocksci-script", "blocksci-notebook",
                   "blocksci-external", "blocksci-backup"}

\* The name, kind and dependencies of the work stage.
LEMMA WorkName ==
  ASSUME NEW c, c.task \in Tasks, HasWork(c)
  PROVE  /\ WorkStage(c).name \in WorkStageNames /\ WorkStage(c).runner = "pbs"
         /\ WorkStage(c).kind = IF c.task = "update" THEN "update" ELSE "work"
         /\ WorkStage(c).after = IF HasParse(c) THEN {"blocksci-parse"} ELSE {"kubernetes-emulation"}
         /\ WorkStage(c).name = "blocksci" <=> c.task # "update" /\ c.workflow = "combined"
  <1>1. CASE c.task = "update"
    BY <1>1 DEF WorkStage, HasParse, Stage, WorkStageNames, Emulation
  <1>2. CASE c.task # "update" /\ c.workflow = "combined"
    BY <1>2 DEF WorkStage, HasParse, Stage, WorkStageNames, Emulation
  <1>3. CASE c.task # "update" /\ c.workflow # "combined"
    <2>1. c.task \in {"detect", "script", "notebook", "external", "backup"}
      BY <1>3 DEF HasWork, Tasks
    <2>2. WorkNames[c.task] \in WorkStageNames \ {"blocksci", "blocksci-update"}
      BY <2>1 DEF WorkNames, WorkStageNames
    <2>4. WorkStage(c) = Stage(WorkNames[c.task], "work", "pbs", {IF c.workflow = "reusable" THEN "blocksci-parse" ELSE "kubernetes-emulation"})
      BY <1>3 DEF WorkStage, ParseStage, Emulation, Stage
    <2>5. HasParse(c) <=> c.workflow = "reusable"
      BY <1>3 DEF HasParse, HasWork
    <2> QED
      BY <1>3, <2>2, <2>4, <2>5 DEF Stage
  <1> QED
    BY <1>1, <1>2, <1>3

\* The names, kinds and dependencies of the other stages.
LEMMA StageFields ==
  ASSUME NEW c
  PROVE  /\ Emulation.name = "kubernetes-emulation" /\ Emulation.after = {}
         /\ Emulation.runner = "kubernetes"
         /\ BaselineStage.name = "coinjoin-analysis"
         /\ BaselineStage.after = {"kubernetes-emulation"}
         /\ BaselineStage.runner = "pbs" /\ BaselineStage.kind = "baseline"
         /\ ParseStage.name = "blocksci-parse"
         /\ ParseStage.after = {"kubernetes-emulation"} /\ ParseStage.runner = "pbs" /\ ParseStage.kind = "parse"
         /\ MappingsStage(c).name = "coinjoin-mappings"
         /\ MappingsStage(c).after = {IF Given(c, "analysis") THEN "coinjoin-analysis" ELSE "kubernetes-emulation"}
         /\ MappingsStage(c).runner = "pbs" /\ MappingsStage(c).kind = "mappings"
         /\ ReportStage(c).name = "unified-report" /\ ReportStage(c).runner = "pbs" /\ ReportStage(c).kind = "report"
         /\ ReportStage(c).after = {s.name : s \in Analyzers(c)}
  <1>1. Emulation = [name |-> "kubernetes-emulation", kind |-> "emulation", runner |-> "kubernetes", after |-> {}]
    BY DEF Emulation, Stage
  <1>2. /\ BaselineStage = [name |-> "coinjoin-analysis", kind |-> "baseline", runner |-> "pbs", after |-> {"kubernetes-emulation"}]
        /\ ParseStage = [name |-> "blocksci-parse", kind |-> "parse", runner |-> "pbs", after |-> {"kubernetes-emulation"}]
    BY <1>1 DEF BaselineStage, ParseStage, Stage
  <1>3. MappingsStage(c) = [name |-> "coinjoin-mappings", kind |-> "mappings", runner |-> "pbs",
                            after |-> {IF Given(c, "analysis") THEN "coinjoin-analysis" ELSE "kubernetes-emulation"}]
    BY <1>1, <1>2 DEF MappingsStage, _mappings_stage, Stage
  <1>4. /\ ReportStage(c).name = "unified-report" /\ ReportStage(c).runner = "pbs" /\ ReportStage(c).kind = "report"
        /\ ReportStage(c).after = {s.name : s \in Analyzers(c)}
    BY DEF ReportStage, Stage
  <1> QED
    BY <1>1, <1>2, <1>3, <1>4

Parts(c) ==
    {Emulation} \cup (IF Given(c, "analysis") THEN {BaselineStage} ELSE {})
    \cup (IF HasParse(c) THEN {ParseStage} ELSE {}) \cup (IF HasWork(c) THEN {WorkStage(c)} ELSE {})
    \cup (IF Given(c, "mappings") THEN {MappingsStage(c)} ELSE {})
    \cup (IF runs_unified_report(c) THEN {ReportStage(c)} ELSE {})

AllParts(c) == {Emulation, BaselineStage, ParseStage, WorkStage(c), MappingsStage(c), ReportStage(c)}

\* Every plan is in order: its parts come behind those they depend on.
LEMMA PlanInOrder ==
  ASSUME NEW c, c.task \in Tasks
  PROVE  LET plan == s3_full_run_plan(c)
         IN plan \in Seq(AllParts(c)) /\ InOrder(plan) /\ Range(plan) = Parts(c)
  <1> DEFINE a == Given(c, "analysis")
             p == HasParse(c)
             w == HasWork(c)
             m == Given(c, "mappings")
             r == runs_unified_report(c)
             T == AllParts(c)
             plan0 == <<Emulation>>
             more1 == IF a THEN <<BaselineStage>> ELSE << >>
             plan1 == plan0 \o more1
             more2 == IF p THEN <<ParseStage>> ELSE << >>
             plan2 == plan1 \o more2
             more3 == IF w THEN <<WorkStage(c)>> ELSE << >>
             plan3 == plan2 \o more3
             more4 == IF m THEN <<MappingsStage(c)>> ELSE << >>
             plan4 == plan3 \o more4
             more5 == IF r THEN <<ReportStage(c)>> ELSE << >>
             plan5 == plan4 \o more5
  <1>Typed. /\ Emulation \in T /\ BaselineStage \in T /\ ParseStage \in T /\ WorkStage(c) \in T
            /\ MappingsStage(c) \in T /\ ReportStage(c) \in T
    BY DEF AllParts
  <1>1. s3_full_run_plan(c) = plan5
    BY PlanOfParts
  <1>2. a \in BOOLEAN /\ p \in BOOLEAN /\ w \in BOOLEAN /\ m \in BOOLEAN /\ r \in BOOLEAN
    BY DEF Given, HasParse, HasWork, runs_unified_report
  <1>3. w => WorkStage(c).name \in WorkStageNames
             /\ WorkStage(c).after = IF p THEN {"blocksci-parse"} ELSE {"kubernetes-emulation"}
    BY WorkName
  <1>4. plan0 \in Seq(T) /\ InOrder(plan0) /\ Range(plan0) = {Emulation} /\ Names(plan0) = {"kubernetes-emulation"}
    <2>1. plan0 \in Seq(T) /\ Range(plan0) = {Emulation}
      <3> HIDE DEF T
      <3> QED
        BY <1>Typed DEF Range
    <2>2. InOrder(plan0)
      BY StageFields DEF InOrder, Distinct, Topological
    <2>3. Names(plan0) = {"kubernetes-emulation"}
      BY <2>1, StageFields DEF Names
    <2> QED
      BY <2>1, <2>2, <2>3
  <1> HIDE DEF T, plan0
  <1>5. /\ plan1 \in Seq(T) /\ InOrder(plan1) /\ Range(plan1) = Range(plan0) \cup (IF a THEN {BaselineStage} ELSE {})
        /\ Names(plan1) = Names(plan0) \cup (IF a THEN {BaselineStage.name} ELSE {})
    <2>1. BaselineStage.name \notin Names(plan0) /\ BaselineStage.after \subseteq Names(plan0)
      BY <1>4, StageFields
    <2>2. more1 = IF a THEN <<BaselineStage>> ELSE << >>
      OBVIOUS
    <2> HIDE DEF a, more1
    <2> QED
      BY <1>2, <1>4, <1>Typed, <2>1, <2>2, AtMostOneMore
  <1> HIDE DEF plan1
  <1>6. /\ plan2 \in Seq(T) /\ InOrder(plan2) /\ Range(plan2) = Range(plan1) \cup (IF p THEN {ParseStage} ELSE {})
        /\ Names(plan2) = Names(plan1) \cup (IF p THEN {ParseStage.name} ELSE {})
    <2>1. ParseStage.name \notin Names(plan1) /\ ParseStage.after \subseteq Names(plan1)
      BY <1>4, <1>5, StageFields
    <2>2. more2 = IF p THEN <<ParseStage>> ELSE << >>
      OBVIOUS
    <2>3. p => ParseStage.name \notin Names(plan1) /\ ParseStage.after \subseteq Names(plan1)
      BY <2>1
    <2>4. plan1 \in Seq(T) /\ InOrder(plan1) /\ p \in BOOLEAN /\ ParseStage \in T
      BY <1>2, <1>5, <1>Typed
    <2> HIDE DEF p, more2
    <2> QED
      BY <2>2, <2>3, <2>4, AtMostOneMore
  <1> HIDE DEF plan2
  <1>7. /\ plan3 \in Seq(T) /\ InOrder(plan3) /\ Range(plan3) = Range(plan2) \cup (IF w THEN {WorkStage(c)} ELSE {})
        /\ Names(plan3) = Names(plan2) \cup (IF w THEN {WorkStage(c).name} ELSE {})
    <2>1. CASE w
      <3>1. WorkStage(c).name \notin Names(plan2) /\ WorkStage(c).after \subseteq Names(plan2)
        BY <1>3, <1>4, <1>5, <1>6, <2>1, StageFields DEF WorkStageNames
      <3>2. more3 = IF w THEN <<WorkStage(c)>> ELSE << >>
        OBVIOUS
      <3> HIDE DEF w, more3
      <3> QED
        BY <1>2, <1>6, <1>Typed, <3>1, <3>2, AtMostOneMore
    <2>2. CASE ~w
      BY <1>6, <2>2, ConcatEmptySeq
    <2> QED
      BY <2>1, <2>2
  <1> HIDE DEF plan3
  <1>8. /\ plan4 \in Seq(T) /\ InOrder(plan4) /\ Range(plan4) = Range(plan3) \cup (IF m THEN {MappingsStage(c)} ELSE {})
        /\ Names(plan4) = Names(plan3) \cup (IF m THEN {MappingsStage(c).name} ELSE {})
    <2>1. MappingsStage(c).name \notin Names(plan3) /\ MappingsStage(c).after \subseteq Names(plan3)
      BY <1>3, <1>4, <1>5, <1>6, <1>7, StageFields DEF WorkStageNames
    <2>2. more4 = IF m THEN <<MappingsStage(c)>> ELSE << >>
      OBVIOUS
    <2> HIDE DEF m, more4
    <2> QED
      BY SMTT(60), <1>2, <1>7, <1>Typed, <2>1, <2>2, AtMostOneMore
  <1> HIDE DEF plan4
  <1>9. /\ plan5 \in Seq(T) /\ InOrder(plan5) /\ Range(plan5) = Range(plan4) \cup (IF r THEN {ReportStage(c)} ELSE {})
    <2>1. ReportStage(c).name \notin Names(plan4)
      BY <1>3, <1>4, <1>5, <1>6, <1>7, <1>8, StageFields DEF WorkStageNames
    <2>2. ReportStage(c).after \subseteq Names(plan4)
      <3>1. Names(plan4) = {s.name : s \in Range(plan4)}
        BY DEF Names
      <3>2. Analyzers(c) \subseteq Range(plan4)
        BY <1>5, <1>6, <1>7, <1>8 DEF Analyzers
      <3> QED
        BY <3>1, <3>2, StageFields
    <2>3. more5 = IF r THEN <<ReportStage(c)>> ELSE << >>
      OBVIOUS
    <2> HIDE DEF r, more5
    <2> QED
      BY <1>2, <1>8, <1>Typed, <2>1, <2>2, <2>3, AtMostOneMore
  <1> HIDE DEF plan5
  <1>10. Range(plan5) = Parts(c)
    BY <1>4, <1>5, <1>6, <1>7, <1>8, <1>9 DEF Parts
  <1> QED
    BY <1>1, <1>9, <1>10 DEF T

\* The plan is submitted in the order it is written.
LEMMA SubmittedParts ==
  ASSUME NEW c, c.task \in Tasks
  PROVE  /\ Order(c) = s3_full_run_plan(c) /\ Range(s3_full_run_plan(c)) = Parts(c)
         /\ InOrder(s3_full_run_plan(c)) /\ s3_full_run_plan(c) \in Seq(AllParts(c))
         /\ scheduled(s3_full_run_plan(c)) = {i \in DOMAIN s3_full_run_plan(c) : s3_full_run_plan(c)[i].runner = "pbs"}
         /\ Submitted(c) = Parts(c) \ {Emulation}
  <1> DEFINE plan == s3_full_run_plan(c)
             T == AllParts(c)
  <1>1. plan \in Seq(T) /\ InOrder(plan) /\ Range(plan) = Parts(c)
    BY PlanInOrder
  <1> HIDE DEF plan, T
  <1>2. ordered(plan) = plan
    <2>1. Cardinality(Names(plan)) = Len(plan) /\ DOMAIN plan = 1..Len(plan) /\ Len(plan) \in Nat
      BY <1>1, DistinctNames, LenProperties DEF InOrder
    <2>2. \A s \in Range(plan) : s.after \subseteq Names(plan)
      <3> SUFFICES ASSUME NEW i \in DOMAIN plan
                   PROVE  plan[i].after \subseteq Names(plan)
        BY DEF Range
      <3>1. plan[i].after \subseteq {plan[j].name : j \in 1..(i - 1)}
        BY <1>1 DEF InOrder, Topological
      <3>2. \A j \in 1..(i - 1) : j \in DOMAIN plan
        BY <2>1
      <3> QED
        BY <3>1, <3>2 DEF Names, Range
    <2>3. Placed(plan) = plan
      BY <1>1, InOrderPlaced
    <2> QED
      BY <2>1, <2>2, <2>3 DEF ordered
  <1>3. \A s \in Parts(c) : s.runner = "pbs" <=> s # Emulation
    <2>1. Emulation.runner # "pbs"
      BY StageFields
    <2>2. HasWork(c) => WorkStage(c).runner = "pbs"
      BY WorkName
    <2> QED
      BY <2>1, <2>2, StageFields DEF Parts
  <1>4. scheduled(plan) = {i \in DOMAIN plan : plan[i].runner = "pbs"}
    BY <1>2 DEF scheduled
  <1>5. Order(c) = plan
    BY <1>2 DEF Order, plan
  <1>6. Submitted(c) = {plan[i] : i \in scheduled(plan)}
    BY <1>5 DEF Submitted, plan
  <1>7. Submitted(c) = Parts(c) \ {Emulation}
    <2>1. Parts(c) = {plan[i] : i \in DOMAIN plan}
      BY <1>1 DEF Range
    <2> QED
      BY <1>3, <1>4, <1>6, <2>1
  <1> QED
    BY <1>1, <1>4, <1>5, <1>7 DEF plan, T

\* A stage waits for those it names.
LEMMA Waits ==
  ASSUME NEW c, c.task \in Tasks,
         NEW s \in Parts(c), NEW t \in Parts(c), t.name \in s.after
  PROVE  /\ t \in Ancestors(s3_full_run_plan(c), s)
         /\ s.name \in Downstream(s3_full_run_plan(c), t.name)
  <1> DEFINE plan == s3_full_run_plan(c)
  <1>1. Range(plan) = Parts(c) /\ InOrder(plan) /\ plan \in Seq(AllParts(c))
    BY SubmittedParts
  <1> HIDE DEF plan
  <1>2. t.name \in Names(plan)
    BY <1>1 DEF Names
  <1>3. s.name \in Reached(plan, t.name)
    <2>1. t.name \in Reached(plan, t.name) /\ Closed(plan, Reached(plan, t.name))
      BY <1>2, Reaches
    <2> QED
      BY <1>1, <2>1 DEF Closed
  <1>4. s.name # t.name
    <2>1. DOMAIN plan = 1..Len(plan) /\ Len(plan) \in Nat
      BY <1>1, LenProperties
    <2>2. PICK i \in DOMAIN plan : s = plan[i]
      BY <1>1 DEF Range
    <2>3. s.after \subseteq {plan[j].name : j \in 1..(i - 1)}
      BY <1>1, <2>2 DEF InOrder, Topological
    <2>4. PICK j \in 1..(i - 1) : t.name = plan[j].name
      BY <2>3
    <2>5. j \in DOMAIN plan /\ j # i
      BY <2>1
    <2> QED
      BY <1>1, <2>2, <2>4, <2>5 DEF InOrder, Distinct
  <1>5. s.name \in Downstream(plan, t.name)
    BY <1>3, <1>4 DEF Downstream
  <1> QED
    BY <1>1, <1>5 DEF Ancestors, plan

\* What the rules say of the tasks BlockSci may have.
LEMMA TaskRules ==
  ASSUME NEW c, validate(c)
  PROVE  /\ c.task \in {"parse", "update"} =>
               /\ c.workflow = IF c.task = "parse" THEN "reusable" ELSE "cached"
               /\ blocksci_alone(c)
         /\ c.task \in {"script", "notebook", "backup", "external"} =>
               c.action = "pbs-from-s3" /\ c.workflow # "combined" /\ blocksci_alone(c)
         /\ c.task = "script" => c.script # None
         /\ c.task = "external" => Given(c, "external_baseline_uri")
         /\ c.task # "external" => ~Given(c, "external_false_cjtxs_uri")
         /\ c.coinjoin_analysis # None => c.given \cap {"blocksci", "mappings", "all_runs", "dumplings_uri"} = {}
  <1>1. c.task \in {"parse", "update"} =>
            /\ c.workflow = IF c.task = "parse" THEN "reusable" ELSE "cached"
            /\ blocksci_alone(c)
    <2>1. c.task \in {"parse", "update"} /\ c.workflow # (IF c.task = "parse" THEN "reusable" ELSE "cached")
          => "index_task_workflow" \in _blocksci_task_errors(c)
      BY DEF _blocksci_task_errors, Violated, Conditions
    <2>2. c.task \in {"parse", "update"} /\ ~blocksci_alone(c) => "index_task_alone" \in _blocksci_task_errors(c)
      BY DEF _blocksci_task_errors, Violated, Conditions
    <2> QED
      BY <2>1, <2>2, AcceptedByAll
  <1>2. c.task \in {"script", "notebook", "backup"} =>
            c.action = "pbs-from-s3" /\ c.workflow # "combined" /\ blocksci_alone(c)
    <2>1. c.task \in {"script", "notebook", "backup"} /\ (c.action # "pbs-from-s3" \/ c.workflow = "combined" \/ ~blocksci_alone(c))
          => "cached_task" \in _blocksci_task_errors(c)
      BY DEF _blocksci_task_errors, Violated, Conditions
    <2> QED
      BY <2>1, AcceptedByAll
  <1>3. c.task = "external" => c.action = "pbs-from-s3" /\ c.workflow # "combined" /\ blocksci_alone(c)
    <2>1. c.task = "external" /\ (c.action # "pbs-from-s3" \/ c.workflow = "combined")
          => "external_workflow" \in _external_baseline_errors(c)
      BY DEF _external_baseline_errors, Violated, Conditions
    <2>2. c.task = "external" /\ ~blocksci_alone(c) => "external_alone" \in _external_baseline_errors(c)
      BY DEF _external_baseline_errors, Violated, Conditions
    <2> QED
      BY <2>1, <2>2, AcceptedByAll
  <1>4. c.task = "script" => c.script # None
    <2>1. c.action = "pbs-from-s3" /\ c.task = "script" /\ c.script = None => "script_missing" \in _blocksci_task_errors(c)
      BY DEF _blocksci_task_errors, Violated, Conditions
    <2> QED
      BY <1>2, <2>1, AcceptedByAll
  <1>5. c.task = "external" => Given(c, "external_baseline_uri")
    <2>1. c.task = "external" /\ ~Given(c, "external_baseline_uri") => "external_baseline" \in _external_baseline_errors(c)
      BY DEF _external_baseline_errors, Violated, Conditions
    <2> QED
      BY <2>1, AcceptedByAll
  <1>6. c.task # "external" => ~Given(c, "external_false_cjtxs_uri")
    <2>1. c.task # "external" /\ Given(c, "external_false_cjtxs_uri") => "external_false" \in _external_baseline_errors(c)
      BY DEF _external_baseline_errors, Violated, Conditions
    <2> QED
      BY <2>1, AcceptedByAll
  <1>7. c.coinjoin_analysis # None => c.given \cap {"blocksci", "mappings", "all_runs", "dumplings_uri"} = {}
    <2>1. c.given \cap {"blocksci", "mappings", "all_runs", "dumplings_uri"} # {} => "tools_alone" \in _placement_errors(c)
      BY DEF _placement_errors, Conditions
    <2> QED
      BY <2>1, AcceptedByAll DEF option_errors
  <1> QED
    BY <1>1, <1>2, <1>3, <1>4, <1>5, <1>6, <1>7

GivenSources(c) == c.given \cap {"external_bitcoin_datadir", "bitcoin_blocks_uri", "external_blocksci_dir"}

\* What they say of the index a task works on and the source of a parse.
LEMMA IndexRules ==
  ASSUME NEW c, validate(c)
  PROVE  /\ c.task \in {"script", "external", "notebook", "update"} /\ c.cache_source_run_id # None =>
               c.cache_source_run_id # c.run_id
         /\ c.cache_source_run_id # None => c.task \notin {"detect", "parse", "backup"} /\ c.index_dir = None
         /\ c.cache_source_run_id # None /\ c.task \in {"script", "external", "notebook"} => c.workflow = "cached"
         /\ c.index_dir # None => c.task # "detect"
         /\ c.task = "backup" => c.index_dir # None /\ Given(c, "index_backup_uri")
         /\ c.task \notin {"parse", "update"} => GivenSources(c) = {}
  <1>1. c.task \in {"script", "external", "notebook", "update"} /\ c.cache_source_run_id # None =>
            c.cache_source_run_id # c.run_id
    <2>1. c.task \in {"script", "external", "notebook", "update"} /\ c.cache_source_run_id # None
          /\ c.cache_source_run_id = c.run_id => "source_is_target" \in _cache_source_errors(c)
      BY DEF _cache_source_errors, ReadOnlyCacheTasks, Violated, Conditions
    <2> QED
      BY <2>1, AcceptedByAll
  <1>2. c.cache_source_run_id # None => c.task \notin {"detect", "parse", "backup"}
    <2>1. c.cache_source_run_id # None /\ c.task \in {"detect", "parse", "backup"} => "source_unused" \in _cache_source_errors(c)
      BY DEF _cache_source_errors, Violated, Conditions
    <2> QED
      BY <2>1, AcceptedByAll
  <1>3. c.cache_source_run_id # None /\ c.task \in {"script", "external", "notebook"} => c.workflow = "cached"
    <2>1. c.cache_source_run_id # None /\ c.task \in {"script", "external", "notebook"} /\ c.workflow # "cached"
          => "source_needs_cached" \in _cache_source_errors(c)
      BY DEF _cache_source_errors, ReadOnlyCacheTasks, Violated, Conditions
    <2> QED
      BY <2>1, AcceptedByAll
  <1>4. c.index_dir # None => c.task # "detect"
    <2>1. c.index_dir # None /\ c.task = "detect" => "index_task" \in _persistent_index_errors(c)
      BY DEF _persistent_index_errors, Violated, Conditions
    <2> QED
      BY <2>1, AcceptedByAll
  <1>5. c.cache_source_run_id # None => c.index_dir = None
    <2>1. c.index_dir # None /\ c.cache_source_run_id # None => "one_index_source" \in _persistent_index_errors(c)
      BY DEF _persistent_index_errors, Violated, Conditions
    <2> QED
      BY <2>1, AcceptedByAll
  <1>6. c.task = "backup" => c.index_dir # None /\ Given(c, "index_backup_uri")
    <2>1. c.task = "backup" /\ c.index_dir = None => "backup_without_index" \in _persistent_index_errors(c)
      BY DEF _persistent_index_errors, Violated, Conditions
    <2>2. c.task = "backup" /\ c.index_dir # None /\ ~Given(c, "index_backup_uri")
          => "backup_target" \in _persistent_index_errors(c)
      BY DEF _persistent_index_errors, Violated, Conditions
    <2> QED
      BY <2>1, <2>2, AcceptedByAll
  <1>7. c.task \notin {"parse", "update"} => GivenSources(c) = {}
    <2>1. c.task \notin {"parse", "update"} /\ GivenSources(c) # {} => "source_task" \in _blocksci_source_errors(c)
      BY DEF GivenSources, _blocksci_source_errors, Violated, Conditions
    <2> QED
      BY <2>1, AcceptedByAll
  <1> QED
    BY <1>1, <1>2, <1>3, <1>4, <1>5, <1>6, <1>7
-----------------------------------------------------------------------------
(***************************************************************************)
(* The jobs of an accepted configuration.                                  *)
(***************************************************************************)
Makes(work) == work.writes \cup work.kept

\* What the baseline analysis reads and writes.
LEMMA AnalysisJob ==
  ASSUME NEW c, Submission(c), Given(c, "analysis")
  PROVE  LET work == JobOf(c, BaselineStage)
         IN /\ ~work.refused /\ work.needs \subseteq {Run("coinjoin_emulator_data"), <<"dumplings", "Scanner">>}
            /\ Makes(work) = IF c.coinjoin_analysis = None THEN {Baseline} ELSE {Run("coinjoin-analysis_tools")}
            /\ c.task = "detect" /\ c.index_dir = None /\ c.cache_source_run_id = None /\ GivenSources(c) = {}
            /\ Given(c, "blocksci") \/ Given(c, "mappings") => c.coinjoin_analysis = None
  <1>1. JobOf(c, BaselineStage) = _analysis(c)
    BY StageFields DEF JobOf
  <1>2. c.task = "detect"
    BY TaskRules DEF Submission, Tasks, blocksci_alone
  <1>3. c.index_dir = None /\ c.cache_source_run_id = None /\ GivenSources(c) = {}
    BY <1>2, IndexRules DEF Submission
  <1>4. Given(c, "blocksci") \/ Given(c, "mappings") => c.coinjoin_analysis = None
    BY TaskRules DEF Submission, Given
  <1>5. CASE c.coinjoin_analysis # None
    <2>1. _analysis(c) = Job({}, {}, {Run("coinjoin-analysis_tools")})
      BY <1>5 DEF _analysis
    <2>2. /\ ~_analysis(c).refused /\ _analysis(c).needs = {}
          /\ Makes(_analysis(c)) = {Run("coinjoin-analysis_tools")}
      BY <2>1 DEF Job, Refused, Makes
    <2> QED
      BY <1>1, <1>2, <1>3, <1>4, <1>5, <2>2
  <1>6. CASE c.coinjoin_analysis = None
    <2>1. _analysis(c) = Job({<<"dumplings", "Scanner">>}, {Baseline}, {})
          \/ _analysis(c) = Job({Run("coinjoin_emulator_data")}, {Baseline}, {})
      BY <1>6 DEF _analysis, dumplings_baseline, coinjoin_analysis
    <2>2. /\ ~_analysis(c).refused /\ _analysis(c).needs \subseteq {Run("coinjoin_emulator_data"), <<"dumplings", "Scanner">>}
          /\ Makes(_analysis(c)) = {Baseline}
      <3>1. CASE _analysis(c) = Job({<<"dumplings", "Scanner">>}, {Baseline}, {})
        BY <3>1 DEF Job, Refused, Makes
      <3>2. CASE _analysis(c) = Job({Run("coinjoin_emulator_data")}, {Baseline}, {})
        BY <3>2 DEF Job, Refused, Makes
      <3> QED
        BY <2>1, <3>1, <3>2
    <2> QED
      BY <1>1, <1>2, <1>3, <1>4, <1>6, <2>2
  <1> QED
    BY <1>5, <1>6

\* What a parse reads and writes, and when its renderer refuses.
LEMMA ParseJob ==
  ASSUME NEW c, Submission(c), HasParse(c)
  PROVE  LET work == JobOf(c, ParseStage)
         IN /\ \/ work.refused /\ work.needs = {} /\ Makes(work) = {}
               \/ /\ ~work.refused /\ Exporters \in work.needs
                  /\ work.needs \subseteq {Exporters} \cup (IF GivenSources(c) = {} THEN Emulated ELSE {})
                  /\ GivenSources(c) = {} => c.index_dir = None
                  /\ Makes(work) = {IF c.index_dir = None THEN Index ELSE Persistent}
            /\ c.task # "parse" => work.refused = (c.index_dir # None)
            /\ GivenSources(c) # {} => c.task = "parse"
            /\ c.task \in {"detect", "parse", "script", "notebook", "external", "backup"}
            /\ c.task # "parse" /\ c.index_dir = None => work.writes = {Index}
  <1> DEFINE source == _parse_source(c)
             inputs == {Exporters} \cup (IF source = "emulator" THEN Emulated ELSE {})
             bad == source = None \/ (c.index_dir # None /\ source \notin {"external_bitcoin_datadir", "bitcoin_blocks_uri"})
             work == JobOf(c, ParseStage)
  <1>1. work = IF bad THEN Refused ELSE Job(inputs, {IF c.index_dir = None THEN Index ELSE Persistent}, {})
    BY StageFields DEF JobOf, _parse
  <1>2. c.task \in {"detect", "parse", "script", "notebook", "external", "backup"}
    BY DEF Submission, Tasks, HasParse
  <1>3. GivenSources(c) # {} => c.task = "parse"
    BY <1>2, IndexRules DEF Submission
  <1>4. GivenSources(c) = {} => source = "emulator"
    <2> SUFFICES ASSUME GivenSources(c) = {}
                 PROVE  source = "emulator"
      OBVIOUS
    <2>1. ~(Cardinality(GivenSources(c)) > 1)
      BY FS_EmptySet
    <2>2. ~BitcoinSource(c) /\ ~Given(c, "bitcoin_blocks_uri")
      BY DEF GivenSources, BitcoinSource, Given
    <2> QED
      BY <2>1, <2>2 DEF _parse_source, GivenSources
  <1>5. source = "emulator" => GivenSources(c) = {}
    <2> SUFFICES ASSUME GivenSources(c) # {}
                 PROVE  source # "emulator"
      OBVIOUS
    <2>1. (CHOOSE s \in GivenSources(c) : TRUE) \in GivenSources(c)
      OBVIOUS
    <2>2. "emulator" \notin GivenSources(c) /\ None # "emulator"
      BY NoneAssumption DEF GivenSources, ParseSources
    <2>3. source \in {None, CHOOSE s \in GivenSources(c) : TRUE}
      BY DEF _parse_source, GivenSources
    <2> QED
      BY <2>1, <2>2, <2>3
  <1>6. None # "emulator"
    BY NoneAssumption DEF ParseSources
  <1> HIDE DEF source, work
  <1>7. CASE bad
    <2>1. work.refused /\ work.needs = {} /\ Makes(work) = {} /\ work.refused = TRUE
      BY <1>1, <1>7 DEF Job, Refused, Makes
    <2>2. c.task # "parse" => c.index_dir # None
      BY <1>3, <1>4, <1>6, <1>7
    <2> QED
      BY <1>2, <1>3, <2>1, <2>2 DEF work
  <1>8. CASE ~bad
    <2>1. ~work.refused /\ work.refused = FALSE /\ work.needs = inputs /\ Makes(work) = {IF c.index_dir = None THEN Index ELSE Persistent}
          /\ work.writes = {IF c.index_dir = None THEN Index ELSE Persistent}
      <3> DEFINE made == {IF c.index_dir = None THEN Index ELSE Persistent}
      <3>1. work = Job(inputs, made, {})
        BY <1>1, <1>8
      <3> HIDE DEF inputs, made
      <3>2. ~work.refused /\ work.refused = FALSE /\ work.needs = inputs /\ Makes(work) = made /\ work.writes = made
        BY <3>1 DEF Job, Refused, Makes
      <3> QED
        BY <3>2 DEF made
    <2>2. GivenSources(c) = {} => c.index_dir = None
      BY <1>4, <1>8
    <2>3. c.task # "parse" => c.index_dir = None
      BY <1>3, <2>2
    <2>4. Exporters \in inputs /\ inputs \subseteq {Exporters} \cup (IF GivenSources(c) = {} THEN Emulated ELSE {})
      BY <1>5
    <2> QED
      BY <1>2, <1>3, <2>1, <2>2, <2>3, <2>4 DEF work
  <1> QED
    BY <1>7, <1>8

\* What an update reads and writes.
LEMMA UpdateJob ==
  ASSUME NEW c, Submission(c), HasWork(c), c.task = "update"
  PROVE  LET work == JobOf(c, WorkStage(c))
         IN \/ work.needs = {} /\ Makes(work) = {}
            \/ c.index_dir # None /\ work.needs = {Exporters, Persistent} /\ Makes(work) = {Persistent}
            \/ /\ c.cache_source_run_id # None
               /\ work.needs = {Exporters, Source("blocksci-parse_data")} /\ Makes(work) = {Index}
  <1>1. JobOf(c, WorkStage(c)) = _update(c)
    BY WorkName DEF Submission, JobOf
  <1>2. \/ _update(c) = Refused
        \/ c.index_dir # None /\ _update(c) = Job({Exporters, Persistent}, {Persistent}, {})
        \/ /\ c.cache_source_run_id # None
           /\ _update(c) = Job({Exporters, Source("blocksci-parse_data")}, {Index}, {})
    BY DEF _update
  <1>3. CASE _update(c) = Refused
    BY <1>1, <1>3 DEF Refused, Makes
  <1>4. CASE c.index_dir # None /\ _update(c) = Job({Exporters, Persistent}, {Persistent}, {})
    BY <1>1, <1>4 DEF Job, Makes
  <1>5. CASE c.cache_source_run_id # None /\ _update(c) = Job({Exporters, Source("blocksci-parse_data")}, {Index}, {})
    BY <1>1, <1>5 DEF Job, Makes
  <1> QED
    BY <1>2, <1>3, <1>4, <1>5

\* What a combined part reads and writes.
LEMMA CombinedJob ==
  ASSUME NEW c, Submission(c), HasWork(c), c.task # "update", c.workflow = "combined"
  PROVE  LET work == JobOf(c, WorkStage(c))
         IN /\ ~work.refused /\ work.needs = Emulated \cup {Exporters} /\ Makes(work) = {Index, Analysis}
            /\ c.task = "detect" /\ c.index_dir = None /\ GivenSources(c) = {}
  <1>1. c.task = "detect"
    BY TaskRules DEF Submission, Tasks
  <1>2. c.index_dir = None /\ GivenSources(c) = {}
    BY <1>1, IndexRules DEF Submission
  <1>3. WorkStage(c).kind = "work" /\ WorkStage(c).name = "blocksci"
    BY WorkName DEF Submission
  <1>4. JobOf(c, WorkStage(c)) = blocksci(c)
    BY <1>1, <1>3 DEF JobOf, _blocksci_work
  <1>5. blocksci(c) = Job(Emulated \cup {Exporters} \cup {}, {Index, Analysis}, {})
    BY <1>1 DEF blocksci, HasWork
  <1> QED
    BY <1>1, <1>2, <1>4, <1>5 DEF Job, Makes

\* What a backup reads and writes.
LEMMA BackupJob ==
  ASSUME NEW c, Submission(c), HasWork(c), c.task = "backup"
  PROVE  LET work == JobOf(c, WorkStage(c))
         IN /\ ~work.refused /\ work.needs = {Persistent} /\ Makes(work) = {<<"persistent", "backup">>}
            /\ c.index_dir # None
  <1>1. WorkStage(c).kind = "work"
    BY WorkName DEF Submission
  <1>2. c.index_dir # None /\ Given(c, "index_backup_uri")
    BY IndexRules DEF Submission
  <1>3. JobOf(c, WorkStage(c)) = Job({Persistent}, {<<"persistent", "backup">>}, {})
    BY <1>1, <1>2 DEF JobOf, _blocksci_work
  <1> QED
    BY <1>2, <1>3 DEF Job, Makes

\* The outputs of the modes of an analysis.
ModeInputs(c) ==
    IF c.task = "detect" THEN {Exporters, Run("coinjoin_emulator_data")}
    ELSE IF c.task = "external" THEN {Exporters, <<"external", "baseline">>} ELSE {}
ModeOutput(c) ==
    IF c.task = "detect" THEN Analysis ELSE IF c.task = "external" THEN ReportDir
    ELSE IF c.task = "script" THEN Run("blocksci-custom_data") ELSE Run("blocksci-notebooks")

\* What the other BlockSci jobs read and write.
LEMMA AnalyzeJob ==
  ASSUME NEW c, Submission(c), HasWork(c), c.task \notin {"update", "backup"}, c.workflow # "combined"
  PROVE  LET work == JobOf(c, WorkStage(c))
             index == IF c.index_dir # None THEN Persistent
                      ELSE IF c.cache_source_run_id # None THEN Source("blocksci-parse_data") ELSE Index
         IN /\ ~work.refused /\ work.needs = ModeInputs(c) \cup {index} /\ Makes(work) = {ModeOutput(c)}
            /\ c.task \in {"detect", "external", "script", "notebook"} /\ GivenSources(c) = {}
            /\ c.task = "detect" => c.index_dir = None
            /\ c.index_dir = None /\ c.cache_source_run_id = None /\ c.workflow # "cached" => HasParse(c)
  <1> DEFINE index == IF c.index_dir # None THEN Persistent
                      ELSE IF c.cache_source_run_id # None THEN Source("blocksci-parse_data") ELSE Index
  <1>1. c.task \in {"detect", "external", "script", "notebook"}
    BY DEF Submission, Tasks, HasWork
  <1>2. GivenSources(c) = {} /\ (c.task = "detect" => c.index_dir = None)
    BY <1>1, IndexRules DEF Submission
  <1>3. WorkStage(c).kind = "work" /\ WorkStage(c).name # "blocksci"
    BY WorkName DEF Submission
  <1>4. JobOf(c, WorkStage(c)) = blocksci_analysis(c)
    BY <1>1, <1>3 DEF JobOf, _blocksci_work
  <1>5. analysis_mode_settings(c) = [inputs |-> ModeInputs(c), output |-> ModeOutput(c)]
    BY <1>1 DEF analysis_mode_settings, ModeInputs, ModeOutput
  <1>6. blocksci_analysis(c) = Job(ModeInputs(c) \cup {index}, {}, {ModeOutput(c)})
    <2>1. ~(c.cache_source_run_id # None /\ c.index_dir # None)
      BY IndexRules DEF Submission
    <2>2. ~(c.task = "detect" /\ (c.cache_source_run_id # None \/ c.index_dir # None))
      BY IndexRules DEF Submission
    <2>3. ~(c.task # "external" /\ Given(c, "external_false_cjtxs_uri"))
      BY TaskRules DEF Submission
    <2>4. ~(c.cache_source_run_id # None /\ c.cache_source_run_id = c.run_id)
      BY <1>1, <2>2, IndexRules DEF Submission
    <2>5. ~(c.task = "external" /\ ~Given(c, "external_baseline_uri")) /\ ~(c.task = "script" /\ c.script = None)
      BY TaskRules DEF Submission
    <2>6. analysis_mode_settings(c).inputs = ModeInputs(c) /\ analysis_mode_settings(c).output = ModeOutput(c)
      BY <1>5
    <2> QED
      BY <2>1, <2>2, <2>3, <2>4, <2>5, <2>6 DEF blocksci_analysis
  <1>7. c.index_dir = None /\ c.cache_source_run_id = None /\ c.workflow # "cached" => HasParse(c)
    BY DEF Submission, Workflows, HasParse, HasWork
  <1> HIDE DEF index
  <1>8. LET work == JobOf(c, WorkStage(c))
        IN ~work.refused /\ work.needs = ModeInputs(c) \cup {index} /\ Makes(work) = {ModeOutput(c)}
    BY <1>4, <1>6 DEF Job, Makes
  <1> QED
    BY <1>1, <1>2, <1>7, <1>8 DEF index

\* What the mappings and the report read and write.
LEMMA LastJobs ==
  ASSUME NEW c
  PROVE  /\ LET work == JobOf(c, MappingsStage(c))
            IN ~work.refused /\ work.needs = {Baseline} /\ Makes(work) = {Mappings}
         /\ LET work == JobOf(c, ReportStage(c))
            IN /\ ~work.refused /\ Makes(work) = {ReportDir}
               /\ work.needs = {Exporters, Run("coinjoin_emulator_data"), Baseline, Analysis}
                              \cup (IF Given(c, "mappings") THEN {Mappings} ELSE {})
  <1>1. JobOf(c, MappingsStage(c)) = Job({Baseline}, {}, {Mappings})
    BY StageFields DEF JobOf, coinjoin_mappings
  <1>2. JobOf(c, ReportStage(c)) = Job({Exporters, Run("coinjoin_emulator_data"), Baseline, Analysis}
                                       \cup (IF Given(c, "mappings") THEN {Mappings} ELSE {}), {ReportDir}, {})
    BY StageFields DEF JobOf, unified_report
  <1> QED
    BY <1>1, <1>2 DEF Job, Makes

\* What is added behind two stages leaves them first.
LEMMA FirstTwo ==
  ASSUME NEW T, NEW p \in Seq(T), Len(p) = 2 \/ Len(p) > 2, NEW q \in Seq(T)
  PROVE  p \o q \in Seq(T) /\ (Len(p \o q) = 2 \/ Len(p \o q) > 2) /\ (p \o q)[1] = p[1] /\ (p \o q)[2] = p[2]
  <1>1. p \o q \in Seq(T) /\ Len(p \o q) = Len(p) + Len(q) /\ Len(p) \in Nat /\ Len(q) \in Nat
    BY ConcatProperties, LenProperties
  <1>2. \A i \in 1..(Len(p) + Len(q)) : (p \o q)[i] = IF i <= Len(p) THEN p[i] ELSE q[i - Len(p)]
    BY ConcatProperties
  <1> QED
    BY <1>1, <1>2

\* Without the baseline the parse comes first, and the work of a plan without parse.
LEMMA SecondPlace ==
  ASSUME NEW c, ~Given(c, "analysis"), NEW x, \/ HasParse(c) /\ x = ParseStage
                                              \/ ~HasParse(c) /\ HasWork(c) /\ x = WorkStage(c)
  PROVE  s3_full_run_plan(c)[1] = Emulation /\ s3_full_run_plan(c)[2] = x
  <1> DEFINE T == AllParts(c)
             parse == IF HasParse(c) THEN <<ParseStage>> ELSE << >>
             work == IF HasWork(c) THEN <<WorkStage(c)>> ELSE << >>
             mappings == IF Given(c, "mappings") THEN <<MappingsStage(c)>> ELSE << >>
             report == IF runs_unified_report(c) THEN <<ReportStage(c)>> ELSE << >>
  <1>1. s3_full_run_plan(c) = <<Emulation>> \o << >> \o parse \o work \o mappings \o report
    BY PlanOfParts
  <1>2. parse \in Seq(T) /\ work \in Seq(T) /\ mappings \in Seq(T) /\ report \in Seq(T)
        /\ <<Emulation>> \in Seq(T) /\ x \in T /\ Emulation \in T
    <2>1. ParseStage \in T /\ WorkStage(c) \in T /\ MappingsStage(c) \in T /\ ReportStage(c) \in T /\ Emulation \in T
      BY DEF AllParts
    <2> HIDE DEF T
    <2>2. << >> \in Seq(T) /\ <<ParseStage>> \in Seq(T) /\ <<WorkStage(c)>> \in Seq(T) /\ <<MappingsStage(c)>> \in Seq(T)
          /\ <<ReportStage(c)>> \in Seq(T) /\ <<Emulation>> \in Seq(T)
      BY <2>1
    <2> QED
      BY <2>1, <2>2
  <1>3. <<Emulation>> \o << >> = <<Emulation>>
    BY <1>2, ConcatEmptySeq
  <1> HIDE DEF T, mappings, report
  <1>4. <<Emulation>> \o <<x>> \in Seq(T) /\ Len(<<Emulation>> \o <<x>>) = 2
        /\ (<<Emulation>> \o <<x>>)[1] = Emulation /\ (<<Emulation>> \o <<x>>)[2] = x
    BY <1>2
  <1> DEFINE two == <<Emulation>> \o <<x>>
  <1>5. (<<Emulation>> \o parse) \o work \in Seq(T)
        /\ (Len((<<Emulation>> \o parse) \o work) = 2 \/ Len((<<Emulation>> \o parse) \o work) > 2)
        /\ ((<<Emulation>> \o parse) \o work)[1] = Emulation /\ ((<<Emulation>> \o parse) \o work)[2] = x
    <2>1. CASE HasParse(c)
      <3>1. <<Emulation>> \o parse = two
        BY <2>1
      <3> HIDE DEF two, work, parse
      <3>2. two \o work \in Seq(T) /\ (Len(two \o work) = 2 \/ Len(two \o work) > 2)
            /\ (two \o work)[1] = two[1] /\ (two \o work)[2] = two[2]
        BY <1>2, <1>4, FirstTwo DEF two
      <3> QED
        BY <1>4, <3>1, <3>2 DEF two
    <2>2. CASE ~HasParse(c)
      <3>1. <<Emulation>> \o parse = <<Emulation>>
        BY <1>3, <2>2
      <3>2. work = <<x>>
        BY <2>2
      <3> QED
        BY <1>4, <3>1, <3>2
    <2> QED
      BY <2>1, <2>2
  <1> DEFINE plan3 == (<<Emulation>> \o parse) \o work
             plan4 == plan3 \o mappings
  <1>6. plan3 \in Seq(T) /\ (Len(plan3) = 2 \/ Len(plan3) > 2) /\ plan3[1] = Emulation /\ plan3[2] = x
    BY <1>5
  <1> HIDE DEF plan3
  <1>7. plan4 \in Seq(T) /\ (Len(plan4) = 2 \/ Len(plan4) > 2) /\ plan4[1] = Emulation /\ plan4[2] = x
    BY <1>2, <1>6, FirstTwo
  <1> HIDE DEF plan4
  <1>8. (plan4 \o report)[1] = plan4[1] /\ (plan4 \o report)[2] = plan4[2]
    BY <1>2, <1>7, FirstTwo
  <1> QED
    BY <1>1, <1>3, <1>7, <1>8 DEF plan3, plan4

\* Only the first part may be refused.
LEMMA RefusedFirst ==
  ASSUME NEW c, Submission(c)
  PROVE  RefusedBeforeTheFirstJob(c)
  <1> DEFINE plan == s3_full_run_plan(c)
  <1>1. /\ Order(c) = plan /\ Range(plan) = Parts(c) /\ InOrder(plan) /\ plan \in Seq(AllParts(c))
        /\ scheduled(plan) = {i \in DOMAIN plan : plan[i].runner = "pbs"}
    BY SubmittedParts DEF Submission
  <1>2. DOMAIN plan = 1..Len(plan) /\ Len(plan) \in Nat
    <2> HIDE DEF plan
    <2> QED
      BY <1>1, LenProperties
  <1> SUFFICES ASSUME NEW i \in DOMAIN plan, NEW j \in DOMAIN plan, plan[i].runner = "pbs", plan[j].runner = "pbs", i < j
               PROVE  ~JobOf(c, plan[j]).refused
    BY <1>1 DEF RefusedBeforeTheFirstJob
  <1> HIDE DEF plan
  <1>3. plan[j] \in Parts(c) /\ plan[j] # Emulation /\ plan[i] # Emulation
    BY <1>1, StageFields DEF Range
  <1>4. ASSUME NEW x, ~Given(c, "analysis"), \/ HasParse(c) /\ x = ParseStage
                                             \/ ~HasParse(c) /\ HasWork(c) /\ x = WorkStage(c)
        PROVE  plan[j] # x
    <2>1. plan[1] = Emulation /\ plan[2] = x
      BY <1>4, SecondPlace DEF plan
    <2>2. 2 \in DOMAIN plan
      BY <1>2
    <2>3. plan[j] = x => j = 2
      BY <1>1, <2>1, <2>2 DEF InOrder, Distinct
    <2>4. i = 1 \/ i > 1
      BY <1>2
    <2> QED
      BY <1>2, <1>3, <2>1, <2>3, <2>4
  <1>5. CASE plan[j] = BaselineStage /\ Given(c, "analysis")
    BY <1>5, AnalysisJob
  <1>6. CASE plan[j] = ParseStage /\ HasParse(c)
    <2>1. Given(c, "analysis")
      BY <1>4, <1>6
    <2>2. c.task = "detect" /\ c.index_dir = None
      BY <2>1, AnalysisJob
    <2>3. JobOf(c, ParseStage).refused = FALSE
      BY <1>6, <2>2, ParseJob
    <2> QED
      BY <1>6, <2>3
  <1>7. CASE plan[j] = WorkStage(c) /\ HasWork(c)
    <2>1. CASE c.task = "update"
      <3>1. ~HasParse(c) /\ ~Given(c, "analysis")
        BY <2>1, TaskRules DEF HasParse, Submission, blocksci_alone
      <3> QED
        BY <1>4, <1>7, <3>1
    <2>2. CASE c.task # "update" /\ c.workflow = "combined"
      BY <1>7, <2>2, CombinedJob
    <2>3. CASE c.task = "backup"
      BY <1>7, <2>3, BackupJob
    <2>4. CASE c.task \notin {"update", "backup"} /\ c.workflow # "combined"
      BY <1>7, <2>4, AnalyzeJob
    <2> QED
      BY <2>1, <2>2, <2>3, <2>4
  <1>8. CASE plan[j] = MappingsStage(c)
    BY <1>8, LastJobs
  <1>9. CASE plan[j] = ReportStage(c)
    BY <1>9, LastJobs
  <1> QED
    BY <1>3, <1>5, <1>6, <1>7, <1>8, <1>9 DEF Parts

\* What is there before the jobs.
AtHand(c) == CheckedInputs(c) \cup StagedInputs(c) \cup World(c)

\* What every accepted configuration has at hand before its first part.
LEMMA FoundAtHand ==
  ASSUME NEW c, Submission(c)
  PROVE  /\ <<"dumplings", "Scanner">> \in AtHand(c) /\ <<"external", "baseline">> \in AtHand(c)
         /\ c.index_dir # None => Persistent \in AtHand(c)
         /\ c.workflow = "cached" /\ c.cache_source_run_id = None => Index \in AtHand(c)
         /\ GivenSources(c) = {} /\ c.index_dir = None /\ ~(c.task = "external" /\ c.workflow = "cached") =>
              Emulated \cup {Exporters} \subseteq AtHand(c)
         /\ Run("coinjoin_emulator_data") \in Emulated
         /\ c.cache_source_run_id # None => Source("blocksci-parse_data") \in AtHand(c)
         /\ ~Given(c, "analysis") /\ (Given(c, "mappings") \/ runs_unified_report(c)) => Baseline \in AtHand(c)
         /\ Given(c, "blocksci") /\ (c.workflow = "combined" \/ c.task \in {"detect", "external", "parse", "update"})
              => Exporters \in AtHand(c)
  <1>1. <<"dumplings", "Scanner">> \in World(c) /\ <<"external", "baseline">> \in World(c)
    BY DEF World
  <1>2. c.index_dir # None => Persistent \in World(c)
    BY DEF World
  <1>3. c.workflow = "cached" /\ c.cache_source_run_id = None => Index \in World(c)
    BY DEF World
  <1>4. GivenSources(c) = {} /\ c.index_dir = None /\ ~(c.task = "external" /\ c.workflow = "cached") =>
            Emulated \cup {Exporters} \subseteq World(c)
    <2>1. GivenSources(c) = {} => ~BitcoinSource(c) /\ ~Given(c, "external_blocksci_dir")
      BY DEF GivenSources, BitcoinSource, Given
    <2> QED
      BY <2>1 DEF World
  <1>5. Run("coinjoin_emulator_data") \in Emulated
    BY DEF Emulated
  <1>6. c.cache_source_run_id # None => Source("blocksci-parse_data") \in CheckedInputs(c)
    BY DEF CheckedInputs
  <1>7. ~Given(c, "analysis") /\ (Given(c, "mappings") \/ runs_unified_report(c)) => Baseline \in CheckedInputs(c)
    <2>1. Range(s3_full_run_plan(c)) = Parts(c)
      BY SubmittedParts DEF Submission
    <2>2. Given(c, "mappings") => MappingsStage(c) \in Parts(c) /\ MappingsStage(c).kind = "mappings"
      BY StageFields DEF Parts
    <2>3. runs_unified_report(c) => ReportStage(c) \in Parts(c) /\ ReportStage(c).kind = "report"
      BY StageFields DEF Parts
    <2>4. Given(c, "mappings") \/ runs_unified_report(c)
          => \E s \in Range(s3_full_run_plan(c)) : s.kind \in {"report", "mappings"}
      BY <2>1, <2>2, <2>3
    <2> QED
      BY <2>4 DEF CheckedInputs
  <1>8. Given(c, "blocksci") /\ (c.workflow = "combined" \/ c.task \in {"detect", "external", "parse", "update"})
        => Exporters \in StagedInputs(c)
    BY DEF StagedInputs, pbs_stages_need_exporters
  <1> QED
    BY <1>1, <1>2, <1>3, <1>4, <1>5, <1>6, <1>7, <1>8 DEF AtHand

Made(c, s) == UNION {JobOf(c, t).writes \cup JobOf(c, t).kept : t \in Ancestors(s3_full_run_plan(c), s) \ {Emulation}}

\* What a stage makes is there for the stages that wait for it.
LEMMA MadeAtHand ==
  ASSUME NEW c, Submission(c),
         NEW s \in Parts(c), NEW t \in Parts(c), t # Emulation, t.name \in s.after
  PROVE  Makes(JobOf(c, t)) \subseteq Made(c, s)
  <1>1. t \in Ancestors(s3_full_run_plan(c), s)
    BY Waits DEF Submission
  <1> QED
    BY <1>1 DEF Made, Makes

\* The report finds its inputs.
LEMMA InputsOfReport ==
  ASSUME NEW c, Submission(c), runs_unified_report(c)
  PROVE  JobOf(c, ReportStage(c)).needs \subseteq Made(c, ReportStage(c)) \cup AtHand(c)
  <1> DEFINE s == ReportStage(c)
  <1>1. c.task = "detect" /\ Given(c, "blocksci") /\ HasWork(c) /\ s \in Parts(c)
    BY DEF runs_unified_report, HasWork, Parts
  <1>2. Analyzers(c) \subseteq Parts(c) /\ s.after = {t.name : t \in Analyzers(c)}
    BY StageFields DEF Analyzers, Parts
  <1>3. \A t \in Analyzers(c) : t # Emulation
    BY WorkName, StageFields DEF Analyzers, Submission, WorkStageNames
  <1>4. \A t \in Analyzers(c) : Makes(JobOf(c, t)) \subseteq Made(c, s)
    <2> SUFFICES ASSUME NEW t \in Analyzers(c)
                 PROVE  Makes(JobOf(c, t)) \subseteq Made(c, s)
      OBVIOUS
    <2>1. t \in Parts(c) /\ t # Emulation /\ t.name \in s.after
      BY <1>2, <1>3
    <2> HIDE DEF s
    <2> QED
      BY <1>1, <2>1, MadeAtHand
  <1>5. Exporters \in AtHand(c) /\ Run("coinjoin_emulator_data") \in AtHand(c)
    <2>1. GivenSources(c) = {} /\ c.index_dir = None
      BY <1>1, IndexRules DEF Submission
    <2> QED
      BY <1>1, <2>1, FoundAtHand
  <1>6. Baseline \in Made(c, s) \cup AtHand(c)
    <2>1. CASE Given(c, "analysis")
      <3>1. BaselineStage \in Analyzers(c)
        BY <2>1 DEF Analyzers
      <3>2. Makes(JobOf(c, BaselineStage)) = {Baseline}
        BY <1>1, <2>1, AnalysisJob
      <3> QED
        BY <1>4, <3>1, <3>2
    <2>2. CASE ~Given(c, "analysis")
      BY <2>2, FoundAtHand
    <2> QED
      BY <2>1, <2>2
  <1>7. Analysis \in Made(c, s)
    <2>1. WorkStage(c) \in Analyzers(c)
      BY <1>1 DEF Analyzers
    <2>2. Analysis \in Makes(JobOf(c, WorkStage(c)))
      <3>1. CASE c.workflow = "combined"
        BY <1>1, <3>1, CombinedJob
      <3>2. CASE c.workflow # "combined"
        <4>1. Makes(JobOf(c, WorkStage(c))) = {ModeOutput(c)}
          BY <1>1, <3>2, AnalyzeJob
        <4> QED
          BY <1>1, <4>1 DEF ModeOutput
      <3> QED
        BY <3>1, <3>2
    <2> QED
      BY <1>4, <2>1, <2>2
  <1>8. Given(c, "mappings") => Mappings \in Made(c, s)
    <2>1. Given(c, "mappings") => MappingsStage(c) \in Analyzers(c)
      BY DEF Analyzers
    <2>2. Mappings \in Makes(JobOf(c, MappingsStage(c)))
      BY LastJobs
    <2> QED
      BY <1>4, <2>1, <2>2
  <1>9. JobOf(c, s).needs = {Exporters, Run("coinjoin_emulator_data"), Baseline, Analysis}
                            \cup (IF Given(c, "mappings") THEN {Mappings} ELSE {})
    BY LastJobs
  <1> HIDE DEF s
  <1>10. JobOf(c, s).needs \subseteq Made(c, s) \cup AtHand(c)
    BY <1>5, <1>6, <1>7, <1>8, <1>9
  <1> QED
    BY <1>10 DEF s

\* The work stage finds its inputs.
LEMMA InputsOfWork ==
  ASSUME NEW c, Submission(c), HasWork(c)
  PROVE  JobOf(c, WorkStage(c)).needs \subseteq Made(c, WorkStage(c)) \cup AtHand(c)
  <1> DEFINE s == WorkStage(c)
  <1>1. Given(c, "blocksci") /\ s \in Parts(c)
    BY DEF HasWork, Parts
  <1>2. CASE c.task = "update"
    <2>1. Exporters \in AtHand(c)
      BY <1>1, <1>2, FoundAtHand
    <2>2. c.index_dir # None => Persistent \in AtHand(c)
      BY FoundAtHand
    <2>3. c.cache_source_run_id # None => Source("blocksci-parse_data") \in AtHand(c)
      BY FoundAtHand
    <2> QED
      BY <1>2, <2>1, <2>2, <2>3, UpdateJob
  <1>3. CASE c.task # "update" /\ c.workflow = "combined"
    <2>1. JobOf(c, s).needs = Emulated \cup {Exporters} /\ c.task = "detect" /\ c.index_dir = None /\ GivenSources(c) = {}
      BY <1>3, CombinedJob
    <2>2. Emulated \cup {Exporters} \subseteq AtHand(c)
      BY <2>1, FoundAtHand
    <2> QED
      BY <2>1, <2>2
  <1>4. CASE c.task = "backup"
    <2>1. JobOf(c, s).needs = {Persistent} /\ c.index_dir # None
      BY <1>4, BackupJob
    <2>2. Persistent \in AtHand(c)
      BY <2>1, FoundAtHand
    <2> QED
      BY <2>1, <2>2
  <1>5. CASE c.task \notin {"update", "backup"} /\ c.workflow # "combined"
    <2> DEFINE index == IF c.index_dir # None THEN Persistent
                        ELSE IF c.cache_source_run_id # None THEN Source("blocksci-parse_data") ELSE Index
    <2>1. /\ JobOf(c, s).needs = ModeInputs(c) \cup {index}
          /\ c.task \in {"detect", "external", "script", "notebook"} /\ GivenSources(c) = {}
          /\ c.task = "detect" => c.index_dir = None
          /\ c.index_dir = None /\ c.cache_source_run_id = None /\ c.workflow # "cached" => HasParse(c)
      BY <1>5, AnalyzeJob
    <2>2. ModeInputs(c) \subseteq AtHand(c)
      <3>1. CASE c.task = "detect"
        BY <1>1, <2>1, <3>1, FoundAtHand DEF ModeInputs
      <3>2. CASE c.task = "external"
        BY <1>1, <3>2, FoundAtHand DEF ModeInputs
      <3>3. CASE c.task \in {"script", "notebook"}
        BY <3>3 DEF ModeInputs
      <3> QED
        BY <2>1, <3>1, <3>2, <3>3
    <2>3. index \in Made(c, s) \cup AtHand(c)
      <3>1. CASE c.index_dir # None
        BY <3>1, FoundAtHand
      <3>2. CASE c.index_dir = None /\ c.cache_source_run_id # None
        BY <3>2, FoundAtHand
      <3>3. CASE c.index_dir = None /\ c.cache_source_run_id = None /\ c.workflow = "cached"
        BY <3>3, FoundAtHand
      <3>4. CASE c.index_dir = None /\ c.cache_source_run_id = None /\ c.workflow # "cached"
        <4>1. HasParse(c) /\ c.task # "parse"
          BY <2>1, <3>4
        <4>2. Index \in Makes(JobOf(c, ParseStage))
          BY <3>4, <4>1, ParseJob DEF Makes
        <4>3. ParseStage \in Parts(c) /\ ParseStage # Emulation
          BY <4>1, StageFields DEF Parts
        <4>4. ParseStage.name \in s.after
          BY <4>1, WorkName, StageFields DEF Submission
        <4>5. Makes(JobOf(c, ParseStage)) \subseteq Made(c, s)
          <5> HIDE DEF s
          <5> QED
            BY <1>1, <4>3, <4>4, MadeAtHand
        <4> QED
          BY <3>4, <4>2, <4>5
      <3> QED
        BY <3>1, <3>2, <3>3, <3>4
    <2> HIDE DEF index, s
    <2>4. JobOf(c, s).needs \subseteq Made(c, s) \cup AtHand(c)
      BY <2>1, <2>2, <2>3
    <2> QED
      BY <2>4 DEF s
  <1> QED
    BY <1>2, <1>3, <1>4, <1>5

\* Every part of an accepted configuration finds its inputs (s3_submission.py:293-322).
LEMMA InputsAreFound ==
  ASSUME NEW c, Submission(c)
  PROVE  JobsFindTheirInputs(c)
  <1> SUFFICES ASSUME NEW s \in Submitted(c)
               PROVE  JobOf(c, s).needs \subseteq Made(c, s) \cup AtHand(c)
    BY DEF JobsFindTheirInputs, Made, AtHand
  <1>1. s \in Parts(c) /\ s # Emulation
    BY SubmittedParts DEF Submission
  <1>2. CASE Given(c, "analysis") /\ s = BaselineStage
    <2>1. JobOf(c, s).needs \subseteq {Run("coinjoin_emulator_data"), <<"dumplings", "Scanner">>}
          /\ c.task = "detect" /\ c.index_dir = None /\ GivenSources(c) = {}
      BY <1>2, AnalysisJob
    <2>2. <<"dumplings", "Scanner">> \in AtHand(c) /\ Run("coinjoin_emulator_data") \in AtHand(c)
      BY <2>1, FoundAtHand
    <2> QED
      BY <2>1, <2>2
  <1>3. CASE HasParse(c) /\ s = ParseStage
    <2>1. JobOf(c, s).needs = {} \/ /\ JobOf(c, s).needs \subseteq {Exporters} \cup (IF GivenSources(c) = {} THEN Emulated ELSE {})
                                    /\ GivenSources(c) = {} => c.index_dir = None
                                    /\ GivenSources(c) # {} => c.task = "parse"
      BY <1>3, ParseJob
    <2>2. c.workflow = "reusable" /\ Given(c, "blocksci")
      BY <1>3 DEF HasParse
    <2>3. CASE GivenSources(c) = {}
      BY <2>1, <2>2, <2>3, FoundAtHand
    <2>4. CASE GivenSources(c) # {}
      BY <2>1, <2>2, <2>4, FoundAtHand
    <2> QED
      BY <2>3, <2>4
  <1>4. CASE HasWork(c) /\ s = WorkStage(c)
    BY <1>4, InputsOfWork
  <1>5. CASE Given(c, "mappings") /\ s = MappingsStage(c)
    <2>1. JobOf(c, s).needs = {Baseline}
      BY <1>5, LastJobs
    <2>2. CASE Given(c, "analysis")
      <3>1. Makes(JobOf(c, BaselineStage)) = {Baseline}
        BY <1>5, <2>2, AnalysisJob
      <3>2. BaselineStage \in Parts(c) /\ BaselineStage # Emulation /\ BaselineStage.name \in s.after
        BY <1>5, <2>2, StageFields DEF Parts
      <3>3. Makes(JobOf(c, BaselineStage)) \subseteq Made(c, s)
        BY <1>1, <3>2, MadeAtHand
      <3> QED
        BY <2>1, <3>1, <3>3
    <2>3. CASE ~Given(c, "analysis")
      <3>1. Baseline \in AtHand(c)
        BY <1>5, <2>3, FoundAtHand
      <3> QED
        BY <2>1, <3>1
    <2> QED
      BY <2>2, <2>3
  <1>6. CASE runs_unified_report(c) /\ s = ReportStage(c)
    BY <1>6, InputsOfReport
  <1> QED
    BY <1>1, <1>2, <1>3, <1>4, <1>5, <1>6 DEF Parts

Tools == Run("coinjoin-analysis_tools")
Backup == <<"persistent", "backup">>
Custom == Run("blocksci-custom_data")
Notebooks == Run("blocksci-notebooks")
External == <<"external", "baseline">>
Scanner == <<"dumplings", "Scanner">>
Cache == Source("blocksci-parse_data")

\* The directories differ from each other, and no part writes what was there before.
LEMMA DirectoriesDiffer ==
  /\ Baseline \notin {Tools, Mappings, Index, Persistent, Analysis, Backup, ReportDir, Custom, Notebooks, Exporters, External, Cache, Scanner}
  /\ Tools \notin {Mappings, Index, Persistent, Analysis, Backup, ReportDir, Custom, Notebooks, Exporters, External, Cache, Scanner}
  /\ Mappings \notin {Index, Persistent, Analysis, Backup, ReportDir, Custom, Notebooks, Exporters, External, Cache, Scanner}
  /\ Index \notin {Persistent, Analysis, Backup, ReportDir, Custom, Notebooks, Exporters, External, Cache, Scanner}
  /\ Persistent \notin {Analysis, Backup, ReportDir, Custom, Notebooks, Exporters, External, Cache, Scanner}
  /\ Analysis \notin {Backup, ReportDir, Custom, Notebooks, Exporters, External, Cache, Scanner}
  /\ Backup \notin {ReportDir, Custom, Notebooks, Exporters, External, Cache, Scanner}
  /\ ReportDir \notin {Custom, Notebooks, Exporters, External, Cache, Scanner}
  /\ Emulated \cap {Baseline, Tools, Mappings, Index, Persistent, Analysis, Backup, ReportDir} = {}
  BY DEF Run, Source, Tools, Backup, Custom, Notebooks, External, Scanner, Cache, Baseline, Mappings, Index, Persistent,
         Analysis, ReportDir, Exporters, Emulated

\* What the work stage may write, and what it can read.
LEMMA WorkMakes ==
  ASSUME NEW c, Submission(c), HasWork(c)
  PROVE  LET work == JobOf(c, WorkStage(c))
         IN /\ Makes(work) \subseteq {Persistent, Index, Analysis, Backup, ReportDir, Custom, Notebooks}
            /\ HasParse(c) => Makes(work) \cap {Persistent, Index} = {}
            /\ runs_unified_report(c) => ReportDir \notin Makes(work)
            /\ work.needs \subseteq Emulated \cup {Exporters, External, Cache, Persistent, Index}
  <1>1. CASE c.task = "update"
    <2>1. ~HasParse(c) /\ ~runs_unified_report(c)
      BY <1>1 DEF HasParse, runs_unified_report
    <2>2. LET work == JobOf(c, WorkStage(c))
          IN Makes(work) \subseteq {Persistent, Index} /\ work.needs \subseteq {Exporters, Persistent, Cache}
      BY <1>1, UpdateJob DEF Cache
    <2> QED
      BY <2>1, <2>2
  <1>2. CASE c.task # "update" /\ c.workflow = "combined"
    <2>1. ~HasParse(c)
      BY <1>2 DEF HasParse
    <2>2. LET work == JobOf(c, WorkStage(c)) IN Makes(work) = {Index, Analysis} /\ work.needs = Emulated \cup {Exporters}
      BY <1>2, CombinedJob
    <2> QED
      BY <2>1, <2>2, DirectoriesDiffer
  <1>3. CASE c.task = "backup"
    <2>1. ~runs_unified_report(c)
      BY <1>3 DEF runs_unified_report
    <2>2. LET work == JobOf(c, WorkStage(c)) IN Makes(work) = {Backup} /\ work.needs = {Persistent}
      BY <1>3, BackupJob DEF Backup
    <2> QED
      BY <2>1, <2>2, DirectoriesDiffer
  <1>4. CASE c.task \notin {"update", "backup"} /\ c.workflow # "combined"
    <2>1. LET work == JobOf(c, WorkStage(c))
          IN /\ Makes(work) = {ModeOutput(c)}
             /\ work.needs \subseteq ModeInputs(c) \cup {Persistent, Cache, Index}
      BY <1>4, AnalyzeJob DEF Cache
    <2>2. ModeInputs(c) \subseteq Emulated \cup {Exporters, External}
      BY DEF ModeInputs, Emulated, External
    <2>3. ModeOutput(c) \in {Analysis, ReportDir, Custom, Notebooks}
      BY DEF ModeOutput, Custom, Notebooks
    <2>4. runs_unified_report(c) => ModeOutput(c) = Analysis
      BY DEF ModeOutput, runs_unified_report
    <2> QED
      BY <2>1, <2>2, <2>3, <2>4, DirectoriesDiffer
  <1> QED
    BY <1>1, <1>2, <1>3, <1>4

\* What each stage of a plan writes, needs and waits for.
LEMMA StageData ==
  ASSUME NEW c, Submission(c)
  PROVE  LET Out(s) == Makes(JobOf(c, s))
         IN /\ Given(c, "analysis") =>
                 /\ Out(BaselineStage) \subseteq {Baseline, Tools}
                 /\ JobOf(c, BaselineStage).needs \subseteq Emulated \cup {Scanner}
            /\ HasParse(c) =>
                 /\ Out(ParseStage) \subseteq {Index, Persistent}
                 /\ JobOf(c, ParseStage).needs \subseteq Emulated \cup {Exporters}
            /\ Out(MappingsStage(c)) = {Mappings} /\ JobOf(c, MappingsStage(c)).needs = {Baseline}
            /\ Out(ReportStage(c)) = {ReportDir}
            /\ JobOf(c, ReportStage(c)).needs \subseteq Emulated \cup {Exporters, Baseline, Analysis, Mappings}
  <1>1. Given(c, "analysis") => /\ Makes(JobOf(c, BaselineStage)) \subseteq {Baseline, Tools}
                                /\ JobOf(c, BaselineStage).needs \subseteq Emulated \cup {Scanner}
    BY AnalysisJob DEF Tools, Scanner, Emulated
  <1>2. HasParse(c) => /\ Makes(JobOf(c, ParseStage)) \subseteq {Index, Persistent}
                       /\ JobOf(c, ParseStage).needs \subseteq Emulated \cup {Exporters}
    BY ParseJob
  <1>3. Makes(JobOf(c, MappingsStage(c))) = {Mappings} /\ JobOf(c, MappingsStage(c)).needs = {Baseline}
    BY LastJobs
  <1>4. /\ Makes(JobOf(c, ReportStage(c))) = {ReportDir}
        /\ JobOf(c, ReportStage(c)).needs \subseteq Emulated \cup {Exporters, Baseline, Analysis, Mappings}
    BY LastJobs DEF Emulated
  <1> QED
    BY <1>1, <1>2, <1>3, <1>4

\* No two stages of a plan write to one place.
LEMMA OutputsApart ==
  ASSUME NEW c, Submission(c), NEW s \in Parts(c) \ {Emulation}, NEW t \in Parts(c) \ {Emulation}, s # t
  PROVE  Makes(JobOf(c, s)) \cap Makes(JobOf(c, t)) = {}
  <1> DEFINE Out(x) == Makes(JobOf(c, x))
             work == {Persistent, Index, Analysis, Backup, ReportDir, Custom, Notebooks}
             In(x) == \/ x = BaselineStage /\ Out(x) \subseteq {Baseline, Tools}
                      \/ x = ParseStage /\ Out(x) \subseteq {Index, Persistent} /\ HasParse(c)
                      \/ x = WorkStage(c) /\ Out(x) \subseteq work /\ (HasParse(c) => Out(x) \cap {Persistent, Index} = {})
                                          /\ (runs_unified_report(c) => ReportDir \notin Out(x))
                      \/ x = MappingsStage(c) /\ Out(x) = {Mappings}
                      \/ x = ReportStage(c) /\ Out(x) = {ReportDir} /\ runs_unified_report(c)
  <1>1. ASSUME NEW x \in Parts(c) \ {Emulation}
        PROVE  In(x)
    <2>1. CASE Given(c, "analysis") /\ x = BaselineStage
      BY <2>1, StageData
    <2>2. CASE HasParse(c) /\ x = ParseStage
      BY <2>2, StageData
    <2>3. CASE HasWork(c) /\ x = WorkStage(c)
      BY <2>3, WorkMakes
    <2>4. CASE x = MappingsStage(c)
      BY <2>4, StageData
    <2>5. CASE runs_unified_report(c) /\ x = ReportStage(c)
      BY <2>5, StageData
    <2> QED
      BY <2>1, <2>2, <2>3, <2>4, <2>5 DEF Parts
  <1>2. In(s) /\ In(t)
    BY <1>1
  <1> HIDE DEF Out
  <1>3. Out(s) \cap Out(t) = {}
    BY <1>2, DirectoriesDiffer
  <1> QED
    BY <1>3 DEF Out

\* A part that reads what another one writes waits for it.
LEMMA ReadersWait ==
  ASSUME NEW c, Submission(c), NEW s \in Parts(c) \ {Emulation}, NEW t \in Parts(c) \ {Emulation},
         s # t, Makes(JobOf(c, s)) \cap JobOf(c, t).needs # {}
  PROVE  s.name \in t.after
  <1> DEFINE Out(x) == Makes(JobOf(c, x))
             In(x) == JobOf(c, x).needs
             work == {Persistent, Index, Analysis, Backup, ReportDir, Custom, Notebooks}
             made == {Baseline, Tools, Mappings} \cup work
  <1>1. made \cap (Emulated \cup {Exporters, Scanner, External, Cache}) = {}
    BY DEF Run, Source, Tools, Backup, Custom, Notebooks, External, Scanner, Cache, Baseline, Mappings, Index, Persistent,
           Analysis, ReportDir, Exporters, Emulated
  <1>2. ASSUME NEW x \in Parts(c) \ {Emulation}
        PROVE  \/ x = BaselineStage /\ Given(c, "analysis") /\ Out(x) \subseteq {Baseline, Tools} /\ In(x) \cap made = {}
               \/ x = ParseStage /\ HasParse(c) /\ Out(x) \subseteq {Index, Persistent} /\ In(x) \cap made = {}
               \/ /\ x = WorkStage(c) /\ HasWork(c) /\ Out(x) \subseteq work
                  /\ In(x) \cap made \subseteq {Persistent, Index}
               \/ x = MappingsStage(c) /\ Given(c, "mappings") /\ Out(x) = {Mappings} /\ In(x) = {Baseline}
               \/ /\ x = ReportStage(c) /\ runs_unified_report(c) /\ Out(x) = {ReportDir}
                  /\ In(x) \cap made \subseteq {Baseline, Analysis, Mappings}
    <2> HIDE DEF work
    <2>1. CASE Given(c, "analysis") /\ x = BaselineStage
      BY <1>1, <2>1, StageData
    <2>2. CASE HasParse(c) /\ x = ParseStage
      BY <1>1, <2>2, StageData
    <2>3. CASE HasWork(c) /\ x = WorkStage(c)
      BY <1>1, <2>3, WorkMakes DEF work
    <2>4. CASE Given(c, "mappings") /\ x = MappingsStage(c)
      BY <2>4, StageData
    <2>5. CASE runs_unified_report(c) /\ x = ReportStage(c)
      BY <1>1, <2>5, StageData
    <2> QED
      BY <2>1, <2>2, <2>3, <2>4, <2>5 DEF Parts
  <1>3. PICK d \in made : d \in Out(s) /\ d \in In(t)
    <2>1. PICK d : d \in Out(s) /\ d \in In(t)
      OBVIOUS
    <2>2. Out(s) \subseteq made
      <3> HIDE DEF Out, In
      <3> QED
        BY <1>2
    <2> QED
      BY <2>1, <2>2
  <1> HIDE DEF Out, In
  <1>4. CASE t = MappingsStage(c) /\ d = Baseline
    <2>1. s = BaselineStage /\ Given(c, "analysis")
      BY <1>2, <1>3, <1>4, DirectoriesDiffer
    <2> QED
      BY <1>4, <2>1, StageFields
  <1>5. CASE t = WorkStage(c) /\ HasWork(c) /\ d \in {Persistent, Index}
    <2>1. s = ParseStage /\ HasParse(c)
      BY <1>2, <1>3, <1>5, DirectoriesDiffer
    <2> QED
      BY <1>5, <2>1, StageFields, WorkName DEF Submission
  <1>6. CASE t = ReportStage(c) /\ d \in {Baseline, Analysis, Mappings}
    <2>1. \/ s = BaselineStage /\ Given(c, "analysis")
          \/ s = WorkStage(c) /\ HasWork(c)
          \/ s = MappingsStage(c) /\ Given(c, "mappings")
      BY <1>2, <1>3, <1>6, DirectoriesDiffer
    <2>2. s \in Analyzers(c)
      BY <2>1 DEF Analyzers
    <2> QED
      BY <1>6, <2>2, StageFields
  <1> QED
    BY <1>2, <1>3, <1>4, <1>5, <1>6

\* Jobs that may run at the same time share no directory one of them writes.
LEMMA NoJobsRace ==
  ASSUME NEW c, Submission(c)
  PROVE  JobsDoNotRace(c)
  <1> DEFINE plan == s3_full_run_plan(c)
             Out(s) == JobOf(c, s).writes \cup JobOf(c, s).kept
             Ordered(s, t) == t.name \in Downstream(plan, s.name) \/ s.name \in Downstream(plan, t.name)
  <1> SUFFICES ASSUME NEW s \in Submitted(c), NEW t \in Submitted(c), s # t
               PROVE  Out(s) \cap Out(t) = {} /\ (~Ordered(s, t) => Out(s) \cap JobOf(c, t).needs = {})
    BY DEF JobsDoNotRace
  <1>1. s \in Parts(c) \ {Emulation} /\ t \in Parts(c) \ {Emulation}
    BY SubmittedParts DEF Submission
  <1>2. Out(s) \cap Out(t) = {}
    BY <1>1, OutputsApart DEF Makes
  <1>3. s.name \in t.after => Ordered(s, t)
    BY <1>1, Waits DEF Submission
  <1>4. Out(s) \cap JobOf(c, t).needs # {} => s.name \in t.after
    BY <1>1, ReadersWait DEF Makes
  <1> HIDE DEF Out, Ordered
  <1> QED
    BY <1>2, <1>3, <1>4

\* The plan of every configuration the rules accept: its jobs find what they read, written before
\* them or at hand from the start (s3_submission.py:293-322), no two write to one place or read
\* what the other still writes (stages.py:244-285), and what a renderer refuses it refuses while
\* no job has run (templates_s3.py:333-481).
THEOREM PlanHolds ==
  ASSUME NEW c, Submission(c)
  PROVE  JobsFindTheirInputs(c) /\ JobsDoNotRace(c) /\ RefusedBeforeTheFirstJob(c)
  BY InputsAreFound, NoJobsRace, RefusedFirst
-----------------------------------------------------------------------------
(***************************************************************************)
(* The block files of a parse or an update.                                *)
(***************************************************************************)
\* A bounded set of heights has a highest one.
LEMMA MaxOfBounded ==
  ASSUME NEW S \in SUBSET Nat, S # {}, NEW bound \in Nat, \A x \in S : x <= bound
  PROVE  Max(S) \in S /\ \A x \in S : x <= Max(S)
  <1> DEFINE T == {k \in Nat : \E x \in S : k = bound - x}
  <1>1. T # {} /\ T \subseteq Nat
    <2>1. PICK x \in S : x <= bound
      OBVIOUS
    <2>2. bound - x \in T
      BY <2>1
    <2> QED
      BY <2>2
  <1>2. PICK k \in T : \A j \in T : ~(<<j, k>> \in OpToRel(<, Nat))
    BY <1>1, NatLessThanWellFounded, WFMin
  <1>3. PICK x \in S : k = bound - x
    OBVIOUS
  <1>4. \A y \in S : x >= y
    <2> SUFFICES ASSUME NEW y \in S, ~(x >= y)
                 PROVE  FALSE
      OBVIOUS
    <2>1. bound - y \in T /\ bound - y < k
      BY <1>3
    <2>2. <<bound - y, k>> \in OpToRel(<, Nat)
      BY <1>1, <2>1 DEF OpToRel
    <2> QED
      BY <1>2, <2>1, <2>2
  <1> HIDE DEF T
  <1>5. \A y \in S : Max(S) >= y
    BY <1>4 DEF Max
  <1>6. Max(S) \in S
    BY <1>4 DEF Max
  <1> QED
    BY <1>5, <1>6


\* A finite set of heights has a highest one.
LEMMA FiniteMax ==
  ASSUME NEW S \in SUBSET Nat, S # {}, IsFiniteSet(S)
  PROVE  Max(S) \in S /\ \A x \in S : x <= Max(S)
  <1>1. PICK n \in Nat : ExistsSurjection(1..n, S)
    BY FS_NatSurjection
  <1>2. PICK f \in [1..n -> S] : \A x \in S : \E i \in 1..n : f[i] = x
    BY <1>1 DEF ExistsSurjection, Surjection
  <1> DEFINE T == {k \in 0..n : \E b \in Nat : \A j \in 1..k : f[j] <= b}
  <1>3. 0 \in T
    OBVIOUS
  <1>4. ASSUME NEW k \in 0..(n - 1), k \in T
        PROVE  k + 1 \in T
    <2>1. PICK b \in Nat : \A j \in 1..k : f[j] <= b
      BY <1>4
    <2>2. f[k + 1] \in Nat /\ \A j \in 1..(k + 1) : j \in 1..k \/ j = k + 1
      <3>1. k + 1 \in 1..n /\ k \in Nat
        OBVIOUS
      <3>2. f[k + 1] \in S
        BY <1>2, <3>1
      <3>3. f[k + 1] \in Nat
        BY <3>2
      <3>4. \A j \in 1..(k + 1) : j \in 1..k \/ j = k + 1
        BY <3>1
      <3> QED
        BY <3>3, <3>4
    <2> DEFINE top == b + f[k + 1]
    <2>3. \A j \in 1..(k + 1) : f[j] \in Nat
      <3>1. 1..(k + 1) \subseteq 1..n
        OBVIOUS
      <3> QED
        BY <1>2, <3>1
    <2>4. \A j \in 1..(k + 1) : f[j] <= top
      BY <2>1, <2>2, <2>3
    <2>5. top \in Nat
      BY <2>2
    <2> HIDE DEF top
    <2>6. k + 1 \in 0..n
      OBVIOUS
    <2> QED
      BY <2>4, <2>5, <2>6
  <1> HIDE DEF T
  <1>5. n \in T
    <2>1. n \in 0..n
      OBVIOUS
    <2> QED
      BY <1>3, <1>4, <2>1, UpTo
  <1>6. PICK b \in Nat : \A j \in 1..n : f[j] <= b
    BY <1>5 DEF T
  <1>7. \A x \in S : x <= b
    BY <1>2, <1>6
  <1> QED
    BY <1>7, MaxOfBounded

\* Where the sweep is after some of the ranges.
LEMMA PastRanges ==
  ASSUME NEW from \in Nat, NEW pairs \in SUBSET (Nat \X Nat), IsFiniteSet(pairs)
  PROVE  /\ Past(from, pairs) \in Nat /\ from <= Past(from, pairs)
         /\ \A p \in pairs : p[2] + 1 <= Past(from, pairs)
         /\ Past(from, pairs) = from \/ \E p \in pairs : Past(from, pairs) = p[2] + 1
  <1> DEFINE ends == {p[2] + 1 : p \in pairs}
             S == {from} \cup ends
             f == [p \in pairs |-> p[2] + 1]
  <1>1. f \in Surjection(pairs, ends)
    BY DEF Surjection
  <1>2. IsFiniteSet(ends)
    <2> HIDE DEF f, ends
    <2> QED
      BY <1>1, FS_Surjection DEF ExistsSurjection
  <1>3. S \in SUBSET Nat /\ S # {}
    OBVIOUS
  <1>4. IsFiniteSet(S)
    <2> HIDE DEF ends
    <2> QED
      BY <1>2, FS_Singleton, FS_Union
  <1>5. Max(S) \in S /\ \A x \in S : x <= Max(S)
    <2> HIDE DEF S
    <2> QED
      BY <1>3, <1>4, FiniteMax
  <1> QED
    BY <1>3, <1>5 DEF Past

\* Some range comes first.
LEMMA FirstRange ==
  ASSUME NEW S \in SUBSET (Nat \X Nat), S # {}
  PROVE  \E p \in S : \A q \in S : ~Before(q, p)
  <1> DEFINE starts == {p[1] : p \in S}
  <1>1. Min(starts) \in starts /\ \A x \in starts : Min(starts) <= x
    <2>1. starts \in SUBSET Nat /\ starts # {}
      OBVIOUS
    <2> HIDE DEF starts
    <2> QED
      BY <2>1, Least
  <1> DEFINE ends == {p[2] : p \in {q \in S : q[1] = Min(starts)}}
  <1>2. Min(ends) \in ends /\ \A x \in ends : Min(ends) <= x
    <2>1. ends \in SUBSET Nat /\ ends # {}
      BY <1>1
    <2> HIDE DEF ends
    <2> QED
      BY <2>1, Least
  <1>3. PICK p \in S : p[1] = Min(starts) /\ p[2] = Min(ends)
    BY <1>2
  <1>4. \A q \in S : p[1] <= q[1] /\ (q[1] = p[1] => p[2] <= q[2])
    BY <1>1, <1>2, <1>3
  <1> HIDE DEF starts, ends
  <1>5. \A q \in S : ~Before(q, p)
    BY <1>4 DEF Before
  <1> QED
    BY <1>5

\* The sweep passes exactly when the ranges hold every height from its start to the target.
LEMMA SweepCovers ==
  ASSUME NEW from \in Nat, NEW pairs \in SUBSET (Nat \X Nat), IsFiniteSet(pairs), NEW max \in Nat
  PROVE  (\A h \in from..max : \E p \in pairs : p[1] <= h /\ h <= p[2])
            <=> (Past(from, Swept(from, pairs)) > max \/ from > max)
  <1> DEFINE swept == Swept(from, pairs)
             next == Past(from, swept)
  <1>1. \A S \in SUBSET pairs : IsFiniteSet(S) /\ S \in SUBSET (Nat \X Nat)
    BY FS_Subset
  <1>2. swept \in SUBSET pairs /\ \A p \in pairs : {q \in pairs : Before(q, p)} \in SUBSET pairs
    BY DEF Swept
  <1> HIDE DEF swept
  <1>3. /\ next \in Nat /\ from <= next /\ \A p \in swept : p[2] + 1 <= next
        /\ next = from \/ \E p \in swept : next = p[2] + 1
    BY <1>1, <1>2, PastRanges
  <1> HIDE DEF next
  <1>4. ASSUME next > max, NEW h \in from..max
        PROVE  \E p \in pairs : p[1] <= h /\ h <= p[2]
    <2> DEFINE Q == {q \in swept : h <= q[2]}
    <2>1. Q # {} /\ Q \in SUBSET (Nat \X Nat)
      BY <1>1, <1>2, <1>3, <1>4
    <2>2. PICK q \in Q : \A e \in Q : ~Before(e, q)
      <3> HIDE DEF Q
      <3> QED
        BY <2>1, FirstRange
    <2> DEFINE earlier == {e \in pairs : Before(e, q)}
    <2>3. q \in pairs /\ Joins(from, pairs, q)
      <3>1. ~Before(q, q)
        BY <2>1, <2>2 DEF Before
      <3> QED
        BY <1>2, <2>2, <3>1 DEF Swept, swept
    <2>4. \A e \in earlier : e \in swept /\ e[2] < h
      <3> SUFFICES ASSUME NEW e \in earlier
                   PROVE  e \in swept /\ e[2] < h
        OBVIOUS
      <3>1. e \in pairs /\ Before(e, q) /\ e \in Nat \X Nat /\ q \in Nat \X Nat
        BY <1>1, <2>3
      <3>2. \A d \in pairs : ~Before(e, d) => ~Before(q, d)
        <4> SUFFICES ASSUME NEW d \in pairs, Before(q, d)
                     PROVE  Before(e, d)
          OBVIOUS
        <4>1. d \in Nat \X Nat
          BY <1>1
        <4> QED
          BY <3>1, <4>1 DEF Before
      <3>3. e \in swept
        BY <2>2, <3>1, <3>2 DEF Swept, swept
      <3>4. e \notin Q
        BY <2>2, <3>1
      <3> QED
        BY <3>1, <3>3, <3>4
    <2>5. q[1] <= Past(from, earlier)
      BY <2>3 DEF Joins
    <2>6. Past(from, earlier) = from \/ \E p \in earlier : Past(from, earlier) = p[2] + 1
      BY <1>1, <1>2, <2>3, PastRanges
    <2> HIDE DEF earlier
    <2>7. q[1] <= h
      <3>1. \A e \in earlier : e[2] \in Nat
        BY <1>1, <1>2, <2>4
      <3>2. Past(from, earlier) <= h /\ Past(from, earlier) \in Nat
        BY <2>4, <2>6, <3>1
      <3>3. q[1] \in Nat
        BY <1>1, <2>3
      <3> QED
        BY <2>5, <3>2, <3>3
    <2> QED
      BY <2>2, <2>3, <2>7
  <1>5. ASSUME \A h \in from..max : \E p \in pairs : p[1] <= h /\ h <= p[2], ~(next > max), ~(from > max)
        PROVE  FALSE
    <2>1. next \in from..max
      BY <1>3, <1>5
    <2>2. PICK p \in pairs : p[1] <= next /\ next <= p[2]
      BY <1>5, <2>1
    <2>3. p \in Nat \X Nat /\ p \notin swept
      BY <1>1, <1>3, <2>2
    <2> DEFINE S == {q \in pairs : ~Before(p, q) /\ ~Joins(from, pairs, q)}
    <2>4. S # {} /\ S \in SUBSET (Nat \X Nat)
      BY <1>1, <2>3 DEF Swept, swept
    <2>5. PICK q \in S : \A e \in S : ~Before(e, q)
      <3> HIDE DEF S
      <3> QED
        BY <2>4, FirstRange
    <2>6. q \in pairs /\ q \in Nat \X Nat /\ ~Before(p, q) /\ ~Joins(from, pairs, q)
      BY <2>4, <2>5
    <2> DEFINE earlier == {e \in pairs : Before(e, q)}
    <2>7. /\ Past(from, earlier) \in Nat /\ from <= Past(from, earlier)
          /\ \A e \in earlier : e[2] + 1 <= Past(from, earlier)
      BY <1>1, <1>2, <2>6, PastRanges
    <2>8. Past(from, earlier) < q[1]
      BY <2>6, <2>7 DEF Joins
    <2>9. \A e \in swept : e \in earlier
      <3> SUFFICES ASSUME NEW e \in swept
                   PROVE  Before(e, q)
        BY <1>2
      <3> QED
        BY <2>6 DEF Swept, swept
    <2> HIDE DEF earlier
    <2>10. next <= Past(from, earlier)
      BY <1>3, <2>7, <2>9
    <2>11. q[1] <= p[1]
      BY <2>3, <2>6 DEF Before
    <2> QED
      BY <1>3, <2>2, <2>3, <2>6, <2>7, <2>8, <2>10, <2>11
  <1>6. from > max => from..max = {}
    OBVIOUS
  <1> QED
    BY <1>4, <1>5, <1>6 DEF next, swept

\* The files between two places.
LEMMA FilesBetween ==
  ASSUME NEW T, NEW s \in Seq(T), NEW m \in Nat \ {0}, NEW n \in 0..Len(s)
  PROVE  Range(SubSeq(s, m, n)) = {s[i] : i \in m..n}
  <1>1. Len(s) \in Nat /\ n \in Nat
    BY LenProperties
  <1> DEFINE part == SubSeq(s, m, n)
             size == IF m <= n THEN n - m + 1 ELSE 0
  <1>2. DOMAIN part = 1..size /\ \A i \in 1..size : part[i] = s[m + i - 1]
    BY <1>1
  <1>3. \A i \in m..n : i - m + 1 \in 1..size /\ m + (i - m + 1) - 1 = i
    BY <1>1
  <1>4. \A i \in 1..size : m + i - 1 \in m..n
    BY <1>1
  <1>5. Range(part) = {part[i] : i \in 1..size}
    BY <1>2 DEF Range
  <1> HIDE DEF part, size
  <1>6. \A i \in m..n : part[i - m + 1] = s[i]
    BY <1>2, <1>3
  <1>7. \A x \in Range(part) : x \in {s[i] : i \in m..n}
    BY <1>2, <1>4, <1>5
  <1>8. \A i \in m..n : s[i] \in Range(part)
    BY <1>3, <1>5, <1>6
  <1> QED
    BY <1>7, <1>8 DEF part

\* Files in the order of their numbers, none of them missing, are numbered by their places.
LEMMA NumberedByPlace ==
  ASSUME NEW T, NEW s \in Seq(T), \A i \in DOMAIN s : s[i].number \in Nat,
         \A i, j \in DOMAIN s : i < j => s[i].number < s[j].number, require_contiguous(Range(s), 0)
  PROVE  \A i \in DOMAIN s : s[i].number = i - 1
  <1>1. DOMAIN s = 1..Len(s) /\ Len(s) \in Nat
    BY LenProperties
  <1> DEFINE numbers == {f.number : f \in Range(s)}
             wrong == {i \in DOMAIN s : s[i].number # i - 1}
  <1>2. \A i \in DOMAIN s : 0..s[i].number \subseteq numbers
    <2>1. \A f \in Range(s) : f.number >= 0
      BY DEF Range
    <2>2. {f \in Range(s) : f.number >= 0} = Range(s)
      BY <2>1
    <2>3. \A n \in numbers : 0..n \subseteq numbers
      BY <2>2 DEF require_contiguous
    <2>4. \A i \in DOMAIN s : s[i].number \in numbers
      BY DEF Range
    <2> QED
      BY <2>3, <2>4
  <1>3. \A n \in numbers : \E j \in DOMAIN s : s[j].number = n
    BY DEF Range
  <1> HIDE DEF numbers
  <1> SUFFICES ASSUME wrong # {}
               PROVE  FALSE
    OBVIOUS
  <1>4. Min(wrong) \in wrong /\ \A x \in wrong : Min(wrong) <= x
    <2>1. wrong \in SUBSET Nat
      BY <1>1
    <2> HIDE DEF wrong
    <2> QED
      BY <2>1, Least
  <1> DEFINE i == Min(wrong)
  <1>5. i \in DOMAIN s /\ s[i].number # i - 1 /\ \A j \in DOMAIN s : j < i => s[j].number = j - 1
    <2>1. i \in wrong
      BY <1>4
    <2>2. \A j \in wrong : ~(j < i)
      <3> SUFFICES ASSUME NEW j \in wrong
                   PROVE  ~(j < i)
        OBVIOUS
      <3>1. i <= j
        BY <1>4
      <3>2. i \in Nat /\ j \in Nat
        BY <1>1, <2>1
      <3> HIDE DEF i, wrong
      <3> QED
        BY <3>1, <3>2
    <2> HIDE DEF i
    <2> QED
      BY <2>1, <2>2
  <1> HIDE DEF i, wrong
  <1>6. i \in 1..Len(s) /\ s[i].number \in Nat
    BY <1>1, <1>5
  <1>7. s[i].number > i - 1
    <2>1. CASE i = 1
      BY <1>5, <1>6, <2>1
    <2>2. CASE i # 1
      <3>1. i - 1 \in DOMAIN s /\ i - 1 < i
        BY <1>1, <1>6, <2>2
      <3>2. s[i - 1].number = i - 2 /\ s[i - 1].number < s[i].number
        BY <1>5, <3>1
      <3> QED
        BY <1>5, <1>6, <3>2
    <2> QED
      BY <2>1, <2>2
  <1>8. PICK j \in DOMAIN s : s[j].number = i - 1
    <2>1. i - 1 \in 0..s[i].number
      BY <1>6, <1>7
    <2> QED
      BY <1>2, <1>3, <1>5, <2>1
  <1>9. j \in 1..Len(s)
    BY <1>1
  <1>10. ~(j < i) /\ j # i
    BY <1>5, <1>6, <1>8, <1>9
  <1>11. s[i].number < s[j].number
    BY <1>5, <1>6, <1>9, <1>10
  <1> QED
    BY <1>6, <1>7, <1>8, <1>11

\* What the sidecars of a readable archive hold.
LEMMA ReadableFiles ==
  ASSUME NEW s, Archive(s), Readable(s)
  PROVE  /\ s # << >> /\ DOMAIN s = 1..Len(s) /\ Len(s) \in Nat /\ s \in Seq(Range(s))
         /\ \A i \in DOMAIN s : /\ s[i].number \in Nat /\ s[i].sha256 # None
                                /\ s[i].ranges # {} /\ s[i].ranges \in SUBSET (Nat \X Nat) /\ IsFiniteSet(s[i].ranges)
                                /\ \A r \in s[i].ranges : lowest_height(s[i]) <= r[1] /\ r[1] <= r[2]
  <1> DEFINE File == [number : Nat, size : Nat \cup {None}, sha256 : Nat \cup {None},
                      ranges : {R \in SUBSET (Nat \X Nat) : IsFiniteSet(R)}]
  <1>1. s \in Seq(File) /\ s # << >>
    BY DEF Archive, Readable
  <1>2. \A f \in File : f.number \in Nat /\ f.ranges \in SUBSET (Nat \X Nat) /\ IsFiniteSet(f.ranges)
    OBVIOUS
  <1> HIDE DEF File
  <1>3. DOMAIN s = 1..Len(s) /\ Len(s) \in Nat /\ \A i \in DOMAIN s : s[i] \in File
    BY <1>1, LenProperties
  <1>4. s \in Seq(Range(s))
    <2>1. \A i \in 1..Len(s) : s[i] \in Range(s)
      BY <1>3 DEF Range
    <2> QED
      BY <1>1, <1>3, <2>1
  <1>5. ASSUME NEW i \in DOMAIN s
        PROVE  /\ s[i].sha256 # None /\ s[i].ranges # {}
               /\ \A r \in s[i].ranges : lowest_height(s[i]) <= r[1] /\ r[1] <= r[2]
    <2>1. read_sidecar(s[i]) # None
      <3>1. read_sidecar(s[i]) \in Range(read_sidecars(s))
        BY DEF Range, read_sidecars
      <3> QED
        BY <3>1 DEF Readable
    <2>2. s[i].sha256 # None /\ s[i].ranges # {} /\ \A r \in s[i].ranges : ~(r[2] < r[1])
      BY <2>1 DEF read_sidecar
    <2> DEFINE starts == {r[1] : r \in s[i].ranges}
    <2>3. s[i].ranges \in SUBSET (Nat \X Nat)
      BY <1>2, <1>3
    <2>4. \A x \in starts : Min(starts) <= x
      <3>1. starts \in SUBSET Nat /\ starts # {}
        BY <2>2, <2>3
      <3> HIDE DEF starts
      <3> QED
        BY <3>1, Least
    <2>5. \A r \in s[i].ranges : r[1] \in Nat /\ r[2] \in Nat
      BY <2>3
    <2>6. lowest_height(s[i]) = Min(starts)
      BY DEF lowest_height
    <2> QED
      BY <2>2, <2>4, <2>5, <2>6
  <1> QED
    BY <1>1, <1>2, <1>3, <1>4, <1>5

\* The last file a parser needs is the highest that starts low enough.
LEMMA LastFile ==
  ASSUME NEW T, NEW s \in Seq(T), \A i \in DOMAIN s : s[i].number = i - 1, NEW height,
         last_file_needed(s, height) # None
  PROVE  /\ last_file_needed(s, height) \in 0..(Len(s) - 1)
         /\ \A i \in DOMAIN s : lowest_height(s[i]) <= height + TipMargin => i - 1 <= last_file_needed(s, height)
  <1> DEFINE low(f) == lowest_height(f) <= height + TipMargin
             numbers == {f.number : f \in {t \in Range(s) : low(t)}}
  <1>1. DOMAIN s = 1..Len(s) /\ Len(s) \in Nat
    BY LenProperties
  <1>2. numbers # {} /\ last_file_needed(s, height) = Max(numbers)
    BY DEF last_file_needed
  <1> HIDE DEF low
  <1>3. \A n \in numbers : n \in 0..(Len(s) - 1)
    BY <1>1 DEF Range
  <1>4. \A i \in DOMAIN s : low(s[i]) => i - 1 \in numbers
    BY DEF Range
  <1> HIDE DEF numbers
  <1>5. numbers \in SUBSET Nat /\ \A n \in numbers : n <= Len(s)
    BY <1>1, <1>3
  <1>6. Max(numbers) \in numbers /\ \A n \in numbers : n <= Max(numbers)
    BY <1>1, <1>2, <1>5, MaxOfBounded
  <1> QED
    BY <1>2, <1>3, <1>4, <1>6 DEF low

\* Where an update starts; a parse starts at the first file and height.
FirstFile(request) == IF request.source = None THEN 0 ELSE request.source.last_file
FirstHeight(request) == IF request.source = None THEN 0 ELSE request.source.max_block + 1

Planned(s, request, top) ==
    {i \in 1..FirstFile(request) : holds_any(s[i], FirstHeight(request), request.max_block)}
        \cup (FirstFile(request) + 1)..(top + 1)

\* The files of a plan: the later ones up to the last needed, and the older ones that hold a height.
LEMMA PlannedFiles ==
  ASSUME NEW s, Archive(s), Readable(s), NEW request, Request(request), plan_files(s, request) # None
  PROVE  /\ \A i \in DOMAIN s : s[i].number = i - 1
         /\ FirstFile(request) \in Nat /\ FirstHeight(request) \in 0..request.max_block
         /\ \E top \in FirstFile(request)..(Len(s) - 1) :
               /\ plan_files(s, request) = {s[i] : i \in Planned(s, request, top)}
               /\ \A i \in DOMAIN s : lowest_height(s[i]) <= request.max_block + TipMargin => i - 1 <= top
  <1> DEFINE max == request.max_block
             last == last_file_needed(s, max)
             source == request.source
             T == Range(s)
  <1>1. /\ s # << >> /\ DOMAIN s = 1..Len(s) /\ Len(s) \in Nat /\ s \in Seq(T)
        /\ \A i \in DOMAIN s : s[i].number \in Nat
    BY ReadableFiles
  <1> HIDE DEF T
  <1>2. require_contiguous(Range(s), 0) /\ last # None
    BY DEF plan_files
  <1>3. \A i \in DOMAIN s : s[i].number = i - 1
    <2>1. \A i, j \in DOMAIN s : i < j => s[i].number < s[j].number
      BY DEF Archive
    <2> QED
      BY <1>1, <1>2, <2>1, NumberedByPlace
  <1>4. last \in 0..(Len(s) - 1) /\ \A i \in DOMAIN s : lowest_height(s[i]) <= max + TipMargin => i - 1 <= last
    BY <1>1, <1>2, <1>3, LastFile
  <1>5. max \in Nat /\ (source # None => source.max_block \in Nat /\ source.last_file \in Nat)
    BY DEF Request
  <1>6. CASE source = None
    <2>1. FirstFile(request) = 0 /\ FirstHeight(request) = 0
      BY <1>6 DEF FirstFile, FirstHeight
    <2>2. plan_files(s, request) = Range(SubSeq(s, 1, last + 1))
      BY <1>2, <1>6 DEF plan_files
    <2>3. plan_files(s, request) = {s[i] : i \in 1..(last + 1)}
      <3>1. last + 1 \in 0..Len(s) /\ 1 \in Nat \ {0}
        BY <1>1, <1>4
      <3> QED
        BY <1>1, <2>2, <3>1, FilesBetween
    <2>4. Planned(s, request, last) = 1..(last + 1)
      BY <2>1 DEF Planned
    <2>5. plan_files(s, request) = {s[i] : i \in Planned(s, request, last)}
      BY <2>3, <2>4
    <2> HIDE DEF last
    <2> QED
      BY SMTT(60), <1>3, <1>4, <1>5, <2>1, <2>5
  <1>7. CASE source # None
    <2> DEFINE first == source.last_file
               top == IF first >= last THEN first ELSE last
               older == {f \in Range(SubSeq(s, 1, first)) : holds_any(f, source.max_block + 1, max)}
    <2>1. FirstFile(request) = first /\ FirstHeight(request) = source.max_block + 1
      BY <1>7 DEF FirstFile, FirstHeight
    <2>2. /\ ~(max <= source.max_block) /\ ~(first >= Len(s))
          /\ plan_files(s, request) = older \cup Range(SubSeq(s, first + 1, Max({first, last}) + 1))
      BY <1>2, <1>7 DEF plan_files
    <2> HIDE DEF last, older
    <2>3. first \in Nat /\ first < Len(s) /\ source.max_block + 1 \in 0..max
      BY <1>1, <1>5, <1>7, <2>2
    <2>4. Max({first, last}) = top
      <3>1. \A x \in {first, last} : (\A y \in {first, last} : x >= y) <=> x = top
        BY <1>4, <2>3
      <3> QED
        BY <3>1 DEF Max
    <2>5. top \in first..(Len(s) - 1) /\ last <= top
      BY <1>1, <1>4, <2>3
    <2> HIDE DEF top
    <2>6. Range(SubSeq(s, first + 1, top + 1)) = {s[i] : i \in (first + 1)..(top + 1)}
      <3>1. top + 1 \in 0..Len(s) /\ first + 1 \in Nat \ {0}
        BY <1>1, <2>3, <2>5
      <3> QED
        BY <1>1, <3>1, FilesBetween
    <2>7. Range(SubSeq(s, 1, first)) = {s[i] : i \in 1..first}
      <3>1. first \in 0..Len(s) /\ 1 \in Nat \ {0}
        BY <1>1, <2>3
      <3> QED
        BY <1>1, <3>1, FilesBetween
    <2>8. older = {s[i] : i \in {j \in 1..first : holds_any(s[j], source.max_block + 1, max)}}
      BY <2>7 DEF older
    <2>9. plan_files(s, request) = {s[i] : i \in Planned(s, request, top)}
      <3> DEFINE front == {j \in 1..first : holds_any(s[j], source.max_block + 1, max)}
      <3>1. Planned(s, request, top) = front \cup (first + 1)..(top + 1)
        BY <2>1 DEF Planned
      <3> HIDE DEF front
      <3>2. \A A, B : {s[i] : i \in A} \cup {s[i] : i \in B} = {s[i] : i \in A \cup B}
        OBVIOUS
      <3> QED
        <4>1. plan_files(s, request) = older \cup {s[i] : i \in (first + 1)..(top + 1)}
          BY <2>2, <2>4, <2>6
        <4> QED
          BY ZenonT(60), <2>8, <3>1, <3>2, <4>1 DEF front
    <2>10. \A i \in DOMAIN s : lowest_height(s[i]) <= max + TipMargin => i - 1 <= top
      BY <1>1, <1>4, <2>5
    <2> QED
      BY <1>3, <2>1, <2>3, <2>5, <2>9, <2>10
  <1> QED
    BY <1>6, <1>7

\* The heights the files of an archive hold are finitely many ranges.
LEMMA FiniteRanges ==
  ASSUME NEW files, IsFiniteSet(files),
         \A f \in files : IsFiniteSet(f.ranges) /\ f.ranges \in SUBSET (Nat \X Nat)
  PROVE  LET pairs == UNION {f.ranges : f \in files}
         IN IsFiniteSet(pairs) /\ pairs \in SUBSET (Nat \X Nat)
  <1> DEFINE all == {f.ranges : f \in files}
             g == [f \in files |-> f.ranges]
  <1>1. g \in Surjection(files, all)
    BY DEF Surjection
  <1>2. IsFiniteSet(all)
    <2> HIDE DEF g, all
    <2> QED
      BY <1>1, FS_Surjection DEF ExistsSurjection
  <1>3. \A R \in all : IsFiniteSet(R)
    OBVIOUS
  <1>4. UNION all \in SUBSET (Nat \X Nat)
    OBVIOUS
  <1> HIDE DEF all
  <1>5. IsFiniteSet(UNION all)
    BY <1>2, <1>3, FS_UNION
  <1> QED
    BY <1>4, <1>5 DEF all

\* The files of a sequence are finitely many.
LEMMA FiniteFiles ==
  ASSUME NEW T, NEW s \in Seq(T), NEW P \in SUBSET (DOMAIN s)
  PROVE  IsFiniteSet({s[i] : i \in P})
  <1> DEFINE files == {s[i] : i \in P}
             g == [i \in P |-> s[i]]
  <1>1. g \in Surjection(P, files)
    BY DEF Surjection
  <1>2. IsFiniteSet(P)
    <2>1. DOMAIN s = 1..Len(s) /\ Len(s) \in Nat
      BY LenProperties
    <2>2. IsFiniteSet(1..Len(s))
      BY <2>1, FS_Interval
    <2> QED
      BY <2>1, <2>2, FS_Subset
  <1> HIDE DEF g, files
  <1>3. IsFiniteSet(files)
    BY <1>1, <1>2, FS_Surjection DEF ExistsSurjection
  <1> QED
    BY <1>3 DEF files

\* An archive that covers the heights of a request loses none of them to the selection, whatever
\* order the heights have in the files: the plan keeps every file that holds one
\* (block_archive.py:160-172), so the check of the downloaded files (lines 228-237) passes.
THEOREM CoverageHolds ==
  ASSUME NEW sidecars, Archive(sidecars), NEW request, Request(request)
  PROVE  SelectionKeepsCoverage(sidecars, request)
  <1> DEFINE chosen == plan_files(sidecars, request)
             first == FirstFile(request)
             from == FirstHeight(request)
             max == request.max_block
             stored == [n \in 0..(Len(sidecars) - 1) |-> sidecars[n + 1].sha256]
  <1> SUFFICES ASSUME Readable(sidecars), chosen # None, NextHeight(Range(sidecars), from) > max
               PROVE  /\ require_contiguous(chosen, first)
                      /\ \A s \in chosen : stored[s.number] = s.sha256
                      /\ NextHeight(chosen, from) > max
    BY DEF SelectionKeepsCoverage, select, verify, FirstFile, FirstHeight
  <1>1. /\ DOMAIN sidecars = 1..Len(sidecars) /\ Len(sidecars) \in Nat /\ sidecars \in Seq(Range(sidecars))
        /\ \A i \in DOMAIN sidecars :
              /\ sidecars[i].ranges \in SUBSET (Nat \X Nat) /\ IsFiniteSet(sidecars[i].ranges)
              /\ \A r \in sidecars[i].ranges : lowest_height(sidecars[i]) <= r[1] /\ r[1] <= r[2]
    BY ReadableFiles
  <1>2. /\ \A i \in DOMAIN sidecars : sidecars[i].number = i - 1
        /\ first \in Nat /\ from \in 0..max
    BY PlannedFiles
  <1>3. PICK top \in first..(Len(sidecars) - 1) :
           /\ chosen = {sidecars[i] : i \in Planned(sidecars, request, top)}
           /\ \A i \in DOMAIN sidecars : lowest_height(sidecars[i]) <= max + TipMargin => i - 1 <= top
    BY PlannedFiles
  <1> DEFINE P == Planned(sidecars, request, top)
  <1>4. /\ P \in SUBSET (DOMAIN sidecars) /\ (first + 1)..(top + 1) \subseteq P
        /\ \A i \in P : i \in 1..first \/ i \in (first + 1)..(top + 1)
    BY <1>1, <1>2 DEF Planned
  <1>5. max \in Nat
    BY DEF Request
  <1> HIDE DEF chosen, first, from, P
  <1>6. require_contiguous(chosen, first)
    <2> DEFINE numbers == {f.number : f \in {g \in chosen : g.number >= first}}
    <2>1. \A n \in numbers : n \in first..top
      <3> SUFFICES ASSUME NEW i \in P, sidecars[i].number >= first
                   PROVE  sidecars[i].number \in first..top
        BY <1>3 DEF P
      <3>1. sidecars[i].number = i - 1 /\ (i \in 1..first \/ i \in (first + 1)..(top + 1))
        BY <1>2, <1>4
      <3> QED
        BY <1>2, <3>1
    <2>2. \A n \in first..top : n \in numbers
      <3> SUFFICES ASSUME NEW n \in first..top
                   PROVE  \E f \in chosen : f.number >= first /\ n = f.number
        OBVIOUS
      <3>1. n + 1 \in P /\ n >= first
        BY <1>2, <1>4
      <3>2. sidecars[n + 1].number = n
        <4>1. sidecars[n + 1].number = (n + 1) - 1
          BY <1>2, <1>4, <3>1
        <4> QED
          BY <1>2, <4>1
      <3>3. sidecars[n + 1] \in chosen
        BY <1>3, <3>1 DEF P
      <3> QED
        BY <3>1, <3>2, <3>3
    <2>3. numbers = first..top
      BY <2>1, <2>2
    <2> HIDE DEF numbers
    <2>4. numbers # {} /\ \A n \in numbers : first..n \subseteq numbers
      <3>1. first \in Nat /\ top \in Nat /\ first <= top
        BY <1>1, <1>2
      <3>2. first \in first..top /\ \A n \in first..top : \A m \in first..n : m \in first..top
        BY <3>1
      <3> QED
        BY <2>3, <3>2
    <2> QED
      BY <2>4 DEF require_contiguous, numbers
  <1>7. \A s \in chosen : stored[s.number] = s.sha256
    <2> SUFFICES ASSUME NEW i \in P
                 PROVE  stored[sidecars[i].number] = sidecars[i].sha256
      BY <1>3 DEF P
    <2>1. i \in 1..Len(sidecars) /\ sidecars[i].number = i - 1
      BY <1>1, <1>2, <1>4
    <2>2. i - 1 \in 0..(Len(sidecars) - 1) /\ (i - 1) + 1 = i
      BY <1>1, <2>1
    <2> QED
      BY <2>1, <2>2
  <1>8. NextHeight(chosen, from) > max
    <2> DEFINE every == UNION {f.ranges : f \in Range(sidecars)}
               kept == UNION {f.ranges : f \in chosen}
    <2>1. Range(sidecars) = {sidecars[i] : i \in DOMAIN sidecars}
      BY DEF Range
    <2>2. IsFiniteSet(every) /\ every \in SUBSET (Nat \X Nat)
      <3>1. IsFiniteSet(Range(sidecars))
        <4>1. DOMAIN sidecars \in SUBSET (DOMAIN sidecars)
          OBVIOUS
        <4>2. IsFiniteSet({sidecars[i] : i \in DOMAIN sidecars})
          BY <1>1, <4>1, FiniteFiles
        <4> QED
          BY <2>1, <4>2
      <3>2. \A f \in Range(sidecars) : IsFiniteSet(f.ranges) /\ f.ranges \in SUBSET (Nat \X Nat)
        BY <1>1, <2>1
      <3> QED
        BY <3>1, <3>2, FiniteRanges
    <2>3. IsFiniteSet(kept) /\ kept \in SUBSET (Nat \X Nat)
      <3>1. IsFiniteSet(chosen)
        <4>1. IsFiniteSet({sidecars[i] : i \in P})
          BY <1>1, <1>4, FiniteFiles
        <4> QED
          BY <1>3, <4>1 DEF P
      <3>2. \A f \in chosen : IsFiniteSet(f.ranges) /\ f.ranges \in SUBSET (Nat \X Nat)
        BY <1>1, <1>3, <1>4 DEF P
      <3> QED
        BY <3>1, <3>2, FiniteRanges
    <2>4. from \in Nat /\ ~(from > max)
      BY <1>2, <1>5
    <2>5. ASSUME NEW h \in from..max
          PROVE  \E p \in kept : p[1] <= h /\ h <= p[2]
      <3>1. Past(from, Swept(from, every)) > max
        BY DEF NextHeight
      <3>2. PICK p \in every : p[1] <= h /\ h <= p[2]
        <4> HIDE DEF every
        <4>1. \A k \in from..max : \E p \in every : p[1] <= k /\ k <= p[2]
          BY <1>5, <2>2, <2>4, <3>1, SweepCovers
        <4> QED
          BY <2>5, <4>1
      <3>3. PICK i \in DOMAIN sidecars : p \in sidecars[i].ranges
        BY <2>1
      <3>4. p \in Nat \X Nat
        BY <1>1, <3>3
      <3>5. lowest_height(sidecars[i]) <= max + TipMargin
        <4> DEFINE starts == {r[1] : r \in sidecars[i].ranges}
        <4>1. starts \in SUBSET Nat /\ starts # {}
          BY <1>1, <3>3
        <4> HIDE DEF starts
        <4>2. Min(starts) \in Nat
          BY <4>1, Least
        <4>3. lowest_height(sidecars[i]) \in Nat
          BY <4>2 DEF lowest_height, starts
        <4>4. lowest_height(sidecars[i]) <= p[1]
          BY <1>1, <3>3
        <4>5. p[1] \in Nat /\ p[1] <= h /\ h \in Nat /\ h <= max
          <5>1. h \in Nat /\ h <= max
            BY <1>5, <2>4
          <5>2. p[1] \in Nat
            BY <3>4
          <5> QED
            BY <3>2, <5>1, <5>2
        <4> HIDE DEF max
        <4> QED
          BY <1>5, <4>3, <4>4, <4>5, TipMarginAssumption
      <3>6. i \in P
        <4>1. i \in 1..Len(sidecars) /\ i - 1 <= top
          BY <1>1, <1>3, <3>5
        <4>2. CASE i \in 1..first
          <5>1. holds_any(sidecars[i], from, max)
            <6>1. p[1] <= max /\ p[2] >= from
              BY <1>5, <2>4, <3>2, <3>4
            <6> QED
              BY <3>3, <6>1 DEF holds_any
          <5> QED
            BY <4>2, <5>1 DEF P, Planned, first, from
        <4>3. CASE i \notin 1..first
          <5>1. i \in (first + 1)..(top + 1)
            BY <1>1, <1>2, <4>1, <4>3
          <5> QED
            BY <1>4, <5>1
        <4> QED
          BY <4>2, <4>3
      <3> QED
        BY <1>3, <3>2, <3>3, <3>6 DEF P
    <2> HIDE DEF kept
    <2>6. Past(from, Swept(from, kept)) > max
      BY <1>5, <2>3, <2>4, <2>5, SweepCovers
    <2> QED
      BY <2>6 DEF NextHeight, kept
  <1> QED
    BY <1>6, <1>7, <1>8

\* An index pins the files it has seen: once one of them is stored anew, its digest differs from
\* the one the manifest recorded, and no later update of that index is served
\* (block_archive.py:120-125, 168-169).
THEOREM PinnedHolds ==
  ASSUME NoFunction(None), NEW sidecars, Archive(sidecars), NEW request, Request(request), NEW changed \in Nat \ {0}
  PROVE  IndexedFilesPinned(sidecars, request, changed)
  <1> DEFINE first == [max_block |-> request.max_block, source |-> None]
             parsed == select(sidecars, first)
             files == plan_files(sidecars, first)
             later == [i \in DOMAIN sidecars |->
                          IF i = changed THEN [sidecars[i] EXCEPT !.sha256 = -1] ELSE sidecars[i]]
             source == [max_block |-> request.max_block, last_file |-> parsed.last_file, digest |-> parsed.digest]
             update == [max_block |-> request.max_block + 1, source |-> source]
             needed == last_file_needed(sidecars, request.max_block)
             size == Len(sidecars)
  <1> SUFFICES ASSUME parsed # None, changed <= parsed.last_file + 1
               PROVE  plan_files(later, update) = None
    BY DEF IndexedFilesPinned
  <1>1. /\ size \in Nat /\ DOMAIN sidecars = 1 .. size /\ sidecars \in Seq(Range(sidecars))
        /\ \A i \in DOMAIN sidecars : sidecars[i].number \in Nat /\ sidecars[i].sha256 # -1
        /\ \A i \in DOMAIN sidecars : "sha256" \in DOMAIN sidecars[i]
    <2> DEFINE File == [number : Nat, size : Nat \cup {None}, sha256 : Nat \cup {None},
                        ranges : {R \in SUBSET (Nat \X Nat) : IsFiniteSet(R)}]
    <2>1. \A f \in File : f.number \in Nat /\ f.sha256 \in Nat \cup {None} /\ "sha256" \in DOMAIN f
      OBVIOUS
    <2>2. sidecars \in Seq(File)
      BY DEF Archive
    <2> HIDE DEF File
    <2>3. DOMAIN sidecars = 1 .. size /\ size \in Nat /\ \A i \in DOMAIN sidecars : sidecars[i] \in File
      BY <2>2, LenProperties
    <2>4. \A x \in Nat \cup {None} : x # -1
      BY NoneAssumption
    <2>5. sidecars \in Seq(Range(sidecars))
      <3>1. \A i \in 1..size : sidecars[i] \in Range(sidecars)
        BY <2>3 DEF Range
      <3> QED
        BY <2>2, <2>3, <3>1
    <2> QED
      BY <2>1, <2>3, <2>4, <2>5
  <1>2. files # None
    BY DEF select
  <1>3. require_contiguous(Range(sidecars), 0) /\ needed # None /\ files = Range(SubSeq(sidecars, 1, needed + 1))
    BY <1>2 DEF plan_files
  <1>4. \A i \in DOMAIN sidecars : sidecars[i].number = i - 1
    <2>1. \A i, j \in DOMAIN sidecars : i < j => sidecars[i].number < sidecars[j].number
      BY DEF Archive
    <2> QED
      BY <1>1, <1>3, <2>1, NumberedByPlace
  <1>5. needed \in 0 .. (size - 1)
    BY <1>1, <1>3, <1>4, LastFile
  <1> HIDE DEF needed
  <1>6. parsed.last_file = needed /\ parsed.digest = index_sha256(sidecars, needed)
    <2> DEFINE numbers == {s.number : s \in files}
    <2>1. files = {sidecars[i] : i \in 1 .. (needed + 1)}
      <3>1. needed + 1 \in 0 .. size /\ 1 \in Nat \ {0}
        BY <1>1, <1>5
      <3> QED
        BY <1>1, <1>3, <3>1, FilesBetween
    <2>2. \A n \in numbers : n \in 0 .. needed
      <3> SUFFICES ASSUME NEW i \in 1 .. (needed + 1)
                   PROVE  sidecars[i].number \in 0 .. needed
        BY <2>1
      <3>1. i \in DOMAIN sidecars
        BY <1>1, <1>5
      <3> QED
        BY <1>4, <1>5, <3>1
    <2>3. needed \in numbers
      <3>1. needed + 1 \in 1 .. (needed + 1) /\ needed + 1 \in DOMAIN sidecars
        BY <1>1, <1>5
      <3>2. sidecars[needed + 1].number = needed
        <4>1. sidecars[needed + 1].number = (needed + 1) - 1
          BY <1>4, <3>1
        <4> QED
          BY <1>5, <4>1
      <3> QED
        BY <2>1, <3>1, <3>2
    <2>4. parsed.last_file = Max(numbers) /\ parsed.digest = index_sha256(sidecars, Max(numbers))
      BY <1>2 DEF select
    <2> HIDE DEF numbers
    <2>5. Max(numbers) \in numbers /\ \A n \in numbers : n <= Max(numbers)
      <3>1. numbers \in SUBSET Nat /\ \A n \in numbers : n <= needed
        BY <1>5, <2>2
      <3> QED
        BY <1>5, <2>3, <3>1, MaxOfBounded
    <2>6. Max(numbers) = needed
      <3>1. Max(numbers) \in 0 .. needed /\ needed <= Max(numbers)
        BY <2>2, <2>3, <2>5
      <3> QED
        BY <1>5, <3>1
    <2> QED
      BY <2>4, <2>6
  <1> HIDE DEF parsed, files
  <1>7. Len(later) = size /\ later \in Seq(Range(later))
    <2>1. DOMAIN later = 1 .. size /\ \A i \in 1 .. size : later[i] \in Range(later)
      BY <1>1 DEF Range
    <2>2. later = [i \in 1 .. size |-> later[i]]
      BY <1>1
    <2> HIDE DEF later
    <2> QED
      BY <1>1, <2>1, <2>2, IsASeq
  <1>8. changed \in 1 .. (needed + 1) /\ Min({needed + 1, size}) = needed + 1
    <2>1. Min({needed + 1, size}) = needed + 1
      BY <1>1, <1>5 DEF Min
    <2> QED
      BY <1>1, <1>5, <1>6, <2>1
  <1>9. index_sha256(later, needed) # index_sha256(sidecars, needed)
    <2>1. \A s : Len(s) = size /\ s \in Seq(Range(s)) =>
             index_sha256(s, needed)[changed] = <<s[changed].number, s[changed].sha256>>
      <3> SUFFICES ASSUME NEW s, Len(s) = size, s \in Seq(Range(s))
                   PROVE  index_sha256(s, needed)[changed] = <<s[changed].number, s[changed].sha256>>
        OBVIOUS
      <3> DEFINE part == SubSeq(s, 1, needed + 1)
      <3>1. DOMAIN part = 1 .. (needed + 1) /\ part[changed] = s[changed]
        BY <1>1, <1>5, <1>8
      <3>2. index_sha256(s, needed) = [i \in DOMAIN part |-> <<part[i].number, part[i].sha256>>]
        BY <1>8 DEF index_sha256
      <3> HIDE DEF part
      <3> QED
        BY <1>8, <3>1, <3>2
    <2>2. later[changed].sha256 = -1 /\ sidecars[changed].sha256 # -1
      <3>1. changed \in DOMAIN sidecars
        BY <1>1, <1>5, <1>8
      <3> QED
        BY <1>1, <3>1
    <2>3. sidecars \in Seq(Range(sidecars))
      BY <1>1
    <2>4. /\ index_sha256(later, needed)[changed] = <<later[changed].number, later[changed].sha256>>
          /\ index_sha256(sidecars, needed)[changed] = <<sidecars[changed].number, sidecars[changed].sha256>>
      BY <1>7, <2>1, <2>3
    <2> QED
      BY <2>2, <2>4
  <1>10. source # None /\ source.digest # index_sha256(later, source.last_file)
    <2>1. source # None
      <3>1. source \in [{"max_block", "last_file", "digest"} -> {request.max_block, parsed.last_file, parsed.digest}]
        OBVIOUS
      <3> HIDE DEF source
      <3> QED
        BY <3>1, FunctionIsNot
    <2> QED
      BY <1>6, <1>9, <2>1
  <1> HIDE DEF later, source
  <1>11. update.source = source
    OBVIOUS
  <1> HIDE DEF update
  <1> QED
    BY <1>10, <1>11 DEF plan_files

-----------------------------------------------------------------------------
\* Every job finds its inputs and races with no other, for every configuration the rules accept,
\* every graph of stages and every archive of block files (s3_submission.py, stages.py,
\* block_archive.py).
THEOREM InputsHold == ASSUME NoFunction(None) PROVE PlanTyped => InputsArePresent
  <1> SUFFICES ASSUME PlanTyped
               PROVE  InputsArePresent
    OBVIOUS
  <1>1. ArchiveCovers /\ ArchivePinned
    BY CoverageHolds, PinnedHolds DEF PlanTyped, ArchiveCovers, ArchivePinned
  <1>2. GraphOrdered
    <2> SUFFICES ASSUME input.kind = "graph"
                 PROVE  OrderIsTopological(input.stages)
      BY DEF GraphOrdered
    <2> DEFINE T == [name : STRING, kind : STRING, runner : STRING, after : SUBSET STRING]
    <2>1. input.stages \in Seq(T) /\ Distinct(input.stages)
      BY DEF PlanTyped, StageGraph, Distinct
    <2>2. None \notin Seq(T)
      BY NoneIsNoSequence
    <2> QED
      BY <2>1, <2>2, GraphHolds
  <1>3. InputsFound /\ NoRace /\ RefusedInTime
    BY PlanHolds DEF PlanTyped, InputsFound, NoRace, RefusedInTime
  <1> QED
    BY <1>1, <1>2, <1>3 DEF InputsArePresent
=============================================================================
