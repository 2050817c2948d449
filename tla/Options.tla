------------------------------ MODULE Options -------------------------------
(***************************************************************************)
(* What the options of an invocation promise once they are accepted: the   *)
(* rules (RunOptions, SyncOptions), the preflight of the host (Preflight)  *)
(* and the analyzer operations (CoinjoinTools) against what then runs.     *)
(*                                                                         *)
(* The input is one of                                                     *)
(*   [kind |-> "heights", c, blocks]  the bounds of a comparison and the   *)
(*                                    blocks its index holds;              *)
(*   [kind |-> "tools", c, t]         an analyzer operation;               *)
(*   [kind |-> "host", c, host]       an invocation on a host;             *)
(*   [kind |-> "sync", s]             a synchronization;                   *)
(* or belongs to an algorithm of another module.                           *)
(***************************************************************************)
EXTENDS Preflight, SyncOptions, BlockSciExport

VARIABLE input

\* Where a research program takes its data from.
DataSources == {"given", "file", "block", "online", "image"}

\* Where a parse takes its blocks from.
ParseSources == {"emulator", "external_bitcoin_datadir", "bitcoin_blocks_uri", "external_blocksci_dir"}

\* None is no number, label, source, window or empty record.
ASSUME NoneAssumption ==
    /\ None \notin Int /\ None \notin BOOLEAN /\ None \notin DataSources /\ None \notin ParseSources
    /\ None \notin [start : Nat, end : Nat] /\ None # << >>

\* What an option can be once its parser or schema has accepted it.
HeightOption == Nat \cup {None}
PathOption == {None, Inside, Outside}
Place == Seq(STRING) \ {<< >>}
Directory == {d \in Place : d[1] \in Locations \cup {"storage"}}

Operation(t) ==
    /\ t.program \in DOMAIN PROGRAM_ACTIONS /\ t.targets \in Seq({Inside, Outside})
    /\ t.input \in {None, "uri", "dir"} /\ t.data_mode \in {"emulation", "mainnet"} /\ t.allow_network \in BOOLEAN
    /\ t.transaction_file \in PathOption /\ t.coordinator_file \in PathOption

\* What resolve_configuration answers: the configuration a host is checked for.
Resolved(c) == validate(c) /\ c.action \in Actions /\ (c.action = "pbs-from-s3" => c.backend = "s3")

Synchronization(s) ==
    /\ s.prefix \in [Locators -> Place \cup {None}] /\ DOMAIN s.node = Locators
    /\ s.root \in Directory \cup {None} /\ s.index_dir \in Directory \cup {None}

\* The inputs the facts below are about.
InputTyped ==
    /\ input.kind = "heights" =>
           /\ validate(input.c) /\ input.blocks \in Nat
           /\ {input.c.pin_height, input.c.scan_start_height} \subseteq HeightOption
           /\ input.c.scan_end_height \in HeightOption \ {0}
    /\ input.kind = "tools" => Operation(input.t)
    /\ input.kind = "host" => Resolved(input.c)
    /\ input.kind = "sync" => Synchronization(input.s)

\* Bounds the rules accept (option_rules.py:346-362) are a window of the index the worker opens at
\* the pin (commands.py:62-79, worker.py, detector.py:295-301).
WindowInsidePin == input.kind = "heights" =>
    LET c == input.c
        chain == open_chain([blocks |-> input.blocks, txs |-> << >>], IF c.pin_height = None THEN None ELSE c.pin_height + 1)
    IN None \notin {c.pin_height, c.scan_end_height} /\ c.pin_height < input.blocks =>
           scan_window(chain, c.scan_start_height, c.scan_end_height) # None

\* An accepted analyzer operation finds its data (coinjoin_tools.py:66-272).
ToolsFindData == input.kind = "tools" => OperationFindsItsData(input.c, input.t)

\* A host that passes the check has what runs (doctor.py:28-174).
HostReady == input.kind = "host" => HostHasWhatRuns(input.host, input.c)

\* BlockSci finds a chain, unless a copy into its volume failed (doctor.py:84-91,
\* kubernetes_launch.py:137-225).
ChainFound == input.kind = "host" => BlockSciFindsAChain(input.host, input.c)

\* A restore clears nothing that is not its own (mainnet_sync.py:92-143, 238-264).
ClearsItsOwn == input.kind = "sync" => RestoreClearsItsOwn(input.s)

\* Options that pass the rules and the preflight find their window, their data, a host and a chain,
\* and clear only what is theirs.
OptionsAreSound == InputTyped /\ WindowInsidePin /\ ToolsFindData /\ HostReady /\ ChainFound /\ ClearsItsOwn
=============================================================================
