---------------------------- MODULE MCAlgorithms ----------------------------
(***************************************************************************)
(* The pure algorithms on bounded inputs: a behaviour picks one input of   *)
(* one algorithm and ends, and the invariants compare what the algorithm   *)
(* computes for it with what it is meant to compute.  Or it picks commands *)
(* of the host, on one run directory or a watch, and these run.            *)
(***************************************************************************)
EXTENDS Plans, Detectors, Pools, RunFolder, Watch

\* The input is the one picked, with the algorithm it is for (Options).

Start == [kind |-> "start"]

MCLargeShare == [num |-> 1, den |-> 2]

Sorted(S, n) == {s \in [1..n -> S] : \A i \in 1..(n - 1) : s[i] <= s[i + 1]}

-----------------------------------------------------------------------------
\* Partition searches: up to four values over up to three buckets.
PickSearch ==
    /\ input = Start
    /\ \E n \in 0..4, m \in 1..3, depth \in {0, 1, 3} :
           \E values \in Sorted(1..3, n), goals \in Sorted(0..4, m) :
               input' = [kind |-> "search", values |-> values, goals |-> goals, depth |-> depth]

\* JoinMarket transactions of two or three inputs and three or four outputs.
InputAddresses == {<<"a", "b">>, <<"a", "a">>, <<"a", "b", "c">>, <<"a", "b", "a">>}
OutputAddresses == {<<"x", "y", "z">>, <<"x", "y", "z", "w">>, <<"x", "y", "x", "z">>,
                    <<"a", "x", "y", "z">>, <<"x", "y", "z", None>>}
FeeLimits == {[base |-> 0, num |-> 0, den |-> 1], [base |-> 1, num |-> 1, den |-> 2]}
IO(addresses, values) == [i \in DOMAIN addresses |->
                             [address |-> addresses[i], value |-> values[i], type |-> None]]

PickJoinMarket ==
    /\ input = Start
    /\ \E from \in InputAddresses, to \in OutputAddresses, fees \in FeeLimits :
           \E spent \in Sorted({1, 2, 4}, Len(from)), paid \in [DOMAIN to -> {1, 2, 3, None}] :
               input' = [kind |-> "joinmarket", fees |-> fees,
                         record |-> [inputs |-> IO(from, spent), outputs |-> IO(to, paid), height |-> None]]

Addresses == <<"a", "b", "c", "d", "e">>

\* Wasabi transactions around the height where the thresholds change.
PickWasabi ==
    /\ input = Start
    /\ \E n \in 2..3, m \in 3..5, height \in {4, 5, None}, later \in 4..6, type \in {"WITNESS", "PUBKEY", None} :
           \E unknown \in 0..m :
               input' = [kind |-> "wasabi", later |-> later,
                         record |-> [height |-> height,
                                     inputs |-> [i \in 1..n |-> [value |-> 9 - i, address |-> Addresses[i], type |-> type]],
                                     outputs |-> [i \in 1..m |->
                                         [value |-> IF i <= unknown THEN 19 ELSE 9, address |-> Addresses[i], type |-> None]]]]

-----------------------------------------------------------------------------
\* Three transactions of two outputs; each output is spent by a later transaction or by none.
Paid == << <<2, 1>>, <<2, 2>>, <<1, 3>> >>
Owner == << <<"w1", "w2">>, <<"w1", "w1">>, <<"w2", "w1">> >>
Spenders == {s \in [(1..2) \X (1..2) -> {2, 3, None}] : \A i \in 1..2 : s[<<2, i>>] # 2}

Spent(spender, t) ==
    LET points == SetToSortSeq({p \in DOMAIN spender : spender[p] = t},
                               LAMBDA a, b : a[1] < b[1] \/ (a[1] = b[1] /\ a[2] < b[2]))
    IN [i \in DOMAIN points |-> [prev |-> points[i], value |-> Paid[points[i][1]][points[i][2]],
                                 wallet |-> Owner[points[i][1]][points[i][2]]]]

\* The inputs also spend a coin from outside that covers what the outputs add.
Transactions(spender, labels, heights) ==
    [t \in 1..3 |->
        [coinjoin |-> labels[t], height |-> heights[t],
         inputs |-> Append(Spent(spender, t), [prev |-> None, value |-> 4, wallet |-> "w2"]),
         outputs |-> [i \in 1..2 |-> [value |-> Paid[t][i], wallet |-> Owner[t][i]]]]]

Observed(transactions) ==
    [t \in 1..3 |-> [inputs |-> [i \in DOMAIN transactions[t].inputs |-> Enter],
                     outputs |-> [i \in 1..2 |-> IF i = t THEN Leave ELSE Stay]]]

PickLiquidity ==
    /\ input = Start
    /\ \E spender \in Spenders, labels \in {<<TRUE, TRUE, TRUE>>, <<TRUE, FALSE, TRUE>>, <<TRUE, TRUE, FALSE>>},
          heights \in {<<1, 1, 1>>, <<1, 1, 2>>, <<1, 2, 3>>},
          broadcast \in {<<None, None, None>>, <<2, 1, None>>}, detected \in {None, {1, 3}, {1, 2, 3}} :
           LET Labelled(transactions) ==
                   [independent |-> TRUE, transactions |-> transactions,
                    broadcast |-> broadcast, observed |-> Observed(transactions),
                    mix_events |-> IF detected = None THEN None ELSE ExternalMixEvents(transactions, detected),
                    groups |-> [everyone |-> {"w1", "w2"}, first |-> {"w1"}],
                    spends |-> {[status |-> "sent", txids |-> {3}]}]
           IN input' = [kind |-> "liquidity", run |-> Labelled(Transactions(spender, labels, heights))]

-----------------------------------------------------------------------------
\* Producer manifests with at most one defect, rounds, and two exported transactions.
Genuine(engine) == [path |-> "rounds", inside |-> TRUE, name |-> engine, file |-> TRUE,
                    metadata |-> TRUE, size |-> TRUE, hash |-> TRUE]
Sources(engine) ==
    {<<>>, <<Genuine(engine)>>, <<Genuine(engine), Genuine(engine)>>}
        \cup {<<[Genuine(engine) EXCEPT ![f] = FALSE]>> : f \in {"inside", "file", "metadata", "size", "hash"}}
Manifests(engine) ==
    {None} \cup [schema : {TRUE}, engine : {"wasabi", "joinmarket"}, complete : BOOLEAN,
                 positive_count : {None, 0, 1}, sources : Sources(engine)]
Statuses(type) == IF type = "joinmarket" THEN {"confirmed", "multiple_matches", "failed"}
                  ELSE {"broadcast", "other"}
Pay(value, address) == [value |-> value, address |-> address, type |-> "WITNESS", wallet |-> None]
Exported == << [height |-> 1, txs |-> <<
    [txid |-> "t1", coinbase |-> FALSE, height |-> None, spends |-> << <<"t0", 1>> >>,
     pays |-> <<Pay(2, "a"), Pay(1, "b")>>],
    [txid |-> "t2", coinbase |-> FALSE, height |-> None, spends |-> << <<"t1", 1>>, <<"t1", 2>> >>,
     pays |-> <<Pay(3, "a")>>] >>] >>

PickLabels ==
    /\ input = Start
    /\ \E type \in {"joinmarket", "wasabi2"} :
           \E manifest \in Manifests(ExpectedEngine(type)), first, second \in {{}, {"t1"}, {"t3"}, {"t1", "t2"}},
              status \in Statuses(type), detected \in {{}, {"t1"}, {"t2", "t3"}} :
               /\ type = "wasabi2" => Cardinality(first) <= 1 /\ Cardinality(second) <= 1
               /\ input' = [kind |-> "labels",
                            run |-> [manifest |-> manifest, coinjoin_type |-> type,
                                     rounds |-> << [status |-> status, matches |-> first],
                                                   [status |-> IF type = "joinmarket" THEN "confirmed"
                                                               ELSE "broadcast", matches |-> second] >>,
                                     blocks |-> Exported, analyzer |-> [a |-> "w1"],
                                     wallet_records |-> << [address |-> "b", wallet |-> "w2"] >>,
                                     detected |-> detected]]

-----------------------------------------------------------------------------
\* Reports: an index that may hold the transactions at other heights than they were exported at. The
\* report may be asked for without the bounds the artifact was written with.
Spend == [value |-> 3, address |-> 1, type |-> "WITNESS", wallet |-> None, prev |-> None]
Tx(height, verdict, paid) ==
    [height |-> height, verdict |-> verdict, inputs |-> <<Spend>>, outputs |-> <<Pay(paid, 2)>>]
Base(height, paid) ==
    [height |-> height, block_index |-> None, inputs |-> <<Spend>>, outputs |-> <<Pay(paid, 2)>>]
BlockAt(height, txid) ==
    [height |-> height, txs |-> <<[txid |-> txid, coinbase |-> FALSE, height |-> None,
                                   spends |-> << <<"t0", 1>> >>, pays |-> <<Pay(2, 1), Pay(1, 2)>>]>>]
Image == [reference |-> [digest |-> "d"], repo_digest |-> "d"]
Args(mode, type) ==
    [mode |-> mode, coinjoin_type |-> type, min_input_count |-> None, joinmarket_detector |-> "definite",
     fees |-> [base |-> 0, num |-> 0, den |-> 1], max_depth |-> 0, first_wasabi2_block |-> 0,
     pin_height |-> None, scan_start_height |-> None, scan_end_height |-> None, skip_clustering |-> FALSE,
     max_block |-> None, phase |-> "run", report |-> TRUE]
ReportRun(index, baseline, sidecars, blocks, image) ==
    [id |-> "run", index |-> index, baseline |-> baseline, sidecars |-> sidecars, blocks |-> blocks,
     images |-> [c \in ImageComponents |-> image], references |-> [c \in ImageComponents |-> Image.reference],
     daemon |-> [c \in ImageComponents |-> None], clusters |-> (1 :> 7) @@ (2 :> 8), mappings |-> None,
     previous_manifest |-> None, artifact |-> None,
     scenario |-> [funds |-> << <<2>>, <<1, 1>> >>, groups |-> [both |-> {1, 2}]], manifest |-> None, coinjoin_type |-> "joinmarket",
     rounds |-> << >>, analyzer |-> (1 :> "w1") @@ (2 :> "w2"), wallet_records |-> << >>]

PickExternal ==
    /\ input = Start
    /\ \E h1, h2 \in 0..3, v1 \in {"true", "false"}, v2 \in {"true", "timeout"},
          members \in {{"t1"}, {"t1", "t2", "t3"}}, sidecars \in {<< >>, <<{"t1"}>>}, pin \in {None, 1, 2},
          start \in {None, 1}, end \in {None, 2, 3}, type \in {"joinmarket", "wasabi2"}, bounded \in BOOLEAN :
           LET index == [blocks |-> 4, txs |-> ("t1" :> Tx(h1, v1, 2)) @@ ("t2" :> Tx(h2, v2, 2))]
               args == [Args("external", type) EXCEPT !.pin_height = pin, !.scan_start_height = start,
                                                      !.scan_end_height = end]
           IN input' = [kind |-> "report", wrote |-> args,
                        args |-> IF bounded THEN args ELSE Args("external", type),
                        run |-> ReportRun(index, [t \in members |-> Base(None, 2)], sidecars, << >>, Image)]

PickEmulated ==
    /\ input = Start
    /\ \E h1, h2 \in 1..2, v \in {"true", "false", "timeout"}, paid \in {1, 2}, top \in 2..3,
          members \in {{}, {"t1"}, {"t1", "t2"}}, blocks \in {<<BlockAt(1, "t1"), BlockAt(2, "t2")>>, <<BlockAt(1, "t1")>>},
          mode \in {"emulator", "external"}, type \in {"joinmarket", "wasabi2"}, image \in {Image, [Image EXCEPT !.repo_digest = None]} :
           LET index == [blocks |-> top, txs |-> ("t1" :> Tx(h1, "true", 2)) @@ ("t2" :> Tx(h2, v, 2))]
           IN /\ h1 < top /\ h2 < top
              /\ input' = [kind |-> "report", args |-> Args("emulator", "joinmarket"), wrote |-> Args(mode, type),
                           run |-> ReportRun(index, [t \in members |-> Base(None, paid)], << >>, blocks, image)]

\* Wallets and clusters of up to five addresses.
PickClusters ==
    /\ input = Start
    /\ \E labels \in [1..4 -> {"w1", "w2"}], predicted \in UNION {[S -> 1..3] : S \in {1..4, {1, 2, 3, 5}}} :
           input' = [kind |-> "clusters", labels |-> labels, predicted |-> predicted]

-----------------------------------------------------------------------------
\* Archives of up to three files over four heights, and the requests on them.
HeightRanges == {r \in (0..3) \X (0..3) : r[1] <= r[2]}
Archives ==
    LET File(n, ranges) == [number |-> n, size |-> 1, sha256 |-> n, ranges |-> ranges]
    IN {<<File(0, {a}), File(1, {b, d}), File(2, {e})>> :
            a \in {<<0, 0>>, <<0, 1>>, <<0, 3>>, <<1, 2>>}, b \in HeightRanges, d \in {<<2, 2>>, <<0, 1>>, <<3, 3>>}, e \in HeightRanges}

PickArchive ==
    /\ input = Start
    /\ \E sidecars \in Archives, max \in 0..3, done \in {None} \cup (0..2), last \in 0..2, changed \in 1..3 :
           input' = [kind |-> "archive", sidecars |-> sidecars, changed |-> changed,
                     request |-> [max_block |-> max,
                                  source |-> IF done = None THEN None
                                             ELSE [max_block |-> done, last_file |-> last,
                                                   digest |-> index_sha256(sidecars, last)]]]

\* Graphs of three stages, with dependencies on themselves and on an unknown stage.
PickGraph ==
    /\ input = Start
    /\ \E after \in [1..3 -> SUBSET {"a", "b", "c", "d"}] :
           input' = [kind |-> "graph",
                     stages |-> [i \in 1..3 |-> Stage(<<"a", "b", "c">>[i], "work", "pbs", after[i])]]

-----------------------------------------------------------------------------
\* Accepted configurations of the S3 actions.
S3Settings == {"artifact_uri", "endpoint_url", "secret_name", "credentials_file", "profile"}

PickStages ==
    /\ input = Start
    /\ \E action \in {"full-run", "pbs-from-s3"}, stages \in SUBSET {"analysis", "blocksci", "mappings"},
          workflow \in Workflows, task \in Tasks, extra \in SUBSET {"dumplings_uri", "unified_report_resources"},
          source \in {None, "target", "other"}, index \in {None, "storage", "brno"} :
           LET c == from_mapping([action |-> action, backend |-> "s3", driver |-> "kubernetes", run_id |-> "target",
                                  workflow |-> workflow, task |-> task, cache_source_run_id |-> source,
                                  index_dir |-> index, multijob |-> IF index = "brno" THEN index ELSE None,
                                  script |-> IF task = "script" THEN "file" ELSE None],
                                 S3Settings \cup {"reuse_namespace"} \cup stages \cup extra
                                 \cup (IF task = "external" THEN {"external_baseline_uri"} ELSE {}))
           IN /\ validate(c)
              /\ input' = [kind |-> "configuration", c |-> c]

\* Index jobs with every kind of source.
PickIndexJob ==
    /\ input = Start
    /\ \E task \in Tasks, workflow \in {"reusable", "cached"}, source \in {None, "target", "other"},
          index \in {None, "storage", "elsewhere"},
          given \in SUBSET {"external_bitcoin_datadir", "bitcoin_blocks_uri", "external_blocksci_dir",
                            "index_backup_uri", "index_in_scratch", "restore_index"},
          chain \in {<<None, None>>, <<"bitcoin", None>>, <<"bitcoin", "hash">>, <<"bitcoin_regtest", "invalid">>} :
           LET c == from_mapping([action |-> "pbs-from-s3", run_id |-> "target", workflow |-> workflow, task |-> task,
                                  cache_source_run_id |-> source, index_dir |-> index,
                                  network |-> chain[1], expected_block_hash |-> chain[2],
                                  script |-> IF task = "script" THEN "file" ELSE None],
                                 S3Settings \cup {"blocksci"} \cup given
                                 \cup (IF chain[1] = None THEN {} ELSE {"max_block"})
                                 \cup (IF task = "external" THEN {"external_baseline_uri"} ELSE {}))
           IN /\ validate(c)
              /\ input' = [kind |-> "configuration", c |-> c]

\* The height bounds of an external comparison over an index of three or four blocks.
PickHeights ==
    /\ input = Start
    /\ \E pin, start, end \in {None} \cup (0..4), blocks \in {3, 4} :
           LET c == from_mapping([action |-> "pbs-from-s3", run_id |-> "target", workflow |-> "cached",
                                  task |-> "external", pin_height |-> pin, scan_start_height |-> start,
                                  scan_end_height |-> end],
                                 S3Settings \cup {"blocksci", "external_baseline_uri"})
           IN /\ c # None
              /\ validate(c)
              /\ input' = [kind |-> "heights", c |-> c, blocks |-> blocks]

\* Analyzer operations, submitted to PBS or run locally.
ToolsOn == {from_mapping([action |-> "pbs-from-s3", run_id |-> "target"], S3Settings \cup {"analysis"}),
            from_mapping([action |-> "coinjoin-analysis"], {"run_dir"})}
NoResearch == [txid |-> None, tx_hex |-> None, transaction_file |-> None, coordinator_file |-> None,
               indices |-> << >>, allow_network |-> FALSE]
ResearchNames(r) == {n \in DOMAIN r : r[n] # NoResearch[n]}

PickTools ==
    /\ input = Start
    /\ \E c \in ToolsOn, program \in DOMAIN PROGRAM_ACTIONS \ RESEARCH_PROGRAMS, mode \in {"emulation", "mainnet"},
          targets \in {<< >>, <<Inside>>, <<Outside>>}, from \in {None, "uri", "dir"}, file, config \in {None, Inside} :
           \E actions \in SeqOf(PROGRAM_ACTIONS[program] \cup {"collect_local"}, 1) :
               input' = [kind |-> "tools", c |-> c,
                         t |-> NoResearch @@ [program |-> program, actions |-> actions, data_mode |-> mode,
                                              targets |-> targets, input |-> from, filename |-> file,
                                              load_config |-> config, env_vars |-> FALSE, research |-> {}]]

PickResearch ==
    /\ input = Start
    /\ \E c \in ToolsOn, program \in RESEARCH_PROGRAMS, mode \in {"emulation", "mainnet"},
          targets \in {<< >>, <<Inside>>}, from \in {None, "uri", "dir"},
          txid, hex \in {None, "good"}, file, coordinator \in {None, Inside}, indices \in {<< >>, <<0>>}, online \in BOOLEAN :
           LET research == [txid |-> txid, tx_hex |-> hex, transaction_file |-> file, coordinator_file |-> coordinator,
                            indices |-> indices, allow_network |-> online]
           IN input' = [kind |-> "tools", c |-> c,
                        t |-> research @@ [program |-> program, actions |-> << >>, data_mode |-> mode,
                                           targets |-> targets, input |-> from, filename |-> None,
                                           load_config |-> None, env_vars |-> FALSE,
                                           research |-> ResearchNames(research)]]

-----------------------------------------------------------------------------
\* Configurations of every action on a host that lacks at most one thing.
WholeHost == [tools |-> {"runtime", "kubectl", "qsub", "qstat", "qdel", "s5cmd"}, daemon |-> TRUE,
              local |-> {"emulator"}, registry |-> {"coinjoin_analysis", "blocksci", "mappings", "sake"},
              kubeconfig |-> TRUE, run_dirs |-> {"run"}, blocks |-> {"chain"}, writable |-> TRUE,
              copies |-> TRUE]
Hosts == {WholeHost, [WholeHost EXCEPT !.daemon = FALSE], [WholeHost EXCEPT !.local = {}],
          [WholeHost EXCEPT !.kubeconfig = FALSE], [WholeHost EXCEPT !.run_dirs = {}],
          [WholeHost EXCEPT !.blocks = {}], [WholeHost EXCEPT !.writable = FALSE],
          [WholeHost EXCEPT !.copies = FALSE]}
         \cup {[WholeHost EXCEPT !.tools = @ \ {tool}] : tool \in WholeHost.tools}
         \cup {[WholeHost EXCEPT !.registry = @ \ {image}] : image \in WholeHost.registry}

Program == NoResearch @@ [program |-> "parse_cj_logs", actions |-> <<"collect_docker">>, data_mode |-> "emulation",
                          targets |-> << >>, input |-> None, filename |-> None, load_config |-> None,
                          env_vars |-> FALSE, research |-> {}]

\* The options an action cannot do without.
Needed(action, s3) ==
    (IF action \in {"analyze", "export", "coinjoin-analysis", "mappings"} THEN {"run_dir"} ELSE {})
    \cup (IF action = "clean" THEN {"yes"} ELSE {})
    \cup (IF action = "external analyze" THEN {"external.bitcoin_datadir", "external.baseline"} ELSE {})
    \cup (IF s3 THEN S3Settings \cup (IF action \in Fresh THEN {"reuse_namespace"} ELSE {}) ELSE {})

PickHost ==
    /\ input = Start
    /\ \E action \in Actions, driver \in {"docker", "kubernetes"}, s3 \in BOOLEAN, program \in {None, Program},
          stages \in SUBSET StageSwitches, extra \in {{}, {"blocksci_resources"}, {"dry_run"}, {"copy_to_host"}},
          written \in {None, "chain"}, read \in {None, "chain", "other"} :
           LET c == resolve_configuration(
                        from_mapping([action |-> action, backend |-> IF s3 THEN "s3" ELSE "shared-storage",
                                      driver |-> driver, coinjoin_analysis |-> program,
                                      run_id |-> IF action \in {"pbs-from-s3", "external analyze"} THEN "target" ELSE None,
                                      btc_datadir |-> written, pbs_bitcoin_datadir |-> read],
                                     Needed(action, s3 \/ action = "pbs-from-s3") \cup stages \cup extra), stages)
           IN /\ c # None
              /\ \E host \in Hosts : input' = [kind |-> "host", c |-> c, host |-> host]

\* Locators and directories of a synchronization, with one YAML node for two of them or none.
Buckets == {<<"bucket", "sync">>, <<"bucket", "sync", "core">>, <<"bucket", "sync-restore-check">>,
            <<"bucket", "core">>, <<"bucket">>, <<"bucket", "sync-restore-check", "target">>}
Directories == {<<"brno", "data", "core">>, <<"brno", "data", "index">>, <<"brno", "data">>,
                <<"storage", "data", "index">>, <<"brno", "data", "core", "index">>}

PickSync ==
    /\ input = Start
    /\ \E state, backup, index_backup \in Buckets, aliased \in BOOLEAN, run \in {"target", "invalid", None},
          root, index \in Directories, other \in {"brno", "plzen"}, pinned \in BOOLEAN :
           LET s == [prefix |-> [state |-> state, backup |-> backup, index_backup |-> index_backup,
                                 dumplings |-> <<"scan", "d">>, blocks |-> <<"scan", "b">>],
                     node |-> [p \in Locators |-> IF aliased /\ p = "backup" THEN "state" ELSE p],
                     run_id |-> run, access |-> TRUE, root |-> root, index_dir |-> index,
                     multijob |-> [stage \in SYNC_STAGES |-> IF stage = "pack" THEN other ELSE "brno"],
                     unused |-> FALSE, stages |-> {}, driver |-> "docker", unsafe |-> FALSE,
                     network |-> "bitcoin", scan_start_height |-> IF pinned THEN 1 ELSE None]
           IN /\ aliased => state = backup
              /\ configuration_errors(s) \subseteq {"nested"}
              /\ input' = [kind |-> "sync", s |-> s]

-----------------------------------------------------------------------------
\* Commands on one run directory: two imports of one run ID and a resumed one, an import beside an
\* export, two emulations, and the local analyses under different locks.
Cmd(action, run_dir) == [action |-> action, resume |-> FALSE, dry_run |-> FALSE, run_dir |-> run_dir, other |-> FALSE]
External(resume) == [Cmd("external", FALSE) EXCEPT !.resume = resume]
Casts == {[folder |-> NoFolder, cmds |-> <<External(FALSE), External(FALSE), External(TRUE)>>],
          [folder |-> NoFolder, cmds |-> <<External(FALSE), Cmd("export", TRUE), External(TRUE)>>],
          [folder |-> NoFolder, cmds |-> <<External(FALSE), [External(FALSE) EXCEPT !.dry_run = TRUE], Cmd("coinjoin-analysis", TRUE)>>],
          [folder |-> EmulatedRun, cmds |-> <<Cmd("emulate", FALSE), Cmd("emulate", FALSE), Cmd("coinjoin-analysis", FALSE)>>],
          [folder |-> EmulatedRun, cmds |-> <<Cmd("analyze", TRUE), Cmd("coinjoin-analysis", FALSE), Cmd("export", TRUE)>>],
          [folder |-> EmulatedRun, cmds |-> <<Cmd("analyze", TRUE), Cmd("coinjoin-analysis", TRUE),
                                           [Cmd("analyze", TRUE) EXCEPT !.other = TRUE]>>]}

\* Every choice is one that FolderInit allows.
ASSUME CastsBegin == \A c \in Casts : c.cmds \in Assignments /\ c.folder \in {NoFolder, EmulatedRun}

PickCommands ==
    /\ input = Start
    /\ \E c \in Casts :
           /\ input' = [kind |-> "commands"]
           /\ folder' = c.folder
           /\ cmd' = c.cmds
           /\ at' = [p \in Host |-> StartLabel(c.cmds[p])]
    /\ UNCHANGED <<seen, held, killed, overtaken, early>>

\* Watches of a run with a stale job: of the jobs, of the pod, of the front end's log.
Want(kubernetes, pbs, follow, frontend, logged, described) ==
    [kubernetes |-> kubernetes, pbs |-> pbs, follow |-> follow, frontend |-> frontend,
     recorded |-> [followed |-> 1, stale |-> 9], logged |-> logged, given |-> << >>, described |-> described]
Watches == {Want(FALSE, TRUE, TRUE, FALSE, << >>, {1}), Want(TRUE, TRUE, TRUE, FALSE, [followed |-> 2], {1, 2}),
            Want(FALSE, FALSE, TRUE, TRUE, << >>, {1}), Want(FALSE, TRUE, TRUE, FALSE, << >>, {}),
            Want(TRUE, TRUE, FALSE, FALSE, << >>, {1}), Want(FALSE, FALSE, FALSE, TRUE, << >>, {1})}

\* Every watch is one that WatchInit allows.
ASSUME WatchesBegin == Watches \subseteq Wants

PickWatch ==
    /\ input = Start
    /\ \E w \in Watches : wants' = w
    /\ input' = [kind |-> "watch"]
    /\ watch' = [watch EXCEPT !.at = "discover"]
    /\ UNCHANGED <<job, logs, poll, tails, queue, shown>>

-----------------------------------------------------------------------------
vars == <<input, folderVars, watchVars>>

Init == input = Start /\ IdleFolder /\ IdleWatch

Pick ==
    \/ PickSearch
    \/ PickJoinMarket
    \/ PickWasabi
    \/ PickLiquidity
    \/ PickLabels
    \/ PickExternal
    \/ PickEmulated
    \/ PickClusters
    \/ PickArchive
    \/ PickGraph
    \/ PickStages
    \/ PickIndexJob
    \/ PickHeights
    \/ PickTools
    \/ PickResearch
    \/ PickHost
    \/ PickSync

Next ==
    \/ Pick /\ UNCHANGED <<folderVars, watchVars>>
    \/ PickCommands /\ UNCHANGED watchVars
    \/ PickWatch /\ UNCHANGED folderVars
    \/ FolderNext /\ UNCHANGED <<input, watchVars>>
    \/ WatchNext /\ UNCHANGED <<input, folderVars>>

Spec == Init /\ [][Next]_vars /\ WatchFairness
=============================================================================
