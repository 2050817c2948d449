---------------------------- MODULE SyncOptions -----------------------------
(***************************************************************************)
(* The options of mainnet-sync and the rules that keep its data apart      *)
(* (execution/mainnet_sync.py): five S3 prefixes, two working directories, *)
(* and the scratch dataset and state of a restore check.                   *)
(*                                                                         *)
(* A location is its sequence of path components.  The first component of  *)
(* a working directory is a multijob location or "storage".                *)
(***************************************************************************)
EXTENDS RunOptions

Locators == {"state", "backup", "index_backup", "dumplings", "blocks"}
SYNC_STAGES == {"restore", "producer", "blocksci", "checkpoint", "pack", "clear"}

Overlap(a, b) == IsPrefix(a, b) \/ IsPrefix(b, a)

\* Two prefixes are compared unless they are one Python object, as two aliases of a YAML anchor are.
_location_errors(s) ==
    LET present == {p \in Locators : s.prefix[p] # None}
    IN Violated([missing |-> None \in {s.prefix[p] : p \in Locators} \cup {s.run_id} \/ ~s.access,
                 invalid |-> s.run_id = "invalid",
                 nested |-> \E a, b \in present : s.node[a] # s.node[b] /\ IsPrefix(s.prefix[a], s.prefix[b])])

\* The Core and the index directory are apart, and a multijob scratch is the one every job asks for.
_working_directory_errors(s) ==
    LET directories == {s.root, s.index_dir}
        multijobs == Range(s.multijob)
    IN IF None \in directories THEN {"directory_missing"}
       ELSE Violated([shallow |-> \E d \in directories : Len(d) < 3,
                      nested_directories |-> Overlap(s.root, s.index_dir),
                      one_location |-> Cardinality(multijobs) # 1,
                      elsewhere |-> \E d \in directories : d[1] \in Locations /\ multijobs # {d[1]}])

configuration_errors(s) ==
    _location_errors(s) \cup _working_directory_errors(s)
    \cup Violated([unused_option |-> s.unused,
                   owns_its_jobs |-> s.stages # {},
                   apptainer_jobs |-> s.driver # "docker",
                   isolated_scan |-> s.network = "bitcoin" /\ s.scan_start_height # None,
                   unsafe_job |-> s.unsafe])

-----------------------------------------------------------------------------
\* What a job gets: its working directories, the state it may clear, and its index lock.
sync_settings(s, stage) ==
    [root |-> s.root, index_dir |-> s.index_dir, state |-> s.prefix["state"],
     index_lock |-> CASE stage \in {"restore", "blocksci", "clear"} -> "exclusive"
                      [] stage = "checkpoint" -> "shared"
                      [] OTHER -> None]

\* MUTANT: the restore check keeps the synchronization's state prefix.
MutRestoreCheck(s) ==
    [sync_settings(s, "restore") EXCEPT !.root = <<"work", "dataset", "core">>,
                                        !.index_dir = <<"work", "dataset", "index">>, !.index_lock = None]

\* The restore job with a scratch dataset, without the index lock, and with a state prefix beside
\* the synchronization's.
render_restore_check(s) ==
    LET state == s.prefix["state"]
        beside == Append(Front(state), Last(state) \o "-restore-check")
    IN [sync_settings(s, "restore") EXCEPT !.root = <<"work", "dataset", "core">>,
                                           !.index_dir = <<"work", "dataset", "index">>,
                                           !.state = Append(beside, s.run_id), !.index_lock = None]

-----------------------------------------------------------------------------
\* Prefixes nobody compares: aliases of one YAML node, and data kept below the name the restore
\* check derives from the state prefix.
Usual(s) ==
    LET state == s.prefix["state"]
    IN /\ IsInjective(s.node)
       /\ \A p \in Locators : ~IsPrefix(Append(Front(state), Last(state) \o "-restore-check"), s.prefix[p])

\* What a restore clears is its own.  The state prefix of an accepted synchronization and that of
\* its restore check lie apart from each other and from the backups, the scan and the blocks, and a
\* restore check has no directory of the working dataset, whose lock it does not take
\* (mainnet_sync.py:92-143, 238-264).
RestoreClearsItsOwn(s) ==
    LET checked == render_restore_check(s)
    IN configuration_errors(s) = {} /\ Usual(s) =>
       /\ \A p, q \in Locators : p # q => ~Overlap(s.prefix[p], s.prefix[q])
       /\ \A p \in Locators : ~Overlap(checked.state, s.prefix[p])
       /\ \A mine \in {checked.root, checked.index_dir}, theirs \in {s.root, s.index_dir} : ~Overlap(mine, theirs)
=============================================================================
