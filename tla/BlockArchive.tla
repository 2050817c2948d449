---------------------------- MODULE BlockArchive ----------------------------
(***************************************************************************)
(* The block archive a parse or update job reads (execution/               *)
(* block_archive.py): which block files it downloads and what it checks    *)
(* before the parser runs.                                                 *)
(*                                                                         *)
(* An archive is the sequence of its sidecars in file order, each          *)
(* [number, size, sha256, ranges] with the closed height ranges its file   *)
(* holds; file numbers start at 0.  The files a job downloads are a set of *)
(* sidecars: it reads them back in the order of their numbers.  A request  *)
(* is [max_block, source], the source None for a parse and [max_block,     *)
(* last_file, digest] for the index an update extends.                     *)
(***************************************************************************)
EXTENDS Records

CONSTANT TipMargin             \* files past the target height kept for the parser, TIP_MARGIN

ASSUME TipMarginAssumption == TipMargin \in Nat

lowest_height(sidecar) == Min({r[1] : r \in sidecar.ranges})

holds_any(sidecar, low, high) == \E r \in sidecar.ranges : r[1] <= high /\ r[2] >= low

\* None for a sidecar the job refuses.
read_sidecar(entry) ==
    IF entry.size = None \/ entry.sha256 = None \/ entry.ranges = {} \/ \E r \in entry.ranges : r[2] < r[1]
    THEN None ELSE entry

read_sidecars(entries) == [i \in DOMAIN entries |-> read_sidecar(entries[i])]

Readable(entries) == entries # << >> /\ None \notin Range(read_sidecars(entries))

\* The files from `first` on are numbered without a gap, and there is one.
require_contiguous(files, first) ==
    LET numbers == {s.number : s \in {f \in files : f.number >= first}}
    IN numbers # {} /\ \A n \in numbers : first..n \subseteq numbers

\* The digest of the files up to `last`: equal digests mean equal names and checksums.
index_sha256(sidecars, last) ==
    LET indexed == SubSeq(sidecars, 1, Min({last + 1, Len(sidecars)}))
    IN [i \in DOMAIN indexed |-> <<indexed[i].number, indexed[i].sha256>>]

\* MUTANT: the last file is the last one that starts at the target height or below, in file order.
MutLastFileNeeded(sidecars, maxBlock) ==
    LET early == {i \in DOMAIN sidecars : lowest_height(sidecars[i]) <= maxBlock}
        run == {i \in early : \A j \in 1..i : j \in early}
    IN IF run = {} THEN None ELSE sidecars[Max(run)].number

\* None when no file is low enough.
last_file_needed(sidecars, maxBlock) ==
    LET numbers == {s.number : s \in {t \in Range(sidecars) : lowest_height(t) <= maxBlock + TipMargin}}
    IN IF numbers = {} THEN None ELSE Max(numbers)

\* MUTANT: an update reads only the files its index has not indexed yet.
MutPlanFiles(sidecars, request) ==
    LET last == last_file_needed(sidecars, request.max_block)
    IN IF last = None THEN None
       ELSE IF request.source = None THEN Range(SubSeq(sidecars, 1, last + 1))
       ELSE Range(SubSeq(sidecars, request.source.last_file + 1, Max({request.source.last_file, last}) + 1))

\* The files to download, None when the archive cannot serve the request.
plan_files(sidecars, request) ==
    LET last == last_file_needed(sidecars, request.max_block)
        source == request.source
        older == {s \in Range(SubSeq(sidecars, 1, source.last_file)) :
                     holds_any(s, source.max_block + 1, request.max_block)}
    IN IF ~require_contiguous(Range(sidecars), 0) \/ last = None THEN None
       ELSE IF source = None THEN Range(SubSeq(sidecars, 1, last + 1))
       ELSE IF \/ request.max_block <= source.max_block
               \/ source.last_file >= Len(sidecars)
               \/ index_sha256(sidecars, source.last_file) # source.digest
            THEN None
       ELSE older \cup Range(SubSeq(sidecars, source.last_file + 1, Max({source.last_file, last}) + 1))

\* What the next manifest records of the files this index has seen.
select(sidecars, request) ==
    LET chosen == plan_files(sidecars, request)
        last == Max({s.number : s \in chosen})
    IN IF chosen = None THEN None
       ELSE [chosen |-> chosen, last_file |-> last, digest |-> index_sha256(sidecars, last)]

\* The next height once the sweep over the sorted ranges ends: it starts at `from`, every range
\* moves it past its end, and the first range that starts past it ends the sweep.
Before(a, b) == a[1] < b[1] \/ (a[1] = b[1] /\ a[2] < b[2])
Past(from, pairs) == Max({from} \cup {p[2] + 1 : p \in pairs})
Joins(from, pairs, p) == p[1] <= Past(from, {q \in pairs : Before(q, p)})
Swept(from, pairs) == {p \in pairs : \A q \in pairs : ~Before(p, q) => Joins(from, pairs, q)}
NextHeight(files, from) ==
    LET pairs == UNION {s.ranges : s \in files} IN Past(from, Swept(from, pairs))

\* The downloaded files match their sidecars and cover the heights the parser reads.
verify(downloaded, actual, request) ==
    LET from == IF request.source = None THEN 0 ELSE request.source.max_block + 1
        first == IF request.source = None THEN 0 ELSE request.source.last_file
    IN /\ require_contiguous(downloaded, first)
       /\ \A s \in downloaded : actual[s.number] = s.sha256
       /\ NextHeight(downloaded, from) > request.max_block

-----------------------------------------------------------------------------
\* An archive that covers the heights of a request loses none of them to the selection: the files
\* block_archive.py:160-172 picks pass the coverage check of lines 228-237, whatever order the
\* heights have in the files.
SelectionKeepsCoverage(sidecars, request) ==
    LET from == IF request.source = None THEN 0 ELSE request.source.max_block + 1
        selection == select(sidecars, request)
        stored == [n \in 0..(Len(sidecars) - 1) |-> sidecars[n + 1].sha256]
    IN Readable(sidecars) /\ selection # None /\ NextHeight(Range(sidecars), from) > request.max_block
       => verify(selection.chosen, stored, request)

\* The files an index has seen are pinned: once one of them is stored anew, no later update of
\* that index is served (block_archive.py:120-125, 168-169).
IndexedFilesPinned(sidecars, request, changed) ==
    LET parsed == select(sidecars, [max_block |-> request.max_block, source |-> None])
        later == [i \in DOMAIN sidecars |->
                     IF i = changed THEN [sidecars[i] EXCEPT !.sha256 = -1] ELSE sidecars[i]]
        update == [max_block |-> request.max_block + 1,
                   source |-> [max_block |-> request.max_block, last_file |-> parsed.last_file, digest |-> parsed.digest]]
    IN parsed # None /\ changed <= parsed.last_file + 1 => plan_files(later, update) = None
=============================================================================
