----------------------------- MODULE IndexLock -----------------------------
(***************************************************************************)
(* The lock of a persistent BlockSci index (execution/pbs/index_store.py): *)
(* one writer or many readers, kept as directories under <index>/.lock.    *)
(*                                                                         *)
(* The model works at the grain of the file system calls other jobs can    *)
(* see.  A lock entry is built aside and renamed into place, which is one  *)
(* step; shutil.rmtree empties the directory and then removes it, which is *)
(* two, and rename() may replace the empty directory in between.           *)
(* clear_expired reads an entry's expiry and removes the entry in later    *)
(* steps, by path, so the entry it removes need not be the one it read.    *)
(*                                                                         *)
(* Time is left out but for two facts.  A call may give up at any poll,    *)
(* since its deadline may have passed by then.  An entry's expiry lies     *)
(* 600 s after its job's walltime, so only the entry of a job that is gone *)
(* expires.                                                                *)
(***************************************************************************)
EXTENDS Naturals, FiniteSets

CONSTANTS Writers,    \* jobs that call lock_exclusive (parse, update, sync)
          Readers,    \* jobs that call lock_shared (backup, analyses)
          WriterDir,  \* the path .lock/writer
          Absent,     \* no directory at a path
          Empty       \* a directory without its job and expires files

Jobs == Writers \cup Readers
Paths == {WriterDir} \cup Readers      \* .lock/writer and .lock/readers/<job>
Entries == {Absent, Empty} \cup Jobs   \* what may be at a path

ASSUME LockAssumption ==
    /\ Writers \cap Readers = {}
    /\ WriterDir \notin Readers
    /\ Absent # Empty
    /\ {Absent, Empty} \cap Jobs = {}

VARIABLES
    dir,      \* dir[p]: the entry at path p; a job stands for its full entry
    pc,       \* pc[j]: the next step of job j
    held,     \* jobs whose self.held is set
    todo,     \* todo[j]: entries clear_expired has listed and not yet looked at
    victim,   \* victim[j]: the path the running rmtree removes
    ret,      \* ret[j]: the step that follows that rmtree
    expired,  \* jobs whose entry's expiry has passed
    robbed    \* history: jobs whose entry another job emptied under them

vars == <<dir, pc, held, todo, victim, ret, expired, robbed>>

Labels == {"idle", "list", "clear", "rmtree", "rmdir", "create", "recheck",
           "drain", "wait", "locked", "done", "failed", "dead"}

Ended == {"done", "failed", "dead"}
IsDir(p) == dir[p] # Absent
OwnPath(j) == IF j \in Writers THEN WriterDir ELSE j

\* The job counts on its entry: it holds the lock or is about to.
Relies(j) == j \in held \/ pc[j] = "recheck"

Init ==
    /\ dir = [p \in Paths |-> Absent]
    /\ pc = [j \in Jobs |-> "idle"]
    /\ held = {}
    /\ todo = [j \in Jobs |-> {}]
    /\ victim = [j \in Jobs |-> WriterDir]
    /\ ret = [j \in Jobs |-> "idle"]
    /\ expired = {}
    /\ robbed = {}

-----------------------------------------------------------------------------
(***************************************************************************)
(* Pieces of the calls.                                                    *)
(***************************************************************************)
GoTo(j, label) == pc' = [pc EXCEPT ![j] = label]

\* shutil.rmtree(p), after which the job goes on at label next.
StartRmtree(j, p, next) ==
    /\ GoTo(j, "rmtree")
    /\ victim' = [victim EXCEPT ![j] = p]
    /\ ret' = [ret EXCEPT ![j] = next]

\* _create succeeds unless an entry with its files is at the job's path.
CanCreate(j) == dir[OwnPath(j)] \in {Absent, Empty}

\* An entry counts as expired when its expiry has passed or cannot be read.
CountsAsExpired(p) == dir[p] = Empty \/ dir[p] \in expired

-----------------------------------------------------------------------------
(***************************************************************************)
(* clear_expired and rmtree, shared by every caller.  clear_expired lists  *)
(* the writer entry and the reader entries of the moment and then looks at *)
(* them one by one.                                                        *)
(***************************************************************************)
ListEntries(j) ==
    /\ pc[j] = "list"
    /\ GoTo(j, "clear")
    /\ todo' = [todo EXCEPT ![j] = {p \in Paths : p = WriterDir \/ IsDir(p)}]
    /\ UNCHANGED <<dir, held, victim, ret, expired, robbed>>

\* Decides on one listed entry; the removal that follows goes by path.
InspectEntry(j) ==
    /\ pc[j] = "clear"
    /\ \E p \in todo[j] :
        /\ todo' = [todo EXCEPT ![j] = @ \ {p}]
        /\ IF CountsAsExpired(p)
             THEN StartRmtree(j, p, "clear")
             ELSE UNCHANGED <<pc, victim, ret>>
    /\ UNCHANGED <<dir, held, expired, robbed>>

\* rmtree unlinks the files of whatever entry is at the path now.
RmtreeFiles(j) ==
    /\ pc[j] = "rmtree"
    /\ GoTo(j, "rmdir")
    /\ LET p == victim[j] IN
        /\ dir' = IF IsDir(p) THEN [dir EXCEPT ![p] = Empty] ELSE dir
        /\ robbed' = robbed \cup {k \in Jobs \ {j} : dir[p] = k /\ Relies(k)}
    /\ UNCHANGED <<held, todo, victim, ret, expired>>

\* rmtree removes the directory unless a new entry replaced the empty one.
RmtreeDir(j) ==
    /\ pc[j] = "rmdir"
    /\ GoTo(j, ret[j])
    /\ dir' = IF dir[victim[j]] = Empty THEN [dir EXCEPT ![victim[j]] = Absent] ELSE dir
    /\ victim' = [victim EXCEPT ![j] = WriterDir]
    /\ ret' = [ret EXCEPT ![j] = "idle"]
    /\ UNCHANGED <<held, todo, expired, robbed>>

\* unlock, and the job's next step after it.
Unlock(j, next) ==
    /\ StartRmtree(j, OwnPath(j), next)
    /\ held' = held \ {j}
    /\ UNCHANGED <<dir, todo, expired, robbed>>

-----------------------------------------------------------------------------
(***************************************************************************)
(* lock_shared.                                                            *)
(***************************************************************************)
LockShared(r) ==
    /\ pc[r] = "idle"
    /\ GoTo(r, "list")
    /\ UNCHANGED <<dir, held, todo, victim, ret, expired, robbed>>

\* The first look at the writer entry, after clear_expired.
CheckWriter(r) ==
    /\ pc[r] = "clear" /\ todo[r] = {}
    /\ GoTo(r, IF IsDir(WriterDir) THEN "wait" ELSE "create")
    /\ UNCHANGED <<dir, held, todo, victim, ret, expired, robbed>>

CreateReader(r) ==
    /\ pc[r] = "create"
    /\ IF CanCreate(r)
         THEN dir' = [dir EXCEPT ![r] = r] /\ GoTo(r, "recheck")
         ELSE dir' = dir /\ GoTo(r, "wait")
    /\ UNCHANGED <<held, todo, victim, ret, expired, robbed>>

\* Mutant: no second look.
MutNoRecheck(r) ==
    /\ pc[r] = "recheck"
    /\ GoTo(r, "locked")
    /\ held' = held \cup {r}
    /\ UNCHANGED <<dir, todo, victim, ret, expired, robbed>>

\* The second look: a writer that arrived in between makes the reader step back.
RecheckWriter(r) ==
    /\ pc[r] = "recheck"
    /\ IF IsDir(WriterDir)
         THEN StartRmtree(r, r, "wait") /\ held' = held
         ELSE /\ GoTo(r, "locked")
              /\ held' = held \cup {r}
              /\ UNCHANGED <<victim, ret>>
    /\ UNCHANGED <<dir, todo, expired, robbed>>

\* _wait: sleep and try again, or give up once the deadline has passed.
RetryShared(r) ==
    /\ pc[r] = "wait"
    /\ GoTo(r, "list")
    /\ UNCHANGED <<dir, held, todo, victim, ret, expired, robbed>>

\* Mutant: the deadline starts anew with every poll.
MutNeverGiveUp(r) ==
    /\ pc[r] = "wait"
    /\ GoTo(r, "list")
    /\ UNCHANGED <<dir, held, todo, victim, ret, expired, robbed>>

GiveUpShared(r) ==
    /\ pc[r] = "wait"
    /\ GoTo(r, "failed")
    /\ UNCHANGED <<dir, held, todo, victim, ret, expired, robbed>>

-----------------------------------------------------------------------------
(***************************************************************************)
(* lock_exclusive.                                                         *)
(***************************************************************************)
CreateWriter(w) ==
    /\ pc[w] \in {"idle", "create"}
    /\ IF CanCreate(w)
         THEN /\ dir' = [dir EXCEPT ![WriterDir] = w]
              /\ held' = held \cup {w}
              /\ GoTo(w, "drain")
         ELSE /\ GoTo(w, "list")
              /\ UNCHANGED <<dir, held>>
    /\ UNCHANGED <<todo, victim, ret, expired, robbed>>

\* With the writer entry in place, wait for the readers that were there first.
DrainReaders(w) ==
    /\ pc[w] = "drain"
    /\ GoTo(w, IF \E r \in Readers : IsDir(r) THEN "list" ELSE "locked")
    /\ UNCHANGED <<dir, held, todo, victim, ret, expired, robbed>>

\* After clear_expired: the next attempt, to create the entry or to drain readers.
RetryExclusive(w) ==
    /\ pc[w] = "clear" /\ todo[w] = {}
    /\ GoTo(w, IF w \in held THEN "drain" ELSE "create")
    /\ UNCHANGED <<dir, held, todo, victim, ret, expired, robbed>>

\* Mutant: the writer entry stays.
MutGiveUpLocked(w) ==
    /\ pc[w] = "clear" /\ todo[w] = {}
    /\ GoTo(w, "failed")
    /\ held' = held \ {w}
    /\ UNCHANGED <<dir, todo, victim, ret, expired, robbed>>

\* Past the deadline; a writer that waited for readers unlocks first.
GiveUpExclusive(w) ==
    /\ pc[w] = "clear" /\ todo[w] = {}
    /\ IF w \in held
         THEN Unlock(w, "failed")
         ELSE GoTo(w, "failed") /\ UNCHANGED <<dir, held, todo, victim, ret, expired, robbed>>

-----------------------------------------------------------------------------
(***************************************************************************)
(* The holder and the scheduler around the calls.                          *)
(***************************************************************************)
\* The job is done with the index.
Release(j) == pc[j] = "locked" /\ Unlock(j, "done")

\* SIGKILL, OOM or the node: the job and its memory are gone, its entry stays.
Killed(j) ==
    /\ pc[j] \notin Ended \cup {"idle"}
    /\ GoTo(j, "dead")
    /\ held' = held \ {j}
    /\ todo' = [todo EXCEPT ![j] = {}]
    /\ victim' = [victim EXCEPT ![j] = WriterDir]
    /\ ret' = [ret EXCEPT ![j] = "idle"]
    /\ UNCHANGED <<dir, expired, robbed>>

\* Walltime and 600 s later the expiry in the entry of a killed job has passed.
Expires(j) ==
    /\ pc[j] = "dead" /\ j \notin expired
    /\ expired' = expired \cup {j}
    /\ UNCHANGED <<dir, pc, held, todo, victim, ret, robbed>>

GiveUp(j) == IF j \in Writers THEN GiveUpExclusive(j) ELSE GiveUpShared(j)
SharedStep(r) == CheckWriter(r) \/ CreateReader(r) \/ RecheckWriter(r) \/ RetryShared(r)
ExclusiveStep(w) == CreateWriter(w) \/ DrainReaders(w) \/ RetryExclusive(w)
ClearStep(j) == ListEntries(j) \/ InspectEntry(j) \/ RmtreeFiles(j) \/ RmtreeDir(j)

Next ==
    \/ \E r \in Readers : LockShared(r) \/ SharedStep(r)
    \/ \E w \in Writers : ExclusiveStep(w)
    \/ \E j \in Jobs : ClearStep(j) \/ GiveUp(j) \/ Release(j) \/ Killed(j) \/ Expires(j)

Spec == Init /\ [][Next]_vars

\* A job in the call keeps running.  Its deadline is a fixed moment, so a call
\* that polls again and again is past it at last: strong fairness of giving up.
\* Nothing forces a job to start, to let go of the index, or to be killed.
Fairness ==
    /\ \A r \in Readers : WF_vars(SharedStep(r))
    /\ \A w \in Writers : WF_vars(ExclusiveStep(w) /\ pc[w] # "idle")
    /\ \A j \in Jobs : WF_vars(ClearStep(j)) /\ SF_vars(GiveUp(j))

FairSpec == Spec /\ Fairness

-----------------------------------------------------------------------------
(***************************************************************************)
(* Properties.                                                             *)
(***************************************************************************)
\* Type invariant of the lock directory and of the jobs' local state.
TypeOK ==
    /\ dir \in [Paths -> Entries]
    /\ pc \in [Jobs -> Labels]
    /\ held \subseteq Jobs
    /\ todo \in [Jobs -> SUBSET Paths]
    /\ victim \in [Jobs -> Paths]
    /\ ret \in [Jobs -> Labels]
    /\ expired \subseteq Jobs
    /\ robbed \subseteq Jobs

\* "One writer or many readers" (index_store.py, line 13): a job that holds the
\* index for writing is the only job that holds it.
Exclusion ==
    \A w \in Writers, j \in Jobs :
        pc[w] = "locked" /\ pc[j] = "locked" => w = j

\* Two jobs are in each other's way only after clear_expired, or the unlock of
\* a job already robbed, removed the entry of a job that still counted on it:
\* the create/recheck and create/drain handshakes of lock_shared and
\* lock_exclusive by themselves exclude.
ExclusionUnlessRobbed == robbed = {} => Exclusion

\* A call that gave up or ended leaves no entry of its own, so later jobs are
\* not held up by it: lock_exclusive that times out on readers unlocks.
NoEntryLeftBehind ==
    \A j \in Jobs : pc[j] \in {"done", "failed"} => \A p \in Paths : dir[p] # j

\* A lock call always ends: it gets the lock, gives up at its deadline or is
\* killed, even while a notebook holds the index for days.
LockCallEnds ==
    \A j \in Jobs : pc[j] \notin Ended \cup {"idle", "locked"} ~> pc[j] \in Ended \cup {"locked"}

\* The handshakes over the file system are together one atomic lock: a job gets in only while
\* no holder and no entry of a killed job is in its way, and what a killed holder leaves stands,
\* as long as no job's entry is removed under it.
Claim(j) == [mode |-> IF j \in Writers THEN "exclusive" ELSE "shared", job |-> j]
Claims(jobs) == {Claim(j) : j \in jobs}
Holders == {j \in Jobs : pc[j] = "locked"}
Remains == {j \in Jobs : pc[j] = "dead" /\ dir[OwnPath(j)] = j}
Lock == INSTANCE SharedLock WITH
    holding <- Claims(Holders), left <- Claims(Remains), broken <- robbed # {}
ImplementsSharedLock == Lock!Spec
=============================================================================
