-------------------------- MODULE IndexLockProofs --------------------------
(***************************************************************************)
(* Proofs about the index lock, for any sets of jobs: the type invariant,  *)
(* mutual exclusion as long as no entry is removed under its live owner,   *)
(* that a call that ended leaves no entry, and that the calls implement    *)
(* SharedLock, one atomic lock that a killed holder keeps.                 *)
(*                                                                         *)
(* Exclusion alone is not inductive: LockInv adds that a job which counts  *)
(* on its entry still has it (Owns), that a job which holds the lock never *)
(* starts to remove its own entry (NoSuicide), and where in its call a     *)
(* holder can be (HolderAt).                                               *)
(***************************************************************************)
EXTENDS IndexLock, TLAPS

\* Only the entries of dead jobs expire, and a dead job holds nothing.
DeadOnly ==
    /\ \A j \in expired : pc[j] = "dead"
    /\ \A j \in held : pc[j] # "dead"

\* Where the holder of the lock, or a job in a given step, can be.
HolderAt ==
    /\ \A j \in Jobs : pc[j] \in {"locked", "drain"} => j \in held
    /\ \A r \in Readers : r \in held => pc[r] = "locked"
    /\ \A j \in held : pc[j] \in {"drain", "list", "clear", "rmtree", "rmdir", "locked"}
    /\ \A w \in Writers : pc[w] # "recheck"
    /\ \A j \in Jobs : ret[j] \in {"idle", "clear", "wait", "done", "failed"}
    /\ \A j \in held : pc[j] \in {"rmtree", "rmdir"} => ret[j] = "clear"

Owns == \A k \in Jobs : Relies(k) => dir[OwnPath(k)] = k

NoSuicide ==
    \A j \in held : pc[j] \in {"rmtree", "rmdir"} => victim[j] # OwnPath(j)

\* An entry is at its job's own path, and its job counts on it, is removing it,
\* or is dead.
EntryAt ==
    \A p \in Paths, j \in Jobs :
        dir[p] = j =>
            /\ p = OwnPath(j)
            /\ \/ Relies(j) \/ pc[j] = "dead"
               \/ pc[j] = "rmtree" /\ victim[j] = p

LockInv ==
    /\ TypeOK
    /\ EntryAt
    /\ DeadOnly
    /\ HolderAt
    /\ robbed = {} => Owns /\ NoSuicide /\ Exclusion

-----------------------------------------------------------------------------
\* The paths of two jobs differ unless both are writers.
LEMMA OwnPathFacts ==
    /\ \A j \in Jobs : OwnPath(j) \in Paths
    /\ \A w \in Writers : OwnPath(w) = WriterDir
    /\ \A r \in Readers : OwnPath(r) = r
    /\ \A j \in Jobs, r \in Readers : OwnPath(j) = r => j = r
  BY LockAssumption DEF OwnPath, Paths, Jobs

\* Every step of every job keeps the types.
LEMMA TypeStep == TypeOK /\ [Next]_vars => TypeOK'
<1> SUFFICES ASSUME TypeOK, [Next]_vars PROVE TypeOK'
  OBVIOUS
<1> USE OwnPathFacts DEF TypeOK, GoTo, Labels
<1>1. ASSUME NEW r \in Readers, LockShared(r) PROVE TypeOK'
  BY <1>1 DEF LockShared
<1>2. ASSUME NEW r \in Readers, CheckWriter(r) PROVE TypeOK'
  BY <1>2 DEF CheckWriter
<1>3. ASSUME NEW r \in Readers, CreateReader(r) PROVE TypeOK'
  BY <1>3 DEF CreateReader, Entries, Jobs
<1>4. ASSUME NEW r \in Readers, RecheckWriter(r) PROVE TypeOK'
  BY <1>4 DEF RecheckWriter, StartRmtree, Jobs, Paths
<1>5. ASSUME NEW r \in Readers, RetryShared(r) PROVE TypeOK'
  BY <1>5 DEF RetryShared
<1>6. ASSUME NEW w \in Writers, CreateWriter(w) PROVE TypeOK'
  BY <1>6 DEF CreateWriter, Entries, Jobs
<1>7. ASSUME NEW w \in Writers, DrainReaders(w) PROVE TypeOK'
  BY <1>7 DEF DrainReaders
<1>8. ASSUME NEW w \in Writers, RetryExclusive(w) PROVE TypeOK'
  BY <1>8 DEF RetryExclusive
<1>9. ASSUME NEW j \in Jobs, ListEntries(j) PROVE TypeOK'
  BY <1>9 DEF ListEntries
<1>10. ASSUME NEW j \in Jobs, InspectEntry(j) PROVE TypeOK'
  BY <1>10 DEF InspectEntry, StartRmtree
<1>11. ASSUME NEW j \in Jobs, RmtreeFiles(j) PROVE TypeOK'
  BY <1>11 DEF RmtreeFiles, Entries
<1>12. ASSUME NEW j \in Jobs, RmtreeDir(j) PROVE TypeOK'
  BY <1>12 DEF RmtreeDir, Entries, Paths
<1>13. ASSUME NEW j \in Jobs, GiveUp(j) PROVE TypeOK'
  BY <1>13 DEF GiveUp, GiveUpShared, GiveUpExclusive, Unlock, StartRmtree
<1>14. ASSUME NEW j \in Jobs, Release(j) PROVE TypeOK'
  BY <1>14 DEF Release, Unlock, StartRmtree
<1>15. ASSUME NEW j \in Jobs, Killed(j) PROVE TypeOK'
  BY <1>15 DEF Killed, Paths
<1>16. ASSUME NEW j \in Jobs, Expires(j) PROVE TypeOK'
  BY <1>16 DEF Expires
<1>17. CASE UNCHANGED vars
  BY <1>17 DEF vars
<1> QED
  BY <1>1, <1>2, <1>3, <1>4, <1>5, <1>6, <1>7, <1>8, <1>9, <1>10, <1>11, <1>12,
     <1>13, <1>14, <1>15, <1>16, <1>17
     DEF Next, SharedStep, ExclusiveStep, ClearStep

\* Type correctness of the lock directory and the jobs' local state.
THEOREM TypeCorrect == Spec => []TypeOK
<1>1. Init => TypeOK
  BY DEF Init, TypeOK, Paths, Entries, Labels
<1> QED
  BY <1>1, TypeStep, PTL DEF Spec

\* Every step of every job keeps the inductive invariant.
LEMMA LockStep == LockInv /\ [Next]_vars => LockInv'
<1> SUFFICES ASSUME LockInv, [Next]_vars PROVE LockInv'
  OBVIOUS
<1> DEFINE Safe == robbed = {} => Owns /\ NoSuicide /\ Exclusion
<1>t. TypeOK'
  BY TypeStep DEF LockInv
<1> USE OwnPathFacts, LockAssumption DEF LockInv, TypeOK, GoTo, Jobs
<1>1. ASSUME NEW r \in Readers, LockShared(r) PROVE DeadOnly' /\ HolderAt' /\ EntryAt' /\ Safe'
  <2>1. DeadOnly'
    BY <1>1 DEF LockShared, DeadOnly, HolderAt, Ended
  <2>2. HolderAt'
    BY <1>1 DEF LockShared, HolderAt, DeadOnly
  <2>3. EntryAt'
    BY <1>1 DEF LockShared, EntryAt, Relies, HolderAt, Entries
  <2>4. Safe'
    BY <1>1 DEF LockShared, Owns, NoSuicide, Exclusion, Relies, HolderAt, DeadOnly, Entries
  <2> QED
    BY <2>1, <2>2, <2>3, <2>4
<1>2. ASSUME NEW r \in Readers, CheckWriter(r) PROVE DeadOnly' /\ HolderAt' /\ EntryAt' /\ Safe'
  <2>1. DeadOnly'
    BY <1>2 DEF CheckWriter, DeadOnly, HolderAt, Ended
  <2>2. HolderAt'
    BY <1>2 DEF CheckWriter, HolderAt, DeadOnly
  <2>3. EntryAt'
    BY <1>2 DEF CheckWriter, EntryAt, Relies, HolderAt, Entries
  <2>4. Safe'
    BY <1>2 DEF CheckWriter, Owns, NoSuicide, Exclusion, Relies, HolderAt, DeadOnly, Entries
  <2> QED
    BY <2>1, <2>2, <2>3, <2>4
<1>3. ASSUME NEW r \in Readers, CreateReader(r) PROVE DeadOnly' /\ HolderAt' /\ EntryAt' /\ Safe'
  <2>1. DeadOnly'
    BY <1>3 DEF CreateReader, CanCreate, DeadOnly, HolderAt, Ended
  <2>2. HolderAt'
    BY <1>3 DEF CreateReader, CanCreate, HolderAt, DeadOnly
  <2>3. EntryAt'
    BY <1>3 DEF CreateReader, CanCreate, EntryAt, Relies, HolderAt, Entries
  <2>4. Safe'
    BY <1>3 DEF CreateReader, CanCreate, Owns, NoSuicide, Exclusion, Relies, HolderAt, DeadOnly, Entries
  <2> QED
    BY <2>1, <2>2, <2>3, <2>4
<1>4. ASSUME NEW r \in Readers, RecheckWriter(r) PROVE DeadOnly' /\ HolderAt' /\ EntryAt' /\ Safe'
  <2>1. DeadOnly'
    BY <1>4 DEF RecheckWriter, StartRmtree, IsDir, DeadOnly, HolderAt, Ended
  <2>2. HolderAt'
    BY <1>4 DEF RecheckWriter, StartRmtree, IsDir, HolderAt, DeadOnly
  <2>3. EntryAt'
    BY <1>4 DEF RecheckWriter, StartRmtree, IsDir, EntryAt, Relies, HolderAt, Entries
  <2>4. Safe'
    BY <1>4 DEF RecheckWriter, StartRmtree, IsDir, Owns, NoSuicide, Exclusion, Relies, HolderAt, DeadOnly, Entries
  <2> QED
    BY <2>1, <2>2, <2>3, <2>4
<1>5. ASSUME NEW r \in Readers, RetryShared(r) PROVE DeadOnly' /\ HolderAt' /\ EntryAt' /\ Safe'
  <2>1. DeadOnly'
    BY <1>5 DEF RetryShared, DeadOnly, HolderAt, Ended
  <2>2. HolderAt'
    BY <1>5 DEF RetryShared, HolderAt, DeadOnly
  <2>3. EntryAt'
    BY <1>5 DEF RetryShared, EntryAt, Relies, HolderAt, Entries
  <2>4. Safe'
    BY <1>5 DEF RetryShared, Owns, NoSuicide, Exclusion, Relies, HolderAt, DeadOnly, Entries
  <2> QED
    BY <2>1, <2>2, <2>3, <2>4
<1>6. ASSUME NEW w \in Writers, CreateWriter(w) PROVE DeadOnly' /\ HolderAt' /\ EntryAt' /\ Safe'
  <2>1. DeadOnly'
    BY <1>6 DEF CreateWriter, CanCreate, DeadOnly, HolderAt, Ended
  <2>2. HolderAt'
    BY <1>6 DEF CreateWriter, CanCreate, HolderAt, DeadOnly
  <2>3. EntryAt'
    BY <1>6 DEF CreateWriter, CanCreate, EntryAt, Relies, HolderAt, Entries
  <2>4. Safe'
    BY <1>6 DEF CreateWriter, CanCreate, Owns, NoSuicide, Exclusion, Relies, HolderAt, DeadOnly, Entries
  <2> QED
    BY <2>1, <2>2, <2>3, <2>4
<1>7. ASSUME NEW w \in Writers, DrainReaders(w) PROVE DeadOnly' /\ HolderAt' /\ EntryAt' /\ Safe'
  <2>1. DeadOnly'
    BY <1>7 DEF DrainReaders, IsDir, DeadOnly, HolderAt, Ended
  <2>2. HolderAt'
    BY <1>7 DEF DrainReaders, IsDir, HolderAt, DeadOnly
  <2>3. EntryAt'
    BY <1>7 DEF DrainReaders, IsDir, EntryAt, Relies, HolderAt, Entries
  <2>4. Safe'
    BY <1>7 DEF DrainReaders, IsDir, Owns, NoSuicide, Exclusion, Relies, HolderAt, DeadOnly, Entries
  <2> QED
    BY <2>1, <2>2, <2>3, <2>4
<1>8. ASSUME NEW w \in Writers, RetryExclusive(w) PROVE DeadOnly' /\ HolderAt' /\ EntryAt' /\ Safe'
  <2>1. DeadOnly'
    BY <1>8 DEF RetryExclusive, DeadOnly, HolderAt, Ended
  <2>2. HolderAt'
    BY <1>8 DEF RetryExclusive, HolderAt, DeadOnly
  <2>3. EntryAt'
    BY <1>8 DEF RetryExclusive, EntryAt, Relies, HolderAt, Entries
  <2>4. Safe'
    BY <1>8 DEF RetryExclusive, Owns, NoSuicide, Exclusion, Relies, HolderAt, DeadOnly, Entries
  <2> QED
    BY <2>1, <2>2, <2>3, <2>4
<1>9. ASSUME NEW j \in Jobs, ListEntries(j) PROVE DeadOnly' /\ HolderAt' /\ EntryAt' /\ Safe'
  <2>1. DeadOnly'
    BY <1>9 DEF ListEntries, DeadOnly, HolderAt, Ended
  <2>2. HolderAt'
    BY <1>9 DEF ListEntries, HolderAt, DeadOnly
  <2>3. EntryAt'
    BY <1>9 DEF ListEntries, EntryAt, Relies, HolderAt, Entries
  <2>4. Safe'
    BY <1>9 DEF ListEntries, Owns, NoSuicide, Exclusion, Relies, HolderAt, DeadOnly, Entries
  <2> QED
    BY <2>1, <2>2, <2>3, <2>4
<1>10. ASSUME NEW j \in Jobs, InspectEntry(j) PROVE DeadOnly' /\ HolderAt' /\ EntryAt' /\ Safe'
  <2>1. DeadOnly'
    BY <1>10 DEF InspectEntry, StartRmtree, CountsAsExpired, DeadOnly, HolderAt, Ended
  <2>2. HolderAt'
    BY <1>10 DEF InspectEntry, StartRmtree, CountsAsExpired, HolderAt, DeadOnly
  <2>3. EntryAt'
    BY <1>10 DEF InspectEntry, StartRmtree, CountsAsExpired, EntryAt, Relies, HolderAt, Entries
  <2>4. Safe'
    BY <1>10 DEF InspectEntry, StartRmtree, CountsAsExpired, Owns, NoSuicide, Exclusion, Relies, HolderAt, DeadOnly, Entries
  <2> QED
    BY <2>1, <2>2, <2>3, <2>4
<1>11. ASSUME NEW j \in Jobs, RmtreeFiles(j) PROVE DeadOnly' /\ HolderAt' /\ EntryAt' /\ Safe'
  <2>1. DeadOnly'
    BY <1>11 DEF RmtreeFiles, IsDir, DeadOnly, HolderAt, Ended
  <2>2. HolderAt'
    BY <1>11 DEF RmtreeFiles, IsDir, HolderAt, DeadOnly
  <2>3. EntryAt'
    BY <1>11 DEF RmtreeFiles, IsDir, EntryAt, Relies, HolderAt, Entries
  <2>4. Safe'
    BY <1>11 DEF RmtreeFiles, IsDir, Owns, NoSuicide, Exclusion, Relies, HolderAt, DeadOnly, Entries
  <2> QED
    BY <2>1, <2>2, <2>3, <2>4
<1>12. ASSUME NEW j \in Jobs, RmtreeDir(j) PROVE DeadOnly' /\ HolderAt' /\ EntryAt' /\ Safe'
  <2>1. DeadOnly'
    BY <1>12 DEF RmtreeDir, DeadOnly, HolderAt, Ended
  <2>2. HolderAt'
    BY <1>12 DEF RmtreeDir, HolderAt, DeadOnly
  <2>3. EntryAt'
    BY <1>12 DEF RmtreeDir, EntryAt, Relies, HolderAt, Entries
  <2>4. Safe'
    BY <1>12 DEF RmtreeDir, Owns, NoSuicide, Exclusion, Relies, HolderAt, DeadOnly, Entries
  <2> QED
    BY <2>1, <2>2, <2>3, <2>4
<1>13. ASSUME NEW j \in Jobs, GiveUp(j) PROVE DeadOnly' /\ HolderAt' /\ EntryAt' /\ Safe'
  <2>1. DeadOnly'
    BY <1>13 DEF GiveUp, GiveUpShared, GiveUpExclusive, Unlock, StartRmtree, DeadOnly, HolderAt, Ended
  <2>2. HolderAt'
    BY <1>13 DEF GiveUp, GiveUpShared, GiveUpExclusive, Unlock, StartRmtree, HolderAt, DeadOnly
  <2>3. EntryAt'
    BY <1>13 DEF GiveUp, GiveUpShared, GiveUpExclusive, Unlock, StartRmtree, EntryAt, Relies, HolderAt, Entries
  <2>4. Safe'
    BY <1>13 DEF GiveUp, GiveUpShared, GiveUpExclusive, Unlock, StartRmtree, Owns, NoSuicide, Exclusion, Relies, HolderAt, DeadOnly, Entries
  <2> QED
    BY <2>1, <2>2, <2>3, <2>4
<1>14. ASSUME NEW j \in Jobs, Release(j) PROVE DeadOnly' /\ HolderAt' /\ EntryAt' /\ Safe'
  <2>1. DeadOnly'
    BY <1>14 DEF Release, Unlock, StartRmtree, DeadOnly, HolderAt, Ended
  <2>2. HolderAt'
    BY <1>14 DEF Release, Unlock, StartRmtree, HolderAt, DeadOnly
  <2>3. EntryAt'
    BY <1>14 DEF Release, Unlock, StartRmtree, EntryAt, Relies, HolderAt, Entries
  <2>4. Safe'
    BY <1>14 DEF Release, Unlock, StartRmtree, Owns, NoSuicide, Exclusion, Relies, HolderAt, DeadOnly, Entries
  <2> QED
    BY <2>1, <2>2, <2>3, <2>4
<1>15. ASSUME NEW j \in Jobs, Killed(j) PROVE DeadOnly' /\ HolderAt' /\ EntryAt' /\ Safe'
  <2>1. DeadOnly'
    BY <1>15 DEF Killed, Ended, DeadOnly, HolderAt
  <2>2. HolderAt'
    BY <1>15 DEF Killed, Ended, HolderAt, DeadOnly
  <2>3. EntryAt'
    BY <1>15 DEF Killed, Ended, EntryAt, Relies, HolderAt, Entries
  <2>4. Safe'
    BY <1>15 DEF Killed, Ended, Owns, NoSuicide, Exclusion, Relies, HolderAt, DeadOnly, Entries
  <2> QED
    BY <2>1, <2>2, <2>3, <2>4
<1>16. ASSUME NEW j \in Jobs, Expires(j) PROVE DeadOnly' /\ HolderAt' /\ EntryAt' /\ Safe'
  <2>1. DeadOnly'
    BY <1>16 DEF Expires, DeadOnly, HolderAt, Ended
  <2>2. HolderAt'
    BY <1>16 DEF Expires, HolderAt, DeadOnly
  <2>3. EntryAt'
    BY <1>16 DEF Expires, EntryAt, Relies, HolderAt, Entries
  <2>4. Safe'
    BY <1>16 DEF Expires, Owns, NoSuicide, Exclusion, Relies, HolderAt, DeadOnly, Entries
  <2> QED
    BY <2>1, <2>2, <2>3, <2>4
<1>17. CASE UNCHANGED vars
  BY <1>17, <1>t DEF vars, DeadOnly, HolderAt, EntryAt, Owns, NoSuicide, Exclusion, Relies
<1> QED
  BY <1>t, <1>1, <1>2, <1>3, <1>4, <1>5, <1>6, <1>7, <1>8, <1>9, <1>10, <1>11, <1>12, <1>13, <1>14, <1>15, <1>16, <1>17
     DEF Next, SharedStep, ExclusiveStep, ClearStep

\* The inductive invariant holds throughout every execution.
LEMMA LockInvariant == Spec => []LockInv
<1>1. Init => LockInv
  BY LockAssumption, OwnPathFacts
     DEF Init, LockInv, TypeOK, DeadOnly, HolderAt, EntryAt, Owns, NoSuicide, Exclusion,
         Relies, Paths, Entries, Labels, Jobs
<1> QED
  BY <1>1, LockStep, PTL DEF Spec

\* Mutual exclusion of writers with every other job: the create/recheck and
\* create/drain handshakes exclude for any number of jobs, in every execution
\* in which nobody removed the entry of a job that counted on it.
THEOREM MutualExclusion == Spec => []ExclusionUnlessRobbed
<1>1. LockInv => ExclusionUnlessRobbed
  BY DEF LockInv, ExclusionUnlessRobbed
<1> QED
  BY <1>1, LockInvariant, PTL

\* No job that ended by itself, with the lock or past its deadline, leaves an
\* entry in the lock directory for others to wait on.
THEOREM NothingLeftBehind == Spec => []NoEntryLeftBehind
<1>1. LockInv => NoEntryLeftBehind
  BY DEF LockInv, NoEntryLeftBehind, EntryAt, HolderAt, Relies
<1> QED
  BY <1>1, LockInvariant, PTL
-----------------------------------------------------------------------------
(***************************************************************************)
(* The lock as its users see it: every step of every job is a step of      *)
(* SharedLock or changes nothing there.  What a step can change there is   *)
(* who holds the lock, and what killed jobs left.                          *)
(***************************************************************************)
LockView == <<Claims(Holders), Claims(Remains), robbed # {}>>

\* A claim names its job, and its job alone.
LEMMA ClaimFacts ==
    /\ \A j \in Jobs : Claim(j) \in Lock!Claims /\ Claim(j).job = j
    /\ \A j \in Jobs : Claim(j).mode = IF j \in Writers THEN "exclusive" ELSE "shared"
    /\ \A S \in SUBSET Jobs : Claims(S) \subseteq Lock!Claims
    /\ \A S \in SUBSET Jobs, j \in Jobs : Lock!Of(j, Claims(S)) = Claims(S \cap {j})
    /\ \A S, T \in SUBSET Jobs : Claims(S \cup T) = Claims(S) \cup Claims(T)
    /\ \A S, T \in SUBSET Jobs : Claims(S \ T) = Claims(S) \ Claims(T)
  BY DEF Claim, Claims, Lock!Claims, Lock!Of

\* A step that changes neither the holders nor what killed jobs left changes nothing there.
LEMMA Unseen ==
    ASSUME Holders' = Holders, Remains' = Remains, robbed' = robbed
    PROVE  UNCHANGED LockView
  BY DEF LockView, Claims, Claim

\* Another job than the writer gets in while no writer is in and none left its entry; a writer
\* gets in while nobody is in and nobody left an entry.
LEMMA Enters ==
    ASSUME NEW j \in Jobs, Holders' = Holders \cup {j}, Remains' = Remains, robbed' = robbed,
           \A k \in Holders \cup Remains : j \notin Writers /\ k \notin Writers
    PROVE  Lock!Next
<1>1. /\ Holders \in SUBSET Jobs /\ Remains \in SUBSET Jobs /\ {j} \in SUBSET Jobs
  BY DEF Holders, Remains
<1>2. Claims(Holders)' = Claims(Holders) \cup {Claim(j)} /\ Claims(Remains)' = Claims(Remains)
  BY DEF Claims, Claim
<1>3. \A b \in Claims(Holders) \cup Claims(Remains) : ~Lock!Conflict(Claim(j), b)
  BY <1>1, ClaimFacts DEF Claims, Lock!Conflict
<1>4. Lock!Take(Claim(j))
  BY <1>2, <1>3 DEF Lock!Take
<1> QED
  BY <1>4, ClaimFacts DEF Lock!Next

\* A job that lets go.
LEMMA Leaves ==
    ASSUME NEW j \in Jobs, Holders' = Holders \ {j}, Remains' = Remains, robbed' = robbed
    PROVE  Lock!Next
<1>1. Holders \in SUBSET Jobs /\ Claims(Holders)' = Claims(Holders \ {j}) /\ Claims(Remains)' = Claims(Remains)
  BY DEF Holders, Claims, Claim
<1>2. Claims(Holders)' = Claims(Holders) \ Lock!Of(j, Claims(Holders))
  BY <1>1, ClaimFacts DEF Claims, Lock!Of
<1>3. Lock!LetGo(j)
  BY <1>1, <1>2 DEF Lock!LetGo
<1> QED
  BY <1>3 DEF Lock!Next

\* A killed job that held the lock leaves its entry.
LEMMA Dies ==
    ASSUME NEW j \in Jobs, Holders' = Holders \ {j}, Remains' \in {Remains, Remains \cup {j}}, robbed' = robbed,
           j \in Holders => j \in Remains'
    PROVE  Lock!Next
<1> DEFINE mine == IF Remains' = Remains \cup {j} THEN {Claim(j)} ELSE {}
<1>1. Holders \in SUBSET Jobs /\ Claims(Holders)' = Claims(Holders \ {j})
  BY DEF Holders, Claims, Claim
<1>2. Claims(Holders)' = Claims(Holders) \ Lock!Of(j, Claims(Holders))
  BY <1>1, ClaimFacts DEF Claims, Lock!Of
<1>3. Claims(Remains)' = Claims(Remains) \cup mine
  BY DEF Claims, Claim
<1>4. mine \in SUBSET Lock!Of(j, Lock!Claims)
  BY ClaimFacts DEF Lock!Of
<1>5. Lock!Of(j, Claims(Holders)) \subseteq mine
  <2>1. CASE j \in Holders
    <3>1. Remains' = Remains \cup {j}
      BY <2>1
    <3> QED
      BY <1>1, <3>1, ClaimFacts DEF Claims, Lock!Of
  <2>2. CASE j \notin Holders
    BY <1>1, <2>2, ClaimFacts DEF Claims, Lock!Of
  <2> QED
    BY <2>1, <2>2
<1>6. Lock!Killed(j)
  BY <1>2, <1>3, <1>4, <1>5 DEF Lock!Killed
<1> QED
  BY <1>6 DEF Lock!Next

\* What a killed job left is cleared away.
LEMMA Clears ==
    ASSUME NEW k \in Remains, Holders' = Holders, Remains' = Remains \ {k}, robbed' = robbed
    PROVE  Lock!Next
<1>1. k \in Jobs /\ Remains \in SUBSET Jobs
  BY DEF Remains
<1>2. Claims(Holders)' = Claims(Holders) /\ Claims(Remains)' = Claims(Remains \ {k})
  BY DEF Claims, Claim
<1>3. Claims(Remains)' = Claims(Remains) \ Lock!Of(k, Claims(Remains))
  BY <1>1, <1>2, ClaimFacts DEF Claims, Lock!Of
<1>4. Lock!Cleared(k)
  BY <1>2, <1>3 DEF Lock!Cleared
<1> QED
  BY <1>1, <1>4 DEF Lock!Next

\* Once an entry was removed under its owner, nothing is promised.
LEMMA Breaks == ASSUME robbed' # {} PROVE Lock!Next
<1>1. Claims(Holders)' \subseteq Lock!Claims /\ Claims(Remains)' \subseteq Lock!Claims
  BY DEF Claims, Claim, Holders, Remains, Lock!Claims
<1> QED
  BY <1>1 DEF Lock!Broken, Lock!Next

\* Every step, seen from the users of the lock.
LEMMA LockSeen == LockInv /\ [Next]_vars => Lock!Next \/ UNCHANGED LockView
<1> SUFFICES ASSUME LockInv, [Next]_vars PROVE Lock!Next \/ UNCHANGED LockView
  OBVIOUS
<1> SUFFICES ASSUME robbed' = {} PROVE Lock!Next \/ UNCHANGED LockView
  BY Breaks
<1> USE OwnPathFacts, LockAssumption DEF LockInv, TypeOK, GoTo, Jobs, Holders, Remains
<1>0. Next => robbed \subseteq robbed'
  BY DEF Next, LockShared, SharedStep, CheckWriter, CreateReader, RecheckWriter, RetryShared, ExclusiveStep,
         CreateWriter, DrainReaders, RetryExclusive, ClearStep, ListEntries, InspectEntry, RmtreeFiles, RmtreeDir,
         GiveUp, GiveUpShared, GiveUpExclusive, Unlock, Release, Killed, Expires
<1>s. robbed = {} /\ robbed' = robbed /\ Owns /\ Exclusion
  BY <1>0 DEF vars
<1>1. ASSUME NEW r \in Readers, LockShared(r) \/ CheckWriter(r) \/ RetryShared(r) PROVE UNCHANGED LockView
  <2>1. Holders' = Holders /\ Remains' = Remains
    BY <1>1 DEF LockShared, CheckWriter, RetryShared
  <2> QED
    BY <2>1, <1>s, Unseen
<1>2. ASSUME NEW r \in Readers, CreateReader(r) PROVE UNCHANGED LockView
  <2>1. Holders' = Holders /\ Remains' = Remains
    BY <1>2 DEF CreateReader, CanCreate, Entries
  <2> QED
    BY <2>1, <1>s, Unseen
<1>3. ASSUME NEW r \in Readers, RecheckWriter(r) PROVE Lock!Next \/ UNCHANGED LockView
  <2>1. CASE IsDir(WriterDir)
    <3>1. Holders' = Holders /\ Remains' = Remains
      BY <1>3, <2>1 DEF RecheckWriter, StartRmtree
    <3> QED
      BY <3>1, <1>s, Unseen
  <2>2. CASE ~IsDir(WriterDir)
    <3>1. Holders' = Holders \cup {r} /\ Remains' = Remains
      BY <1>3, <2>2 DEF RecheckWriter
    <3>2. \A w \in Writers : dir[OwnPath(w)] # w
      BY <2>2 DEF IsDir, OwnPath
    <3>3. \A k \in Holders \cup Remains : r \notin Writers /\ k \notin Writers
      BY <3>2, <1>s DEF Owns, Relies, HolderAt
    <3> QED
      BY <3>1, <3>3, <1>s, Enters
  <2> QED
    BY <2>1, <2>2
<1>4. ASSUME NEW w \in Writers, CreateWriter(w) PROVE UNCHANGED LockView
  <2>1. Holders' = Holders /\ Remains' = Remains
    BY <1>4 DEF CreateWriter, CanCreate, Entries
  <2> QED
    BY <2>1, <1>s, Unseen
<1>5. ASSUME NEW w \in Writers, DrainReaders(w) PROVE Lock!Next \/ UNCHANGED LockView
  <2>1. CASE \E r \in Readers : IsDir(r)
    <3>1. Holders' = Holders /\ Remains' = Remains
      BY <1>5, <2>1 DEF DrainReaders
    <3> QED
      BY <3>1, <1>s, Unseen
  <2>2. CASE \A r \in Readers : ~IsDir(r)
    <3>1. Holders' = Holders \cup {w} /\ Remains' = Remains
      BY <1>5, <2>2 DEF DrainReaders
    <3>2. dir[WriterDir] = w
      BY <1>5, <1>s DEF DrainReaders, HolderAt, Owns, Relies
    <3>3. \A k \in Holders \cup Remains : dir[OwnPath(k)] = k
      BY <1>s DEF Owns, Relies, HolderAt
    <3>4. Holders \cup Remains = {}
      BY <1>5, <2>2, <3>2, <3>3 DEF IsDir, DrainReaders
    <3> QED
      BY <3>1, <3>4, <1>s, Enters
  <2> QED
    BY <2>1, <2>2
<1>6. ASSUME NEW w \in Writers, RetryExclusive(w) PROVE UNCHANGED LockView
  <2>1. Holders' = Holders /\ Remains' = Remains
    BY <1>6 DEF RetryExclusive
  <2> QED
    BY <2>1, <1>s, Unseen
<1>7. ASSUME NEW j \in Jobs, ListEntries(j) \/ InspectEntry(j) PROVE UNCHANGED LockView
  <2>1. Holders' = Holders /\ Remains' = Remains
    BY <1>7 DEF ListEntries, InspectEntry, StartRmtree
  <2> QED
    BY <2>1, <1>s, Unseen
<1>8. ASSUME NEW j \in Jobs, RmtreeFiles(j) PROVE Lock!Next \/ UNCHANGED LockView
  <2> DEFINE p == victim[j]
  <2>0. Holders' = Holders /\ p \in Paths /\ dir' \in [Paths -> Entries]
    BY <1>8 DEF RmtreeFiles, Entries
  <2>1. CASE \E k \in Remains : dir[p] = k
    <3>1. PICK k \in Remains : dir[p] = k
      BY <2>1
    <3>2. p = OwnPath(k)
      BY <3>1 DEF EntryAt
    <3>3. dir' = [dir EXCEPT ![p] = Empty]
      BY <1>8, <3>1 DEF RmtreeFiles, IsDir
    <3>4. \A m \in Jobs : m # k /\ dir[OwnPath(m)] = m => OwnPath(m) # p
      BY <3>1
    <3>5. Remains' = Remains \ {k}
      BY <1>8, <2>0, <3>1, <3>2, <3>3, <3>4 DEF RmtreeFiles
    <3> QED
      BY <2>0, <3>5, <1>s, Clears
  <2>2. CASE \A k \in Remains : dir[p] # k
    <3>1. \A k \in Jobs : pc'[k] = "dead" <=> pc[k] = "dead"
      BY <1>8 DEF RmtreeFiles
    <3>2. \A k \in Remains : OwnPath(k) # p
      BY <2>2
    <3>3. \A k \in Jobs : dir'[OwnPath(k)] = k => dir[OwnPath(k)] = k
      BY <1>8, <2>0 DEF RmtreeFiles
    <3>4. \A k \in Remains : dir'[OwnPath(k)] = k
      BY <1>8, <2>0, <3>2 DEF RmtreeFiles
    <3>5. Remains' = Remains
      BY <3>1, <3>3, <3>4
    <3> QED
      BY <2>0, <3>5, <1>s, Unseen
  <2> QED
    BY <2>1, <2>2
<1>9. ASSUME NEW j \in Jobs, RmtreeDir(j) PROVE UNCHANGED LockView
  <2>1. Holders' = Holders
    BY <1>9 DEF RmtreeDir, HolderAt
  <2>2. \A k \in Jobs : pc'[k] = "dead" <=> pc[k] = "dead"
    BY <1>9 DEF RmtreeDir, HolderAt
  <2>3. \A k \in Jobs : dir'[OwnPath(k)] = k <=> dir[OwnPath(k)] = k
    BY <1>9 DEF RmtreeDir
  <2>4. Remains' = Remains
    BY <2>2, <2>3
  <2> QED
    BY <2>1, <2>4, <1>s, Unseen
<1>10. ASSUME NEW j \in Jobs, GiveUp(j) PROVE UNCHANGED LockView
  <2>1. Holders' = Holders /\ Remains' = Remains
    BY <1>10 DEF GiveUp, GiveUpShared, GiveUpExclusive, Unlock, StartRmtree
  <2> QED
    BY <2>1, <1>s, Unseen
<1>11. ASSUME NEW j \in Jobs, Release(j) PROVE Lock!Next
  <2>1. Holders' = Holders \ {j} /\ Remains' = Remains
    BY <1>11 DEF Release, Unlock, StartRmtree
  <2> QED
    BY <2>1, <1>s, Leaves
<1>12. ASSUME NEW j \in Jobs, Killed(j) PROVE Lock!Next
  <2>1. Holders' = Holders \ {j} /\ Remains' \in {Remains, Remains \cup {j}}
    BY <1>12 DEF Killed
  <2>2. j \in Holders => j \in Remains'
    BY <1>12, <1>s DEF Killed, Owns, Relies, HolderAt
  <2> QED
    BY <2>1, <2>2, <1>s, Dies
<1>13. ASSUME NEW j \in Jobs, Expires(j) PROVE UNCHANGED LockView
  <2>1. Holders' = Holders /\ Remains' = Remains
    BY <1>13 DEF Expires
  <2> QED
    BY <2>1, <1>s, Unseen
<1>14. CASE UNCHANGED vars
  <2>1. Holders' = Holders /\ Remains' = Remains
    BY <1>14 DEF vars
  <2> QED
    BY <2>1, <1>s, Unseen
<1> QED
  BY <1>1, <1>2, <1>3, <1>4, <1>5, <1>6, <1>7, <1>8, <1>9, <1>10, <1>11, <1>12, <1>13, <1>14
     DEF Next, SharedStep, ExclusiveStep, ClearStep

\* The lock of the file system is the lock its users are promised: for any number of jobs, the
\* handshakes of lock_shared and lock_exclusive, the clearing of entries and the death of jobs at
\* any step are one atomic lock that a killed holder keeps, while nobody's entry is removed under it.
THEOREM LockIsShared == Spec => ImplementsSharedLock
<1>1. Init => Lock!Init
  BY DEF Init, Lock!Init, Claims, Holders, Remains
<1>2. LockInv /\ [Next]_vars => [Lock!Next]_<<Claims(Holders), Claims(Remains), robbed # {}>>
  BY LockSeen DEF LockView
<1> QED
  BY <1>1, <1>2, LockInvariant, PTL DEF Spec, ImplementsSharedLock, Lock!Spec
=============================================================================
