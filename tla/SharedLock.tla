----------------------------- MODULE SharedLock -----------------------------
(***************************************************************************)
(* What the lock of an index directory promises to the jobs that share it: *)
(* one writer or many readers, and what a killed job left keeps others out *)
(* as if the job still had it, until it is cleared away.                   *)
(***************************************************************************)
CONSTANT Jobs

VARIABLES holding,   \* the claims of the jobs that hold the lock
          left,      \* the claims of killed jobs
          broken     \* a job lost a claim it counted on: nothing is promised any more

Claims == [mode : {"exclusive", "shared"}, job : Jobs]
Conflict(a, b) == "exclusive" \in {a.mode, b.mode}
Of(j, claims) == {a \in claims : a.job = j}

Init == holding = {} /\ left = {} /\ broken = FALSE

Take(a) ==
    /\ \A b \in holding \cup left : ~Conflict(a, b)
    /\ holding' = holding \cup {a}
    /\ UNCHANGED <<left, broken>>

LetGo(j) == holding' = holding \ Of(j, holding) /\ UNCHANGED <<left, broken>>

\* A holder's claim stays; a job that was still asking may leave one too.
Killed(j) ==
    /\ holding' = holding \ Of(j, holding)
    /\ \E claims \in SUBSET Of(j, Claims) : Of(j, holding) \subseteq claims /\ left' = left \cup claims
    /\ UNCHANGED broken

Cleared(j) == left' = left \ Of(j, left) /\ UNCHANGED <<holding, broken>>

Broken == broken' = TRUE /\ holding' \subseteq Claims /\ left' \subseteq Claims

Next ==
    \/ \E a \in Claims : Take(a)
    \/ \E j \in Jobs : LetGo(j) \/ Killed(j) \/ Cleared(j)
    \/ Broken
Spec == Init /\ [][Next]_<<holding, left, broken>>
=============================================================================
