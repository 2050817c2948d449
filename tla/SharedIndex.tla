---------------------------- MODULE SharedIndex ----------------------------
(***************************************************************************)
(* What a persistent BlockSci index promises to the jobs that share it: a  *)
(* directory either holds a whole index of some height or nothing that may *)
(* be read, and it does not change under a job that reads it.              *)
(***************************************************************************)
EXTENDS Naturals

CONSTANTS Dirs,        \* index directories
          Jobs,
          MaxHeight

VARIABLES value,       \* value[d]: the height of the whole index in d, 0 when there is none
          view         \* view[d][j]: the height job j reads in d, 0 when it reads nothing

NoReader(d) == \A j \in Jobs : view[d][j] = 0

Init == value \in [Dirs -> 0..MaxHeight] /\ view = [d \in Dirs |-> [j \in Jobs |-> 0]]

Replace(d) ==
    /\ NoReader(d)
    /\ \E h \in 0..MaxHeight : value' = [value EXCEPT ![d] = h]
    /\ UNCHANGED view
StartRead(d, j) ==
    /\ value[d] # 0 /\ view[d][j] = 0
    /\ view' = [view EXCEPT ![d][j] = value[d]]
    /\ UNCHANGED value
EndRead(d, j) == view' = [view EXCEPT ![d][j] = 0] /\ UNCHANGED value

Next == \E d \in Dirs : Replace(d) \/ \E j \in Jobs : StartRead(d, j) \/ EndRead(d, j)
Spec == Init /\ [][Next]_<<value, view>>
=============================================================================
