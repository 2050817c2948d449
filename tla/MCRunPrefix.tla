---------------------------- MODULE MCRunPrefix ----------------------------
(***************************************************************************)
(* One run id with up to three commands at work on it.                     *)
(***************************************************************************)
EXTENDS RunPrefix

Cast(x, y, z) == [part |-> <<x, y, z>>, apart |-> FALSE, alike |-> FALSE, room |-> TRUE, before |-> FALSE]
Crowded(x, y, z) == [Cast(x, y, z) EXCEPT !.room = FALSE, !.apart = TRUE]
Again(x, y, z) == [Cast(x, y, z) EXCEPT !.before = TRUE]
MCCasts == {Cast("full", "full", "idle"), 
            Crowded("emulate", "emulate", "idle"), [Crowded("emulate", "emulate", "idle") EXCEPT !.alike = TRUE],
            Crowded("emulate", "resume", "idle"), Cast("resume", "resume", "clean"),
            [Again("clean", "full", "idle") EXCEPT !.alike = TRUE],
            Cast("report", "report", "download"), Cast("report", "download", "download"),
            Cast("report", "clean", "download")}
=============================================================================
