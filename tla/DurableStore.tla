---------------------------- MODULE DurableStore ---------------------------
(***************************************************************************)
(* What a storage with a file promises: the file, when it can be read at   *)
(* all, holds the metrics as they were at the instant it was last saved,   *)
(* and a process that starts again has either those or none.  Saving       *)
(* overwrites the file in place, so that there is a time when it holds     *)
(* nothing that can be read.                                               *)
(***************************************************************************)
EXTENDS Metrics

CONSTANT Restore    \* start from the file, rather than from nothing

VARIABLES
    mem,    \* the metrics
    disk    \* the file: absent, torn, or whole with the metrics it holds

durableVars == <<mem, disk>>

NoFile   == [state |-> "absent", data |-> EmptySnapshot]
TornFile == [state |-> "torn",   data |-> EmptySnapshot]
WholeFile(s) == [state |-> "whole", data |-> s]

Recovered(f) == IF Restore /\ f.state = "whole" THEN f.data ELSE EmptySnapshot

----------------------------------------------------------------------------
DurableInit == mem = EmptySnapshot /\ disk = NoFile

Update == mem' \in Snapshot /\ UNCHANGED disk

Truncate == disk' = TornFile /\ UNCHANGED mem

Save ==
    /\ disk = TornFile
    /\ Encodable(mem)
    /\ disk' = WholeFile(mem)
    /\ UNCHANGED mem

StartAgain == mem' = Recovered(disk) /\ UNCHANGED disk

DurableNext == Update \/ Truncate \/ Save \/ StartAgain

DurableSpec == DurableInit /\ [][DurableNext]_durableVars
============================================================================
