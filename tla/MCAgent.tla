------------------------------ MODULE MCAgent ------------------------------
(***************************************************************************)
(* The two pollers of startWorkers; the flusher, or two reporters.         *)
(***************************************************************************)
EXTENDS Agent

MCPollers == <<"runtime", "gopsutil">>

\* The CPU cannot be read; of the readings of a poll one may fail and one not.
MCFallible == {<<"gopsutil", "second">>}
============================================================================
