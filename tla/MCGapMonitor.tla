---------------------------- MODULE MCGapMonitor ----------------------------
(* A short stream: jumps below, at and above the tolerance.                *)
EXTENDS GapMonitor

MCSlots == 1 .. 5
=============================================================================
