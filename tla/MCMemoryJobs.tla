---------------------------- MODULE MCMemoryJobs ----------------------------
(***************************************************************************)
(* Instances of MemoryJobs for TLC.                                        *)
(***************************************************************************)
EXTENDS MemoryJobs

CONSTANTS a, b
=============================================================================
