------------------------------ MODULE MCDeadJobs ------------------------------
(***************************************************************************)
(* Names for the jobs of DeadJobs.                                         *)
(***************************************************************************)
EXTENDS DeadJobs

CONSTANTS a, b

TwoAOneB == [j \in Jobs |-> IF j = 3 THEN b ELSE a]
=============================================================================
