-------------------------- MODULE MCPeriodicEnqueuer --------------------------
(***************************************************************************)
(* An instance of PeriodicEnqueuer for TLC: two periodic jobs, one of which*)
(* only one pool has yet.                                                  *)
(***************************************************************************)
EXTENDS PeriodicEnqueuer, TLC

CONSTANTS p1, p2

TwoJobs == <<{3}, {6}>>

OneHasBoth == (p1 :> {1, 2}) @@ (p2 :> {2})
=============================================================================
