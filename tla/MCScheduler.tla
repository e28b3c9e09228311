---------------------------- MODULE MCScheduler ----------------------------
(***************************************************************************)
(* An instance of Scheduler for TLC.  With eleven tasks, a combination that *)
(* does only one of them has no reward at all; the int is the smallest that *)
(* can count the sixteen combinations.                                     *)
(***************************************************************************)
EXTENDS Scheduler

OneOrTwo == {{1}, {2, 3}}

=============================================================================
