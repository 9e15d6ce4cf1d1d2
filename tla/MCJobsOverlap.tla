--------------------------- MODULE MCJobsOverlap ---------------------------
(* The jobs of the cron triggers, each twice at a time, over one user, one *)
(* deposit and one withdrawal.                                             *)
EXTENDS CronJobs, TLC

CONSTANTS j1, j2, u1, d1, w1, info, error

MCOwner == d1 :> u1
MCValue == d1 :> 5

JobSymmetry == Permutations({j1, j2})
=============================================================================
