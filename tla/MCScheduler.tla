---------------------------- MODULE MCScheduler ------------------------------
(* The four tasks of src/03-posix/lab3.cfg, sorted by period.                 *)
EXTENDS Scheduler, TLC

Lab3Frequency == (0 :> 5) @@ (1 :> 7) @@ (2 :> 8) @@ (3 :> 10)
Lab3Duration  == (0 :> 1) @@ (1 :> 1) @@ (2 :> 2) @@ (3 :> 2)
==============================================================================
