---------------------------- MODULE MCScheduler ----------------------------
(* Scheduler on small instances: the constants are in sched*.cfg. *)
EXTENDS SchedulerRefinement, TLC

CONSTANTS a, b

\* The payloads are interchangeable: no step looks at one.
PayloadSymmetry == Permutations(Payload)
=============================================================================
