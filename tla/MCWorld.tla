------------------------------- MODULE MCWorld -------------------------------
(* World on a small instance: the constants are in world_id_reuse.cfg.       *)
EXTENDS World
=============================================================================
