------------------------------- MODULE MCRunner -------------------------------
(* Runner on small instances: the constants are in runner.cfg and            *)
(* runner_emit.cfg.                                                           *)
EXTENDS Runner
=============================================================================
