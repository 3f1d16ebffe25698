-------------------------------- MODULE MCMedia --------------------------------
(* Media on a small instance: the constants are in media.cfg.                 *)
EXTENDS Media
=============================================================================
