-------------------------------- MODULE MCGame --------------------------------
(* Game on a small instance: the constants are in game.cfg. *)
EXTENDS Game
=============================================================================
