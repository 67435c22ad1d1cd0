--------------------------- MODULE MCMagicSingleton ---------------------------
(* MagicSingleton with three threads and one object more than the calls let    *)
(* DesInstance take out, so that a second one could always be made.            *)
EXTENDS MagicSingleton
================================================================================
