------------------------------ MODULE MCLogging ------------------------------
(* Logging with two threads, one of which may crash while the other logs.     *)
EXTENDS Logging
==============================================================================
