------------------------------ MODULE MCStartup ------------------------------
(* Instances of Startup: both platforms, or one. *)
EXTENDS Startup
=============================================================================
