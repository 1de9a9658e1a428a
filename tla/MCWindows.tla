------------------------------ MODULE MCWindows ------------------------------
(* The instance of Windows that TLC checks: see README.md for bounds. *)
EXTENDS Windows
=============================================================================
