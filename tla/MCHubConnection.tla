--------------------------- MODULE MCHubConnection ---------------------------
(* The instance of HubConnection that TLC checks: see README.md for bounds. *)
EXTENDS HubConnection
=============================================================================
