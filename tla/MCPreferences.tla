---------------------------- MODULE MCPreferences ----------------------------
(* The instance of Preferences that TLC checks: see README.md for bounds. *)
EXTENDS Preferences
=============================================================================
