--------------------------- MODULE MCSignatureFlow ---------------------------
(* The instance of SignatureFlow that TLC checks: see README.md for bounds. *)
EXTENDS SignatureFlow, TLC

\* For safety only: requests and cards are alike.
Symmetry == Permutations(Requests) \cup Permutations(Cards)
=============================================================================
