--------------------------- MODULE MCCryptoServices ---------------------------
(* The instance of CryptoServices that TLC checks: see README.md for bounds.   *)
EXTENDS CryptoServices, TLC

\* Both tokens are read through one library.
OneLibrary == [t \in Tokens |-> 1]

\* No two requests, or tokens, differ but by their names.
Symmetry == Permutations(Requests) \cup Permutations(Tokens)
=============================================================================
