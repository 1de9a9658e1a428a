---------------------------- MODULE MCCardPipeline ----------------------------
(* Instances of CardPipeline that TLC checks: see README.md for bounds.       *)
EXTENDS CardPipeline, TLC

CONSTANTS c1, c2, a1, a2, l1, l2, l3

TwoModels == c1 :> a1 @@ c2 :> a2

\* Each model has a library of its own, one of them only after another library
\* that recognises neither.
OwnLibraries == a1 :> <<l3, l1>> @@ a2 :> <<l2>>
OwnService == l1 :> {a1} @@ l2 :> {a2} @@ l3 :> {}

\* Both models are served by one library, one of them only in second place.
SharedLibrary == a1 :> <<l2, l1>> @@ a2 :> <<l3, l1>>
SharedService == l1 :> {a1, a2} @@ l2 :> {} @@ l3 :> {a2}
=============================================================================
