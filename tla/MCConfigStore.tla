---------------------------- MODULE MCConfigStore ----------------------------
(* Instances of ConfigStore: one process, or a second launch beside it. *)
EXTENDS ConfigStore, TLC

CONSTANTS p1, p2

\* A first start, an upgrade and a start as usual, of one process or of two.
AllStarts == {"absent", "old", "complete"} \X {{p1}, {p2}, {p1, p2}}

\* The processes are alike, and so are the settings.
Alike == Permutations(Processes) \cup Permutations(Settings)

UsualStart == {<<"complete", {p1}>>}
=============================================================================
