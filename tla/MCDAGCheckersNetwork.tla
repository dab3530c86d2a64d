------------------------ MODULE MCDAGCheckersNetwork ------------------------
(***************************************************************************)
(* Small instances of DAGCheckersNetwork for TLC.                          *)
(***************************************************************************)
EXTENDS DAGCheckersNetwork, TLC

(* Renaming the functions changes nothing the safety properties say.       *)
Symmetry == Permutations(Func)

(* A level below, at and above what the small module can offer, and the    *)
(* negative level an option value can carry.                               *)
Levels == {-1, 1, 2}
=============================================================================
