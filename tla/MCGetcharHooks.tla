--------------------------- MODULE MCGetcharHooks ---------------------------
(***************************************************************************)
(* A small instance of GetcharHooks for TLC.                               *)
(***************************************************************************)
EXTENDS GetcharHooks, TLC

Symmetry == Permutations(Char)

(* Recordings made elsewhere, the empty one included.                      *)
ShortRecordings == UNION {[1..n -> Char] : n \in 0..2}
=============================================================================
