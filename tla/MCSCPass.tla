------------------------------ MODULE MCSCPass ------------------------------
(***************************************************************************)
(* Small instances of SCPass for TLC.                                      *)
(***************************************************************************)
EXTENDS SCPass, TLC

Symmetry == Permutations(Func)

(* The command lines of the run scripts construct a network, dump it and   *)
(* the statistics; the modes vary.                                         *)
Constructing ==
  [extractedOnly : BOOLEAN, sensitiveOnlyChecked : BOOLEAN, useOtherFunctions : BOOLEAN,
   connectivity : {0, 1}, load : {FALSE}, dump : {TRUE}, stat : {TRUE}]

(* A network is loaded, once with the statistics a loaded network lacks.   *)
Loading ==
  [extractedOnly : {FALSE}, sensitiveOnlyChecked : BOOLEAN, useOtherFunctions : {FALSE},
   connectivity : {0}, load : {TRUE}, dump : BOOLEAN, stat : BOOLEAN]

Modes == Constructing \cup Loading

(* Two ways to construct a network, with and without the function that may *)
(* trap, and the ways to load one.                                         *)
PlainModes ==
  {m \in Modes : ~m.extractedOnly /\ ~m.useOtherFunctions /\ m.connectivity = 0}
=============================================================================
