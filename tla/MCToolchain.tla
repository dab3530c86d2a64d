---------------------------- MODULE MCToolchain -----------------------------
(***************************************************************************)
(* Small instances of Toolchain for TLC.                                   *)
(***************************************************************************)
EXTENDS Toolchain

AllScripts == {"run-sc", "run-binary-patch", "run-llvm-patch", "run-sc-oh-eval",
               "run-sc-oh-binary"}
=============================================================================
