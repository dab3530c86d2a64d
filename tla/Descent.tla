------------------------------- MODULE Descent -------------------------------
(***************************************************************************)
(* How the modules say that a call comes nearer to its end.  What it has   *)
(* ahead is a tuple of counts, those of the outer loops before those of    *)
(* the inner ones.                                                         *)
(***************************************************************************)
EXTENDS Integers, Sequences

(* One count is less, those before it are the same.                        *)
Nearer(a, b) ==
  \E i \in 1..Len(b) : a[i] \in 0..(b[i] - 1) /\ \A k \in 1..(i - 1) : a[k] = b[k]
==============================================================================
