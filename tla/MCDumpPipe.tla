----------------------------- MODULE MCDumpPipe -----------------------------
(***************************************************************************)
(* Small instances of DumpPipe for TLC.                                    *)
(***************************************************************************)
EXTENDS DumpPipe, TLC

CONSTANT MaxLines       \* bound on the lines of a guide

Symmetry == Permutations(Func)

Guard == {g \in [host : Func, checkee : Func] : g.host # g.checkee}

(* Every guide the pass can write: no guard twice, the leaves first.       *)
AllGuides ==
  {g \in UNION {[1..n -> Guard] : n \in 0..MaxLines} :
     /\ BottomUp(g)
     /\ \A i, j \in DOMAIN g : i # j => g[i] # g[j]}
=============================================================================
