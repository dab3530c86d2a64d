---------------------------- MODULE CheckerGraph ----------------------------
(***************************************************************************)
(* What a network of checkers promises to the rest of the tool chain, with *)
(* nothing about how the network is computed.                              *)
(*                                                                         *)
(* A pair <<c, f>> in edges says that function c holds a guard that hashes *)
(* the code of function f.  The graph of these pairs never has a cycle:    *)
(* on a cycle, every guard would have to hold the hash of code that        *)
(* depends on that same hash.  order lists the checkers so far scheduled   *)
(* for guard injection; a checker is scheduled when every checker it       *)
(* checks itself has been.                                                 *)
(***************************************************************************)
EXTENDS Sequences, FiniteSets, Naturals

CONSTANT Func       \* the functions of the program to protect

VARIABLES edges,    \* the pairs <<checker, checkee>>
          order     \* the checkers, in the order they receive their guards

gvars == <<edges, order>>

-----------------------------------------------------------------------------
Checkees(c)  == {f \in Func : <<c, f>> \in edges}
CheckerSet   == {c \in Func : Checkees(c) # {}}
Scheduled    == {order[i] : i \in 1..Len(order)}

(* A relation on a finite set is acyclic iff every non-empty set of nodes  *)
(* has a member without a successor in that set.                           *)
Acyclic(R) ==
  \A S \in SUBSET Func : S # {} => \E c \in S : \A f \in S : <<c, f>> \notin R

-----------------------------------------------------------------------------
Init ==
  /\ edges = {}
  /\ order = <<>>

(* A function that has no checker yet is given a set of them.              *)
Protect(f, S) ==
  /\ order = <<>>
  /\ \A c \in Func : <<c, f>> \notin edges
  /\ edges' = edges \cup (S \X {f})
  /\ Acyclic(edges')
  /\ UNCHANGED order

(* A function is made a checker of more functions.                         *)
Employ(c, S) ==
  /\ order = <<>>
  /\ edges' = edges \cup ({c} \X S)
  /\ Acyclic(edges')
  /\ UNCHANGED order

(* A checker is scheduled after all the checkers among its checkees.       *)
Schedule(c) ==
  /\ c \in CheckerSet \ Scheduled
  /\ Checkees(c) \cap CheckerSet \subseteq Scheduled
  /\ order' = Append(order, c)
  /\ UNCHANGED edges

Next ==
  \/ \E f \in Func, S \in SUBSET Func : Protect(f, S) \/ Employ(f, S)
  \/ \E c \in Func : Schedule(c)

Spec == Init /\ [][Next]_gvars
=============================================================================
