--------------------------- MODULE LegacyNetwork ----------------------------
(***************************************************************************)
(* The earlier network of checkers: class CheckersNetwork, over numbered   *)
(* nodes.  It draws ranks of nodes at random; every node of a lower rank   *)
(* may check nodes of a higher one.  AcyclicGrpahGen.cpp is the same       *)
(* construction as a program of its own.                                   *)
(*                                                                         *)
(* checkerCheckeeMap is a member: what one call of                         *)
(* constructAcyclicCheckers has built is still there for the next.         *)
(***************************************************************************)
EXTENDS Integers, FiniteSets, FiniteSetsExt, SequencesExt, Descent

CONSTANTS MaxNodes,     \* bound on totalNodes and on the functions mapped
          Levels,       \* the values of desiredConnectivity
          MaxCalls,     \* bound on the calls of constructAcyclicCheckers
          MaxTotal      \* bound on the sum of totalNodes over all calls

ASSUME BoundAssumption == MaxNodes \in Nat /\ MaxCalls \in Nat /\ MaxTotal \in Nat
ASSUME LevelAssumption == Levels \subseteq Int

Node == 0..(MaxNodes - 1)

VARIABLES
  phase,                \* which loop of which call is running
  calls,                \* the totals of the calls so far (history)
  desired,              \* argument desiredConnectivity
  nodes, newNodes,      \* nodes of the ranks finished, and of the current one
  j,                    \* the lower node connected next
  rankEnds,             \* nodes after each rank of this call (history)
  checkerCheckeeMap,    \* checker -> its checkees; <<>> where there is no entry
  allFunctions,         \* AllFunctions: how many functions are mapped
  dumpMap,              \* dump_map: the network on functions
  visited, stack, cursor, list  \* as in DAGCheckersNetwork

buildVars == <<desired, nodes, newNodes, j, rankEnds, checkerCheckeeMap>>
sortVars  == <<allFunctions, dumpMap, visited, stack, cursor, list>>
vars      == <<phase, calls, buildVars, sortVars>>

-----------------------------------------------------------------------------
Least(a, b)  == IF a < b THEN a ELSE b
total        == Last(calls)
NoFunc       == -1
Pointer      == Node \cup {NoFunc}
IsChecker(v) == checkerCheckeeMap[v] # <<>>
SumOf(s)     == FoldSeq(LAMBDA x, y : x + y, 0, s)

Init ==
  /\ phase = "idle" /\ calls = <<>>
  /\ desired = 0 /\ nodes = 0 /\ newNodes = 0 /\ j = 0 /\ rankEnds = {}
  /\ checkerCheckeeMap = [v \in Node |-> <<>>]
  /\ allFunctions = 0 /\ dumpMap = [p \in Pointer |-> <<>>] /\ visited = {} /\ stack = <<>>
  /\ cursor = [v \in Node |-> 0] /\ list = <<>>

-----------------------------------------------------------------------------
(* constructAcyclicCheckers                                                *)

ConstructAcyclicCheckers(totalNodes, desiredConnectivity) ==
  /\ phase = "idle"
  /\ Len(calls) < MaxCalls /\ SumOf(calls) + totalNodes <= MaxTotal
  /\ phase' = "rank"
  /\ calls' = Append(calls, totalNodes) /\ desired' = desiredConnectivity
  /\ nodes' = 0 /\ rankEnds' = {}
  /\ UNCHANGED <<newNodes, j, checkerCheckeeMap, sortVars>>

(* rand() % totalNodes / 2 + 1, which is never 0, clipped to what remains. *)
(* (The first definitions are mutants: without the clipping; without + 1.) *)
RankSizesUnclipped == {r \div 2 + 1 : r \in 0..(total - 1)}
RankSizesFromZero  == {Least(r \div 2, total - nodes) : r \in 0..(total - 1)}
RankSizes          == {Least(r \div 2 + 1, total - nodes) : r \in 0..(total - 1)}

NewRank ==
  /\ phase = "rank" /\ nodes < total
  /\ phase' = "connect"
  /\ newNodes' \in RankSizes
  /\ j' = 0
  /\ UNCHANGED <<calls, desired, nodes, rankEnds, checkerCheckeeMap, sortVars>>

(* The nodes of the current rank.                                          *)
Newcomers == nodes..(nodes + newNodes - 1)

(* A set of nodes in the order of the inner loop, from the lowest up.      *)
Ascending(S) ==
  {s \in [1..Cardinality(S) -> S] : \A i, k \in DOMAIN s : i < k => s[i] < s[k]}

(* Mutant of CheckeesOf: the entry of the node is assigned, not extended.   *)
CheckeesOfRank(v, drawn, left) ==
  drawn \o SubSeq(left, 1, Least(Len(left), desired - Len(drawn)))

(* The entry of node v when chance has drawn edges to some newcomers: they *)
(* are pushed first, then as many others as the level still lacks.         *)
CheckeesOf(v, drawn, left) ==
  LET short == desired - Len(checkerCheckeeMap[v]) - Len(drawn)
  IN  checkerCheckeeMap[v] \o drawn \o SubSeq(left, 1, Least(Len(left), short))

ConnectNode ==
  /\ phase = "connect" /\ j < nodes
  /\ \E S \in SUBSET Newcomers :
       \E drawn \in Ascending(S), left \in Ascending(Newcomers \ S) :
         checkerCheckeeMap' = [checkerCheckeeMap EXCEPT ![j] = CheckeesOf(j, drawn, left)]
  /\ j' = j + 1
  /\ UNCHANGED <<phase, calls, desired, nodes, newNodes, rankEnds, sortVars>>

EndRank ==
  /\ phase = "connect" /\ j >= nodes
  /\ phase' = "rank"
  /\ nodes' = nodes + newNodes /\ rankEnds' = rankEnds \cup {nodes'}
  /\ UNCHANGED <<calls, desired, newNodes, j, checkerCheckeeMap, sortVars>>

(* What it hands back in actualConnectivity are lengths of the entries.     *)
ReturnNetwork ==
  /\ phase = "rank" /\ nodes >= total
  /\ phase' = "idle"
  /\ UNCHANGED <<calls, buildVars, sortVars>>

-----------------------------------------------------------------------------
(* mapCheckersOnFunctions and its getReverseTopologicalSort.  Node v stands *)
(* for function v; visited has a place for each function.                  *)

(* internalMap has the null pointer for a node without a function.         *)
Function(v, functions) == IF v < functions THEN v ELSE NoFunc

(* The map on functions; of several checkers without one the last is kept. *)
DumpMap(functions) ==
  [p \in Pointer |->
     LET nodesOf == {v \in Node : IsChecker(v) /\ Function(v, functions) = p}
     IN  IF nodesOf = {} THEN <<>>
         ELSE [i \in DOMAIN checkerCheckeeMap[Max(nodesOf)] |->
                 Function(checkerCheckeeMap[Max(nodesOf)][i], functions)]]

MapCheckersOnFunctions(functions) ==
  /\ phase = "idle" /\ calls # <<>>
  /\ phase' = "sort"
  /\ allFunctions' = functions /\ dumpMap' = DumpMap(functions)
  /\ visited' = {} /\ stack' = <<>> /\ list' = <<>> /\ cursor' = [v \in Node |-> 0]
  /\ UNCHANGED <<calls, buildVars>>

Enter(v) ==
  /\ visited' = visited \cup {v}
  /\ stack' = IF IsChecker(v) THEN Append(stack, v) ELSE stack

(* Mutant of SortFrom: visited is not asked before a call.                  *)
SortFromAny(v) ==
  /\ phase = "sort" /\ stack = <<>>
  /\ v < allFunctions /\ 0..(v - 1) \subseteq visited
  /\ Enter(v)
  /\ UNCHANGED <<phase, calls, buildVars, allFunctions, dumpMap, cursor, list>>

SortFrom(v) ==
  /\ phase = "sort" /\ stack = <<>>
  /\ v < allFunctions /\ v \notin visited /\ 0..(v - 1) \subseteq visited
  /\ Enter(v)
  /\ UNCHANGED <<phase, calls, buildVars, allFunctions, dumpMap, cursor, list>>

(* A checkee that is no function is looked up outside of visited.          *)
VisitCheckee ==
  /\ phase = "sort" /\ stack # <<>>
  /\ LET caller == Last(stack)
         next   == cursor[caller] + 1
     IN  /\ next <= Len(checkerCheckeeMap[caller])
         /\ cursor' = [cursor EXCEPT ![caller] = next]
         /\ LET checkee == checkerCheckeeMap[caller][next]
            IN  IF checkee >= allFunctions
                THEN phase' = "undefined" /\ UNCHANGED <<visited, stack>>
                ELSE /\ IF checkee \in visited
                        THEN UNCHANGED <<visited, stack>> ELSE Enter(checkee)
                     /\ UNCHANGED phase
  /\ UNCHANGED <<calls, buildVars, allFunctions, dumpMap, list>>

(* Mutant of ListFunction: a node is listed after its first checkee.        *)
ListAfterFirst ==
  /\ phase = "sort" /\ stack # <<>>
  /\ cursor[Last(stack)] >= 1
  /\ list' = Append(list, Last(stack))
  /\ stack' = Front(stack)
  /\ UNCHANGED <<phase, calls, buildVars, allFunctions, dumpMap, visited, cursor>>

ListFunction ==
  /\ phase = "sort" /\ stack # <<>>
  /\ cursor[Last(stack)] >= Len(checkerCheckeeMap[Last(stack)])
  /\ list' = Append(list, Last(stack))
  /\ stack' = Front(stack)
  /\ UNCHANGED <<phase, calls, buildVars, allFunctions, dumpMap, visited, cursor>>

ReturnSort ==
  /\ phase = "sort" /\ stack = <<>>
  /\ 0..(allFunctions - 1) \subseteq visited
  /\ phase' = "done"
  /\ UNCHANGED <<calls, buildVars, sortVars>>

-----------------------------------------------------------------------------
Construct == NewRank \/ ConnectNode \/ EndRank \/ ReturnNetwork

Sort ==
  \/ \E v \in Node : SortFrom(v)
  \/ VisitCheckee
  \/ ListFunction
  \/ ReturnSort

Next ==
  \/ \E t \in 0..MaxNodes, d \in Levels : ConstructAcyclicCheckers(t, d)
  \/ \E n \in 0..MaxNodes : MapCheckersOnFunctions(n)
  \/ Construct
  \/ Sort

Spec == Init /\ [][Next]_vars

(* One thread, and no step that waits.                                     *)
FairSpec == Spec /\ WF_vars(Construct \/ Sort)

-----------------------------------------------------------------------------
TypeOK ==
  /\ phase \in {"idle", "rank", "connect", "sort", "done", "undefined"}
  /\ calls \in Seq(0..MaxNodes) /\ desired \in Int
  /\ nodes \in 0..MaxNodes /\ newNodes \in 0..MaxNodes /\ j \in Nat
  /\ checkerCheckeeMap \in [Node -> Seq(Node)]
  /\ allFunctions \in 0..MaxNodes /\ dumpMap \in [Pointer -> Seq(Pointer)]
  /\ visited \subseteq Node /\ cursor \in [Node -> Nat]
  /\ stack \in Seq(Node) /\ list \in Seq(Node)

Edges == {e \in Node \X Node : e[2] \in ToSet(checkerCheckeeMap[e[1]])}

Returned == phase = "idle" /\ calls # <<>>

(* The nodes of higher ranks than v in the network drawn last.             *)
Above(v) == total - Min({e \in rankEnds : v < e})

(* "Aim for getting desired connectivity": a call returns with as many     *)
(* checkees for each node as asked for, or with all nodes of higher ranks. *)
(* In the first call they are different ones.  A later call counts what    *)
(* earlier ones have pushed, and may push it again.                        *)
LevelReached ==
  Returned => \A v \in 0..(total - 1) :
    LET checkees == checkerCheckeeMap[v]
    IN  /\ Len(checkees) >= Least(desired, Above(v))
        /\ Len(calls) = 1 => Len(checkees) = Cardinality(ToSet(checkees))

(* With a function for each node the sort reads only places of visited and *)
(* lists each checker of the map that is returned, once; the map has every *)
(* edge of the network and no null pointer.                                *)
SortsAllCheckers ==
  (\A i \in 1..Len(calls) : calls[i] <= allFunctions) =>
    /\ phase # "undefined"
    /\ phase = "done" => /\ Len(list) = Cardinality(ToSet(list))
                         /\ ToSet(list) = {p \in Pointer : dumpMap[p] # <<>>}
                         /\ Edges = {e \in Pointer \X Pointer : e[2] \in ToSet(dumpMap[e[1]])}

(* Both calls come to an end: a rank always has a node, and no node is     *)
(* entered twice.                                                          *)
Terminates ==
  /\ phase = "rank" ~> phase = "idle"
  /\ phase = "sort" ~> phase \in {"done", "undefined"}

(* What a call has ahead: itself, nodes to be drawn or visited, turns of   *)
(* the rank or calls of topologicalSortUtil in progress, and the checkees  *)
(* of the innermost.                                                       *)
Ahead ==
  CASE phase = "rank"    -> <<1, total - nodes, nodes + 1, 0>>
    [] phase = "connect" -> <<1, total - nodes, nodes - j, 0>>
    [] phase = "sort"    ->
         <<1, Cardinality(Node \ visited), Len(stack),
           IF stack = <<>> THEN 0 ELSE Len(checkerCheckeeMap[Last(stack)]) - cursor[Last(stack)]>>
    [] OTHER             -> <<0, 0, 0, 0>>

(* Each step brings a call nearer to its end: no rank is empty, and no     *)
(* node is entered twice.                                                  *)
CallsShorten == [][Construct \/ Sort => Nearer(Ahead', Ahead)]_vars

(* The class implements CheckerGraph: a node is given checkees in a step,  *)
(* over any number of calls, and is scheduled when it is listed.           *)
Graph == INSTANCE CheckerGraph WITH Func <- Node, edges <- Edges, order <- list
ImplementsGraph == Graph!Spec
=============================================================================
