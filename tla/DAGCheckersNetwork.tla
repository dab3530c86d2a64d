------------------------- MODULE DAGCheckersNetwork -------------------------
(***************************************************************************)
(* The network of checkers: class DAGCheckersNetwork, which decides which  *)
(* functions hash which others and in which order guards are injected.     *)
(*                                                                         *)
(*   constructProtectionNetwork   phases "select" and "invert"             *)
(*   getReverseTopologicalSort    phase "sort"                             *)
(*                                                                         *)
(* A std::map keyed by Function* is iterated in the order of addresses,    *)
(* which is any order: a loop over one takes its entries in any order      *)
(* here.  A vector of which only the members matter is a set.              *)
(***************************************************************************)
EXTENDS Integers, Sequences, FiniteSets, Descent

CONSTANTS Func,             \* the functions of the LLVM module
          Connectivities    \* the levels of connectivity a caller may ask for

ASSUME FuncAssumption == IsFiniteSet(Func)
(* SCPass replaces 0 by 2; a negative option value reaches the network.    *)
ASSUME ConnectivityAssumption == Connectivities \subseteq Int \ {0}

VARIABLES
  phase,            \* which loop of which call is running
  acceptLower,      \* member accept_lower_connectivity
  sensitive,        \* argument sensitiveFunctions, after the caller's shuffle
  checkers,         \* argument checkerFunctions
  connectivity,     \* argument connectivity
  pos,              \* position in sensitive of the function taken next
  available,        \* availableCheckers
  checkeeChecker,   \* checkee -> its checkers; {} where the map has no entry
  pending,          \* entries of checkeeChecker not yet inverted
  checkerCheckee,   \* checker -> its checkees; <<>> where there is no entry
  visited,          \* functions topologicalSortUtil has marked
  stack,            \* functions of its calls in progress, innermost last
  cursor,           \* how many checkees the call for a function has looked at
  list              \* List, the reverse topological sort

inputVars   == <<acceptLower, sensitive, checkers, connectivity>>
networkVars == <<pos, available, checkeeChecker, pending, checkerCheckee>>
sortVars    == <<visited, stack, cursor, list>>
vars        == <<phase, inputVars, networkVars, sortVars>>

-----------------------------------------------------------------------------
RangeOf(s)     == {s[i] : i \in 1..Len(s)}
Distinct(s)    == \A i, j \in 1..Len(s) : i # j => s[i] # s[j]
Top(s)         == s[Len(s)]

(* The orders in which the caller may hand over its sensitive functions.   *)
Orders ==
  {s \in UNION {[1..n -> Func] : n \in 0..Cardinality(Func)} : Distinct(s)}

IsChecker(f) == checkerCheckee[f] # <<>>
Checks(c, f) == f \in RangeOf(checkerCheckee[c])

(* getAllFunctions: every checker and every checkee.                       *)
AllFunctions ==
  {f \in Func : IsChecker(f) \/ \E c \in Func : Checks(c, f)}

(* Mutant of CombSize: the two are compared as ints, so that the loop over  *)
(* a negative number of checkers takes none.                               *)
CombSizeSigned(k, n) == IF k < 0 THEN 0 ELSE IF k > n THEN n ELSE k

(* randomComb clips the size by a comparison of an int with a size_t, in   *)
(* which a negative level is larger than any size.                         *)
CombSize(k, n) == IF k < 0 \/ k > n THEN n ELSE k
RandomComb(k, S) ==
  {T \in SUBSET S : Cardinality(T) = CombSize(k, Cardinality(S))}

-----------------------------------------------------------------------------
(* Mutant of Init: the loop over sensitiveFunctions starts a place early.   *)
InitBeforeFirst ==
  /\ phase = "idle" /\ acceptLower = FALSE
  /\ sensitive = <<>> /\ checkers = {} /\ connectivity = 1
  /\ pos = 0 /\ available = {}
  /\ checkeeChecker = [f \in Func |-> {}] /\ pending = {}
  /\ checkerCheckee = [f \in Func |-> <<>>]
  /\ visited = {} /\ stack = <<>> /\ cursor = [f \in Func |-> 0] /\ list = <<>>

Init ==
  /\ phase = "idle"
  /\ acceptLower = FALSE
  /\ sensitive = <<>> /\ checkers = {} /\ connectivity = 1
  /\ pos = 1 /\ available = {}
  /\ checkeeChecker = [f \in Func |-> {}] /\ pending = {}
  /\ checkerCheckee = [f \in Func |-> <<>>]
  /\ visited = {} /\ stack = <<>> /\ cursor = [f \in Func |-> 0] /\ list = <<>>

(* Mutant of the setter: the value that is set is lost.                     *)
LowerConnectivityKept(value) ==
  /\ phase = "idle"
  /\ UNCHANGED <<phase, acceptLower, sensitive, checkers, connectivity, networkVars, sortVars>>

SetLowerConnectivityAcceptance(value) ==
  /\ phase = "idle"
  /\ acceptLower' = value
  /\ UNCHANGED <<phase, sensitive, checkers, connectivity, networkVars, sortVars>>

-----------------------------------------------------------------------------
(* constructProtectionNetwork                                              *)

(* Mutant: checkees are offered as checkers whatever the caller asked.      *)
ConstructFromAll(order, candidates, level) ==
  /\ phase = "idle"
  /\ phase' = "select"
  /\ sensitive' = order /\ checkers' = candidates /\ connectivity' = level
  /\ available' = candidates \cup RangeOf(order)
  /\ UNCHANGED <<acceptLower, pos, checkeeChecker, pending, checkerCheckee, sortVars>>

ConstructProtectionNetwork(order, candidates, level) ==
  /\ phase = "idle"
  /\ phase' = "select"
  /\ sensitive' = order /\ checkers' = candidates /\ connectivity' = level
  /\ available' = candidates
  /\ UNCHANGED <<acceptLower, pos, checkeeChecker, pending, checkerCheckee, sortVars>>

(* Mutant: the candidates are copied anew for each sensitive function.      *)
RemainingAfresh == checkers \ {sensitive[pos]}

Remaining == available \ {sensitive[pos]}

(* One turn of the loop over sensitiveFunctions: the function leaves the   *)
(* candidates for good and is given checkers among those that remain.      *)
SelectCheckers ==
  /\ phase = "select" /\ pos <= Len(sensitive)
  /\ Remaining # {}
  /\ available' = Remaining
  /\ \E chosen \in RandomComb(connectivity, Remaining) :
       checkeeChecker' = [checkeeChecker EXCEPT ![sensitive[pos]] = chosen]
  /\ pos' = pos + 1
  /\ UNCHANGED <<phase, inputVars, pending, checkerCheckee, sortVars>>

(* The loop ends, at its last function or at the break it takes when no    *)
(* candidate remains; the map it filled is inverted next.                  *)
EndSelection ==
  /\ phase = "select"
  /\ \/ pos > Len(sensitive) /\ UNCHANGED available
     \/ pos <= Len(sensitive) /\ Remaining = {} /\ available' = {}
  /\ phase' = "invert"
  /\ pending' = {f \in Func : checkeeChecker[f] # {}}
  /\ UNCHANGED <<inputVars, pos, checkeeChecker, checkerCheckee, sortVars>>

LevelPreserved(f) == Cardinality(checkeeChecker[f]) = connectivity

(* One entry of checkeeChecker: its level is compared with the one asked   *)
(* for, and the checkee is pushed to the entries of all its checkers.      *)
InvertEntry(f) ==
  /\ phase = "invert" /\ f \in pending
  /\ LevelPreserved(f) \/ acceptLower
  /\ pending' = pending \ {f}
  /\ checkerCheckee' = [c \in Func |-> IF c \in checkeeChecker[f]
                                       THEN Append(checkerCheckee[c], f)
                                       ELSE checkerCheckee[c]]
  /\ UNCHANGED <<phase, inputVars, pos, available, checkeeChecker, sortVars>>

RejectLevel(f) ==
  /\ phase = "invert" /\ f \in pending
  /\ ~LevelPreserved(f) /\ ~acceptLower
  /\ phase' = "exit"
  /\ UNCHANGED <<inputVars, networkVars, sortVars>>

ReturnNetwork ==
  /\ phase = "invert" /\ pending = {}
  /\ phase' = "built"
  /\ UNCHANGED <<inputVars, networkVars, sortVars>>

-----------------------------------------------------------------------------
(* getReverseTopologicalSort                                               *)

GetReverseTopologicalSort ==
  /\ phase = "built"
  /\ phase' = "sort"
  /\ visited' = {} /\ stack' = <<>> /\ list' = <<>>
  /\ cursor' = [f \in Func |-> 0]
  /\ UNCHANGED <<inputVars, networkVars>>

(* topologicalSortUtil is entered: it marks the function and returns at    *)
(* once when the function checks nothing.                                  *)
Enter(f) ==
  /\ visited' = visited \cup {f}
  /\ stack' = IF IsChecker(f) THEN Append(stack, f) ELSE stack

(* Mutant of SortFrom: visited is not asked before a call.                  *)
SortFromAny(f) ==
  /\ phase = "sort" /\ stack = <<>>
  /\ f \in AllFunctions
  /\ Enter(f)
  /\ UNCHANGED <<phase, inputVars, networkVars, cursor, list>>

SortFrom(f) ==
  /\ phase = "sort" /\ stack = <<>>
  /\ f \in AllFunctions \ visited
  /\ Enter(f)
  /\ UNCHANGED <<phase, inputVars, networkVars, cursor, list>>

VisitCheckee ==
  /\ phase = "sort" /\ stack # <<>>
  /\ LET caller == Top(stack)
         next   == cursor[caller] + 1
     IN  /\ next <= Len(checkerCheckee[caller])
         /\ cursor' = [cursor EXCEPT ![caller] = next]
         /\ IF checkerCheckee[caller][next] \in visited
            THEN UNCHANGED <<visited, stack>>
            ELSE Enter(checkerCheckee[caller][next])
  /\ UNCHANGED <<phase, inputVars, networkVars, list>>

(* Mutants of ListFunction: the function is put at the front of the list;   *)
(* it is listed after its first checkee.                                    *)
ListInFront ==
  /\ phase = "sort" /\ stack # <<>>
  /\ cursor[Top(stack)] >= Len(checkerCheckee[Top(stack)])
  /\ list' = <<Top(stack)>> \o list
  /\ stack' = SubSeq(stack, 1, Len(stack) - 1)
  /\ UNCHANGED <<phase, inputVars, networkVars, visited, cursor>>

ListAfterFirst ==
  /\ phase = "sort" /\ stack # <<>>
  /\ cursor[Top(stack)] >= 1
  /\ list' = Append(list, Top(stack))
  /\ stack' = SubSeq(stack, 1, Len(stack) - 1)
  /\ UNCHANGED <<phase, inputVars, networkVars, visited, cursor>>

(* All checkees of the innermost call are done: it appends its function.   *)
ListFunction ==
  /\ phase = "sort" /\ stack # <<>>
  /\ cursor[Top(stack)] >= Len(checkerCheckee[Top(stack)])
  /\ list' = Append(list, Top(stack))
  /\ stack' = SubSeq(stack, 1, Len(stack) - 1)
  /\ UNCHANGED <<phase, inputVars, networkVars, visited, cursor>>

(* The loop over the functions ends: it has called, or found visited, all. *)
ReturnSort ==
  /\ phase = "sort" /\ stack = <<>>
  /\ AllFunctions \subseteq visited
  /\ phase' = "done"
  /\ UNCHANGED <<inputVars, networkVars, sortVars>>

-----------------------------------------------------------------------------
Construct ==
  \/ SelectCheckers
  \/ EndSelection
  \/ \E f \in Func : InvertEntry(f) \/ RejectLevel(f)
  \/ ReturnNetwork

Sort ==
  \/ \E f \in Func : SortFrom(f)
  \/ VisitCheckee
  \/ ListFunction
  \/ ReturnSort

(* runOnModule passes the sensitive functions as candidates too, or none   *)
(* of them.                                                                *)
Call ==
  \/ \E value \in BOOLEAN : SetLowerConnectivityAcceptance(value)
  \/ \E order \in Orders, candidates \in SUBSET Func, level \in Connectivities :
       /\ RangeOf(order) \subseteq candidates \/ RangeOf(order) \cap candidates = {}
       /\ ConstructProtectionNetwork(order, candidates, level)
  \/ GetReverseTopologicalSort

Next == Call \/ Construct \/ Sort

Spec == Init /\ [][Next]_vars

-----------------------------------------------------------------------------
(* Every variable stays within its type, for any set of functions.         *)
TypeOK ==
  /\ phase \in {"idle", "select", "invert", "built", "sort", "done", "exit"}
  /\ acceptLower \in BOOLEAN
  /\ sensitive \in Seq(Func) /\ checkers \subseteq Func /\ connectivity \in Int
  /\ pos \in Nat \ {0}
  /\ available \subseteq Func
  /\ checkeeChecker \in [Func -> SUBSET Func]
  /\ pending \subseteq Func
  /\ checkerCheckee \in [Func -> Seq(Func)]
  /\ visited \subseteq Func
  /\ stack \in Seq(Func) /\ list \in Seq(Func)
  /\ cursor \in [Func -> Nat]

(* No function hashes its own code, directly or through other checkers:    *)
(* with every non-empty set of functions there is one that checks none of  *)
(* them.  The erase of each sensitive function from availableCheckers is   *)
(* what keeps the graph acyclic, also when the network is incomplete.      *)
NoCheckingCycle ==
  \A S \in SUBSET Func :
    S # {} => \E c \in S : \A f \in S : ~Checks(c, f)

(* A function is listed after every function it checks that is itself a    *)
(* checker: guards are injected, and patched, from the leaves up.          *)
CheckeesFirst ==
  \A i \in 1..Len(list) : \A f \in Func :
    Checks(list[i], f) /\ IsChecker(f) => \E j \in 1..(i - 1) : list[j] = f

(* When the sort returns, the list holds each checker, once, and nothing   *)
(* else: a checker left out would be injected no guard, one listed twice   *)
(* would be injected each of its guards twice.                             *)
ListsEveryChecker ==
  phase = "done" =>
    /\ Distinct(list)
    /\ RangeOf(list) = {f \in Func : IsChecker(f)}

(* The candidates left for the i-th sensitive function are those given by  *)
(* the caller but the first i sensitive functions.                         *)
CandidatesFor(i) == checkers \ {sensitive[j] : j \in 1..i}

(* A protected function has the number of checkers asked for, or every     *)
(* candidate its position in the shuffled order leaves, when these are     *)
(* fewer or the number asked for is negative; the two maps of the          *)
(* construction say the same, with no checkee pushed twice to a checker.   *)
ConnectivityReached ==
  phase \in {"built", "sort", "done"} =>
    \A i \in 1..Len(sensitive) :
      LET guarding == {c \in Func : Checks(c, sensitive[i])}
      IN  /\ guarding = checkeeChecker[sensitive[i]]
          /\ guarding \subseteq CandidatesFor(i)
          /\ \/ Cardinality(guarding) = connectivity
             \/ /\ guarding = CandidatesFor(i)
                /\ connectivity < 0 \/ Cardinality(guarding) < connectivity
          /\ \A c \in guarding : Distinct(checkerCheckee[c])

(* Functions handed over as checkees only are never made checkers, and     *)
(* functions that are not sensitive are never checked (#48).               *)
RolesRespected ==
  \A c, f \in Func : Checks(c, f) => c \in checkers /\ f \in RangeOf(sensitive)

(* "assure that the number of checkers is equal to the connectivity level" *)
(* (DAGCheckersNetwork.cpp:204): when a lower connectivity is not accepted *)
(* the network is built with exactly that level, or not at all.            *)
StrictConnectivity ==
  phase = "done" /\ ~acceptLower =>
    \A i \in 1..Len(sensitive) :
      Cardinality({c \in Func : Checks(c, sensitive[i])}) = connectivity

(* What a call has ahead: loops to be begun, turns of the one it is in,    *)
(* calls of topologicalSortUtil in progress, checkees of the innermost.    *)
LoopsAhead ==
  CASE phase = "idle" -> 5 [] phase = "select" -> 4 [] phase = "invert" -> 3
    [] phase = "built" -> 2 [] phase = "sort" -> 1 [] OTHER -> 0
TurnsAhead ==
  CASE phase = "select" -> Len(sensitive) + 1 - pos
    [] phase = "invert" -> Cardinality(pending)
    [] phase = "sort"   -> Cardinality(Func \ visited)
    [] OTHER            -> 0
CheckeesAhead ==
  IF stack = <<>> THEN 0 ELSE Len(checkerCheckee[Top(stack)]) - cursor[Top(stack)]
Ahead == <<LoopsAhead, TurnsAhead, Len(stack), CheckeesAhead>>

(* Each step brings a call nearer to its end, so that none goes on for     *)
(* ever: the break, the search through functions already visited and the   *)
(* returns of the recursion all get on.                                    *)
CallsShorten == [][Construct \/ Sort => Nearer(Ahead', Ahead)]_vars

-----------------------------------------------------------------------------
(* The network of checkers implements the abstract one: each function is   *)
(* given its checkers in one step and each checker is scheduled in one.    *)
CheckedPairs == {e \in Func \X Func : e[1] \in checkeeChecker[e[2]]}

Graph == INSTANCE CheckerGraph WITH edges <- CheckedPairs, order <- list
ImplementsGraph == Graph!Spec
=============================================================================
