---------------------------- MODULE SCPassProofs ----------------------------
(***************************************************************************)
(* Proofs about SCPass, for every set of functions, every combination of   *)
(* options and any number of runs.  What the pass needs of its network of  *)
(* checkers is taken from the proofs about DAGCheckersNetwork: the steps   *)
(* of the pass that are calls of the class, or steps of such a call, keep  *)
(* the inductive invariant of the class.                                   *)
(***************************************************************************)
EXTENDS SCPass, SequenceTheorems, FiniteSetTheorems, WellFoundedInduction, TLAPS

NetworkProofs == INSTANCE DAGCheckersNetworkProofs WITH
                   Connectivities <- {Desired(o.connectivity) : o \in Options}

-----------------------------------------------------------------------------
(* The inductive invariant                                                 *)

(* In the order, a function of this module comes before those that check   *)
(* it.  This holds of a constructed network and survives the file.         *)
LeavesFirst(map, order) ==
  \A i, k \in 1..Len(order) :
    /\ order[i] \in Func /\ order[k] \in Func
    /\ order[k] \in RangeOf(map[order[i]])
    => k < i

(* The lists of functions are made by Classify, from the input.            *)
Roster ==
  /\ sensitiveFunctions \in Network!Orders
  /\ RangeOf(sensitiveFunctions) \subseteq SensitiveOnes
  /\ otherFunctions \subseteq Others
  /\ stage \in {"start", "filtered"} => sensitiveFunctions = <<>> /\ otherFunctions = {}

(* The network object is called with the lists of this run.                *)
Handed ==
  stage = "constructing" =>
    ~option.load /\ sensitive = sensitiveFunctions /\ checkers = Candidates

(* Map and order fit each other, here and in the file.                     *)
Fits ==
  /\ LeavesFirst(checkerFuncMap, topologicalSortFuncs)
  /\ networkFile # NoFile => LeavesFirst(networkFile.map, networkFile.order)

(* The map holds functions of the module; a constructed one keeps roles.   *)
Mapped ==
  /\ \A p \in Pointer : RangeOf(checkerFuncMap[p]) \subseteq InModule \cup {NoFunc}
  /\ ~option.load => \A c \in Func : \A f \in RangeOf(checkerFuncMap[c]) :
                       c \in Candidates /\ f \in RangeOf(sensitiveFunctions)

(* A guard is of a host whose turn has come, and of one of its checkees.   *)
Injected ==
  \A n \in 1..Len(guards) :
    /\ \E k \in 1..Len(topologicalSortFuncs) :
         k <= turn /\ topologicalSortFuncs[k] = guards[n].host
    /\ guards[n].checkee \in RangeOf(checkerFuncMap[guards[n].host])

(* Nothing is injected before all that can refuse the run, and nothing is  *)
(* mapped before the functions are classified.                             *)
NotYet ==
  /\ stage \notin {"inject", "done", "crash"} => guards = <<>> /\ marked = {} /\ turn = 1
  /\ stage \in {"start", "filtered"} => \A p \in Pointer : checkerFuncMap[p] = <<>>

(* Names of functions that the module still has are found again.           *)
Found ==
  option.load /\ stage \in {"built", "inject"} /\ FileNames \subseteq present =>
    /\ RangeOf(topologicalSortFuncs) \subseteq present
    /\ \A c \in Func : NoFunc \notin RangeOf(checkerFuncMap[c])

IInv == /\ TypeOK /\ NetworkProofs!IInv
        /\ Roster /\ Handed /\ Fits /\ Mapped /\ Injected /\ NotYet /\ Found
        /\ GuardsBottomUp /\ CrashOnlyOnLostName

-----------------------------------------------------------------------------
(* The network of checkers                                                 *)

(* The constants of the class satisfy the assumptions of its proofs.       *)
LEMMA NetworkAssumptions ==
  /\ NetworkProofs!IsFiniteSet(Func)
  /\ {Desired(o.connectivity) : o \in Options} \subseteq Int \ {0}
<1>1. NetworkProofs!IsFiniteSet(Func)
  BY FuncAssumption, Zenon DEF IsFiniteSet, NetworkProofs!IsFiniteSet
<1>2. {Desired(o.connectivity) : o \in Options} \subseteq Int \ {0}
  BY OptionsAssumption DEF Desired
<1> QED
  BY <1>1, <1>2

(* A new object of the class satisfies the invariant of the class.         *)
LEMMA NewNetwork == Network!Init => NetworkProofs!IInv
<1>1. Network!Init => NetworkProofs!Init
  BY DEF Network!Init, NetworkProofs!Init
<1> QED
  BY <1>1, NetworkProofs!InvInit, NetworkAssumptions

(* While a step leaves the object alone, it stays as it is.                *)
LEMMA NetworkUnchanged ==
  NetworkProofs!IInv /\ UNCHANGED networkObject => NetworkProofs!IInv'
<1>1. UNCHANGED networkObject => UNCHANGED NetworkProofs!vars
  BY DEF networkObject, NetworkProofs!vars, NetworkProofs!inputVars,
     NetworkProofs!networkVars, NetworkProofs!sortVars
<1> QED
  BY <1>1, NetworkProofs!InvNext, NetworkAssumptions

(* The steps of a call are steps of the class.                             *)
LEMMA NetworkSteps ==
  ASSUME Network!Construct \/ Network!GetReverseTopologicalSort \/ Network!Sort
  PROVE  /\ NetworkProofs!Construct \/ NetworkProofs!GetReverseTopologicalSort \/ NetworkProofs!Sort
         /\ NetworkProofs!Next
<1> USE DEF Network!inputVars, Network!networkVars, Network!sortVars,
        NetworkProofs!inputVars, NetworkProofs!networkVars, NetworkProofs!sortVars
<1>1. Network!Construct => NetworkProofs!Construct
  BY DEF Network!Construct, NetworkProofs!Construct,
     Network!SelectCheckers, NetworkProofs!SelectCheckers,
     Network!Remaining, NetworkProofs!Remaining,
     Network!RandomComb, NetworkProofs!RandomComb,
     Network!CombSize, NetworkProofs!CombSize,
     Network!EndSelection, NetworkProofs!EndSelection,
     Network!InvertEntry, NetworkProofs!InvertEntry,
     Network!RejectLevel, NetworkProofs!RejectLevel,
     Network!LevelPreserved, NetworkProofs!LevelPreserved,
     Network!ReturnNetwork, NetworkProofs!ReturnNetwork,
     Network!Cardinality, NetworkProofs!Cardinality, Cardinality
<1>2. Network!GetReverseTopologicalSort => NetworkProofs!GetReverseTopologicalSort
  BY DEF Network!GetReverseTopologicalSort, NetworkProofs!GetReverseTopologicalSort
<1>3. Network!Sort => NetworkProofs!Sort
  BY DEF Network!Sort, NetworkProofs!Sort,
     Network!SortFrom, NetworkProofs!SortFrom,
     Network!VisitCheckee, NetworkProofs!VisitCheckee,
     Network!ListFunction, NetworkProofs!ListFunction,
     Network!ReturnSort, NetworkProofs!ReturnSort,
     Network!Enter, NetworkProofs!Enter, Network!Top, NetworkProofs!Top,
     Network!AllFunctions, NetworkProofs!AllFunctions,
     Network!IsChecker, NetworkProofs!IsChecker,
     Network!Checks, NetworkProofs!Checks,
     Network!RangeOf, NetworkProofs!RangeOf
<1> QED
  BY <1>1, <1>2, <1>3 DEF NetworkProofs!Next, NetworkProofs!Call

(* The lists of functions hold functions of the module, the others are not *)
(* sensitive, and the candidates are functions too.                        *)
LEMMA RosterFacts ==
  ASSUME TypeOK, Roster
  PROVE  /\ RangeOf(sensitiveFunctions) \subseteq present
         /\ otherFunctions \cap RangeOf(sensitiveFunctions) = {}
         /\ Candidates \subseteq present
<1>1. SensitiveOnes \subseteq present /\ Others \cap SensitiveOnes = {}
  BY DEF SensitiveOnes, Others, Analysed
<1> QED
  BY <1>1 DEF TypeOK, Roster, Candidates

(* Both calls of the pass are calls the class is proved correct for.       *)
LEMMA NetworkCalls ==
  ASSUME TypeOK, Roster, Classify \/ CallConstruct
  PROVE  NetworkProofs!Next
<1> USE DEF Network!inputVars, Network!networkVars, Network!sortVars,
        NetworkProofs!inputVars, NetworkProofs!networkVars, NetworkProofs!sortVars
<1>1. CASE Classify
  <2>1. NetworkProofs!SetLowerConnectivityAcceptance(TRUE)
    BY <1>1 DEF Classify, Network!SetLowerConnectivityAcceptance,
       NetworkProofs!SetLowerConnectivityAcceptance
  <2> QED
    BY <2>1 DEF NetworkProofs!Next, NetworkProofs!Call
<1>2. CASE CallConstruct
  <2> DEFINE order == sensitiveFunctions
             level == Desired(option.connectivity)
  <2>1. NetworkProofs!ConstructProtectionNetwork(order, Candidates, level)
    BY <1>2 DEF CallConstruct, Network!ConstructProtectionNetwork,
       NetworkProofs!ConstructProtectionNetwork
  <2>2. order \in NetworkProofs!Orders
    BY Zenon DEF Roster, Network!Orders, NetworkProofs!Orders, Network!Distinct, NetworkProofs!Distinct,
       Network!Cardinality, NetworkProofs!Cardinality, Cardinality
  <2>3. Candidates \in SUBSET Func
    BY RosterFacts DEF TypeOK
  <2>4. level \in {Desired(o.connectivity) : o \in Options}
    BY DEF TypeOK
  <2>5. \/ NetworkProofs!RangeOf(order) \subseteq Candidates
        \/ NetworkProofs!RangeOf(order) \cap Candidates = {}
    BY RosterFacts DEF Candidates, RangeOf, NetworkProofs!RangeOf
  <2> HIDE DEF order, level
  <2>6. NetworkProofs!Call
    BY <2>1, <2>2, <2>3, <2>4, <2>5 DEF NetworkProofs!Call
  <2> QED
    BY <2>6 DEF NetworkProofs!Next
<1> QED
  BY <1>1, <1>2

(* A step of the class keeps the invariant of the class.                   *)
LEMMA NetworkKept == NetworkProofs!IInv /\ NetworkProofs!Next => NetworkProofs!IInv'
BY NetworkProofs!InvNext, NetworkAssumptions

(* What the class returns: an order of functions and their checkees that   *)
(* fit each other, made of what it was handed.                             *)
LEMMA NetworkResult ==
  ASSUME NetworkProofs!IInv, phase = "done"
  PROVE  /\ list \in Seq(Func) /\ checkerCheckee \in [Func -> Seq(Func)]
         /\ checkers \subseteq Func
         /\ LeavesFirst(checkerCheckee, list)
         /\ \A c \in Func : \A f \in RangeOf(checkerCheckee[c]) :
              c \in checkers /\ f \in RangeOf(sensitive)
<1>1. /\ list \in Seq(Func) /\ checkerCheckee \in [Func -> Seq(Func)]
      /\ checkers \subseteq Func
  BY DEF NetworkProofs!IInv, NetworkProofs!TypeOK
<1>2. Len(list) \in Nat /\ \A c \in Func : RangeOf(checkerCheckee[c]) \subseteq Func
  BY <1>1, LenProperties, ElementOfSeq DEF RangeOf
<1>3. \A c \in Func : \A f \in RangeOf(checkerCheckee[c]) :
        c \in checkers /\ f \in RangeOf(sensitive)
  <2>1. NetworkProofs!RolesRespected
    BY NetworkProofs!RolesOfChecks, NetworkAssumptions
  <2> QED
    BY <1>2, <2>1 DEF NetworkProofs!RolesRespected, NetworkProofs!Checks, NetworkProofs!RangeOf, RangeOf
<1>4. /\ \A i, j \in 1..Len(list) : i # j => list[i] # list[j]
      /\ RangeOf(list) = {f \in Func : checkerCheckee[f] # <<>>}
  BY NetworkProofs!SortComplete, NetworkAssumptions
     DEF NetworkProofs!ListsEveryChecker, NetworkProofs!Distinct, NetworkProofs!RangeOf,
         RangeOf, NetworkProofs!IsChecker
<1>5. \A i \in 1..Len(list) : \A f \in Func :
        f \in RangeOf(checkerCheckee[list[i]]) /\ checkerCheckee[f] # <<>>
        => \E j \in 1..(i - 1) : list[j] = f
  BY DEF NetworkProofs!IInv, NetworkProofs!SortInv, NetworkProofs!CheckeesFirst,
     NetworkProofs!Checks, NetworkProofs!RangeOf, RangeOf, NetworkProofs!IsChecker
<1>6. LeavesFirst(checkerCheckee, list)
  <2> SUFFICES ASSUME NEW i \in 1..Len(list), NEW k \in 1..Len(list),
                      list[i] \in Func, list[k] \in Func,
                      list[k] \in RangeOf(checkerCheckee[list[i]])
               PROVE  k < i
    BY DEF LeavesFirst
  <2>1. checkerCheckee[list[k]] # <<>>
    BY <1>4 DEF RangeOf
  <2>2. PICK j \in 1..(i - 1) : list[j] = list[k]
    BY <1>5, <2>1
  <2>3. j \in 1..Len(list) /\ j < i
    BY <1>2, <2>2
  <2> QED
    BY <1>4, <2>2, <2>3
<1> QED
  BY <1>1, <1>3, <1>6

-----------------------------------------------------------------------------
(* Lemmas on sequences                                                     *)

(* The empty sequence has no members.                                      *)
LEMMA EmptyRange == RangeOf(<<>>) = {}
<1>1. Len(<<>>) = 0
  BY EmptySeq
<1> QED
  BY <1>1 DEF RangeOf

(* The members of a sequence are in the set it is over.                    *)
LEMMA RangeInSet ==
  ASSUME NEW S, NEW s \in Seq(S)
  PROVE  RangeOf(s) \subseteq S
BY ElementOfSeq DEF RangeOf

(* A sequence whose members are in a smaller set is a sequence over it.     *)
LEMMA OverSmallerSet ==
  ASSUME NEW S, NEW T, NEW s \in Seq(S), \A i \in 1..Len(s) : s[i] \in T
  PROVE  s \in Seq(T)
<1>1. Len(s) \in Nat /\ s \in [1..Len(s) -> S]
  BY LenProperties
<1>2. s \in [1..Len(s) -> T]
  BY <1>1
<1> QED
  BY <1>1, <1>2

(* Type, length and elements of a sequence with one more element.          *)
LEMMA AppendFacts ==
  ASSUME NEW S, NEW s \in Seq(S), NEW e \in S
  PROVE  /\ Append(s, e) \in Seq(S)
         /\ Len(s) \in Nat /\ Len(Append(s, e)) = Len(s) + 1
         /\ \A i \in 1..Len(s) : Append(s, e)[i] = s[i]
         /\ Append(s, e)[Len(s) + 1] = e
<1>1. Len(s) \in Nat
  BY LenProperties
<1> QED
  BY <1>1

(* The last of some places of a sequence: of two entries for one checker   *)
(* the later is kept.                                                      *)
LEMMA LastPlace ==
  ASSUME NEW n \in Nat, NEW P \in SUBSET (1..n), P # {}
  PROVE  \E i \in P : \A j \in P : j <= i
<1> DEFINE Distances == {n - i : i \in P}
<1>1. \A i \in P : i \in Nat /\ n - i \in Nat
  OBVIOUS
<1>2. Distances \subseteq Nat /\ Distances # {}
  BY <1>1
<1>3. PICK d \in Distances : \A e \in Distances : ~(<<e, d>> \in OpToRel(<, Nat))
  BY <1>2, NatLessThanWellFounded, WFMin
<1>4. \A e \in Distances : ~(e < d)
  BY <1>2, <1>3 DEF OpToRel
<1>5. PICK i \in P : d = n - i
  BY <1>3
<1>6. ASSUME NEW j \in P
      PROVE  j <= i
  <2>1. ~(n - j < n - i)
    BY <1>4, <1>5
  <2> QED
    BY <1>1, <2>1
<1> QED
  BY <1>6

-----------------------------------------------------------------------------
(* Orders of functions                                                     *)

(* What the class takes as an order, in terms of this module.              *)
LEMMA OrdersAre ==
  /\ Cardinality(Func) \in Nat
  /\ Network!Orders =
       {s \in UNION {[1..n -> Func] : n \in 0..Cardinality(Func)} :
          \A i, j \in 1..Len(s) : i # j => s[i] # s[j]}
<1>1. Cardinality(Func) \in Nat
  BY FuncAssumption, FS_CardinalityType
<1>2. Network!Cardinality(Func) = Cardinality(Func)
  BY Zenon DEF Network!Cardinality, Cardinality
<1> QED
  BY <1>1, <1>2 DEF Network!Orders, Network!Distinct

(* No functions are an order.                                              *)
LEMMA EmptyOrder == <<>> \in Network!Orders
<1>1. <<>> \in Seq(Func) /\ Len(<<>>) = 0
  BY EmptySeq
<1>2. <<>> \in [1..0 -> Func]
  BY <1>1, LenProperties
<1> QED
  BY <1>1, <1>2, OrdersAre

(* A shuffle of functions of the module is a sequence of them and an order *)
(* the class accepts.                                                      *)
LEMMA ShuffleOrder ==
  ASSUME NEW S \in SUBSET present, present \subseteq Func, NEW s \in Permutation(S)
  PROVE  s \in Seq(present) /\ s \in Network!Orders /\ RangeOf(s) \subseteq S
<1>1. IsFiniteSet(S) /\ Cardinality(S) <= Cardinality(Func)
  BY FuncAssumption, FS_Subset
<1>2. Cardinality(S) \in Nat
  BY <1>1, FS_CardinalityType
<1> DEFINE n == Cardinality(S)
<1>3. /\ n \in Nat /\ n <= Cardinality(Func)
      /\ s \in [1..n -> S]
      /\ \A i, j \in 1..n : i # j => s[i] # s[j]
  BY <1>1, <1>2 DEF Permutation
<1> HIDE DEF n
<1>4. s \in Seq(S)
  BY <1>3
<1>5. Len(s) = n
  BY <1>3, <1>4
<1>6. s \in [1..n -> Func] /\ n \in 0..Cardinality(Func)
  BY <1>3, OrdersAre
<1>7. s \in Network!Orders
  BY <1>3, <1>5, <1>6, OrdersAre
<1>8. s \in Seq(present)
  BY <1>4, SeqMonotonic
<1> QED
  BY <1>4, <1>7, <1>8, RangeInSet

-----------------------------------------------------------------------------
(* The beginning of a run                                                  *)

(* The network file is a network that fits its order.                      *)
FileFits ==
  networkFile # NoFile => /\ networkFile.map \in [Func -> Seq(Func)]
                          /\ networkFile.order \in Seq(Func)
                          /\ LeavesFirst(networkFile.map, networkFile.order)

(* A run that has not done anything yet.                                   *)
Fresh ==
  /\ run \in 1..MaxRuns /\ stage = "start" /\ option \in Options
  /\ present \subseteq Func /\ declared \subseteq Func \ present
  /\ kind \in [Func -> Kind] /\ filter = {} /\ listing = Unlisted
  /\ sensitiveFunctions = <<>> /\ otherFunctions = {}
  /\ checkerFuncMap = [p \in Pointer |-> <<>>] /\ topologicalSortFuncs = <<>>
  /\ turn = 1 /\ slot = 1 /\ guards = <<>>
  /\ marked = {} /\ markedCount = 0 /\ protectedFuncs = [f \in Func |-> 0]
  /\ Network!Init
  /\ FileFits

(* Such a run satisfies the invariant.                                     *)
LEMMA FreshInv == Fresh => IInv
<1> SUFFICES ASSUME Fresh PROVE IInv
  OBVIOUS
<1> USE DEF Fresh
<1>1. /\ <<>> \in Seq(present) /\ <<>> \in Seq(Pointer) /\ Len(<<>>) = 0
      /\ <<>> \in Seq([host : present, checkee : InModule])
  BY EmptySeq
<1>2. listing \in [unfound : BOOLEAN, ambiguous : BOOLEAN]
  BY DEF Unlisted
<1>3. TypeOK
  BY <1>1, <1>2 DEF TypeOK, FileFits
<1>4. Roster
  BY EmptyRange, EmptyOrder DEF Roster
<1>5. Fits
  BY <1>1 DEF Fits, LeavesFirst, FileFits
<1>6. Mapped
  BY EmptyRange DEF Mapped, Pointer
<1>7. Injected /\ GuardsBottomUp
  BY <1>1 DEF Injected, GuardsBottomUp
<1> QED
  BY <1>3, <1>4, <1>5, <1>6, <1>7, NewNetwork DEF IInv, Handed, NotYet, Found, CrashOnlyOnLostName

(* The first run.                                                          *)
LEMMA InvInit == Init => IInv
<1>1. Init => Fresh
  BY BoundAssumption DEF Init, Fresh, FileFits
<1> QED
  BY <1>1, FreshInv

(* Another run begins like the first one, but for the network file.        *)
LEMMA RunAgainIsFresh == IInv /\ RunAgain => Fresh'
<1> SUFFICES ASSUME IInv, RunAgain PROVE Fresh'
  OBVIOUS
<1>1. (Network!Init)'
  BY DEF RunAgain, NewNetworkObject, Network!Init
<1>2. FileFits'
  BY DEF RunAgain, FileFits, LeavesFirst, RangeOf, IInv, TypeOK, Fits
<1>3. run' \in 1..MaxRuns
  BY BoundAssumption DEF RunAgain, IInv, TypeOK
<1>4. /\ stage' = "start" /\ option' \in Options
      /\ present' \subseteq Func /\ declared' \subseteq Func \ present'
      /\ kind' \in [Func -> Kind] /\ filter' = {} /\ listing' = (Unlisted)'
  BY DEF RunAgain, IInv, TypeOK, Unlisted
<1>5. /\ sensitiveFunctions' = <<>> /\ otherFunctions' = {}
      /\ checkerFuncMap' = [p \in Pointer |-> <<>>] /\ topologicalSortFuncs' = <<>>
      /\ turn' = 1 /\ slot' = 1 /\ guards' = <<>>
      /\ marked' = {} /\ markedCount' = 0 /\ protectedFuncs' = [f \in Func |-> 0]
  BY DEF RunAgain
<1> QED
  BY <1>1, <1>2, <1>3, <1>4, <1>5 DEF Fresh, Pointer

(* So it satisfies the invariant like the first one.                       *)
LEMMA RunAgainPreserves == IInv /\ RunAgain => IInv'
<1>1. Fresh' => IInv'
  BY FreshInv, PTL
<1> QED
  BY <1>1, RunAgainIsFresh

-----------------------------------------------------------------------------
(* The steps of a run                                                      *)

Stages == {"start", "filtered", "classified", "constructing", "built", "inject", "done",
           "exit", "crash"}

(* What a step keeps that changes the stage of the run and at most the     *)
(* network object.                                                         *)
LEMMA StageStep ==
  ASSUME IInv, stage' \in Stages \ {"start", "filtered"},
         UNCHANGED <<networkFile, inputVars, rosterVars, resultVars, injectVars>>
  PROVE  TypeOK' /\ Roster' /\ Fits' /\ Mapped' /\ Injected' /\ GuardsBottomUp'
<1> USE DEF IInv, Stages, inputVars, rosterVars, resultVars, injectVars
<1>1. TypeOK'
  BY DEF TypeOK, InModule
<1>2. Roster'
  BY DEF Roster, SensitiveOnes, Others, Analysed, IsSensitive, GoesToOthers, IsFunction,
     RangeOf, Network!Orders
<1>3. Fits'
  BY DEF Fits, LeavesFirst, RangeOf
<1>4. Mapped'
  <2>1. /\ UNCHANGED <<option, checkerFuncMap, sensitiveFunctions>>
        /\ Candidates' = Candidates /\ InModule' = InModule
    BY DEF InModule, Candidates, RangeOf
  <2> HIDE DEF IInv
  <2> QED
    BY <2>1 DEF IInv, Mapped, RangeOf
<1>5. Injected' /\ GuardsBottomUp'
  BY DEF Injected, RangeOf, GuardsBottomUp
<1> QED
  BY <1>1, <1>2, <1>3, <1>4, <1>5

(* The names of the file are found in the functions of the module.         *)
LEMMA FilterPreserves ==
  ASSUME IInv, FilterFunctions
  PROVE  IInv'
<1> USE DEF IInv, inputVars, rosterVars, resultVars, injectVars
<1>1. /\ filter' \subseteq InModule
      /\ listing' \in [unfound : BOOLEAN, ambiguous : BOOLEAN]
      /\ stage' \in {"exit", "filtered"}
  <2>1. PICK file \in Loaded :
          /\ file.searched = InModule
          /\ filter' = file.found
          /\ listing' = [unfound |-> file.unfound, ambiguous |-> file.ambiguous]
          /\ stage' = IF file.refused THEN "exit" ELSE "filtered"
    BY DEF FilterFunctions
  <2>2. PICK i \in (SUBSET Func) \X (SUBSET Word) \X [Func -> Func] :
          file = LoadFile(i[1], i[2], i[3])
    BY Zenon DEF Loaded
  <2>3. file.found \subseteq file.searched
    BY <2>2 DEF LoadFile
  <2>4. file.unfound \in BOOLEAN /\ file.ambiguous \in BOOLEAN
    BY <2>2, Zenon DEF LoadFile
  <2> QED
    BY <2>1, <2>3, <2>4
<1>2. /\ stage = "start"
      /\ UNCHANGED <<run, option, present, declared, kind, networkFile, rosterVars, resultVars,
                     injectVars, networkObject>>
  BY DEF FilterFunctions
<1>3. TypeOK'
  BY <1>1, <1>2 DEF TypeOK, InModule
<1>4. NetworkProofs!IInv'
  BY <1>2, NetworkUnchanged
<1>5. Roster'
  BY <1>1, <1>2, EmptyRange DEF Roster, Network!Orders
<1>6. Fits' /\ Injected' /\ GuardsBottomUp'
  BY <1>2 DEF Fits, LeavesFirst, Injected, RangeOf, GuardsBottomUp
<1>7. Mapped'
  BY <1>2 DEF Mapped, RangeOf, InModule, Candidates, Pointer
<1>8. NotYet' /\ Handed' /\ Found' /\ CrashOnlyOnLostName'
  BY <1>1, <1>2 DEF NotYet, Handed, Found, CrashOnlyOnLostName, Pointer
<1> QED
  BY <1>3, <1>4, <1>5, <1>6, <1>7, <1>8

(* The functions are classified while the map is empty.                    *)
LEMMA ClassifyPreserves ==
  ASSUME IInv, Classify
  PROVE  IInv'
<1> USE DEF IInv, inputVars, rosterVars, resultVars, injectVars
<1>1. /\ stage = "filtered" /\ stage' = "classified"
      /\ sensitiveFunctions' \in Permutation(SensitiveOnes) /\ otherFunctions' = Others
      /\ listing' = Unlisted
      /\ UNCHANGED <<run, option, present, declared, kind, filter, networkFile, resultVars,
                     injectVars>>
  BY DEF Classify
<1>2. /\ SensitiveOnes \subseteq present /\ Others \subseteq present
      /\ present \subseteq Func
  BY DEF SensitiveOnes, Others, Analysed, TypeOK
<1>3. /\ sensitiveFunctions' \in Seq(present) /\ sensitiveFunctions' \in Network!Orders
      /\ RangeOf(sensitiveFunctions') \subseteq SensitiveOnes
  BY <1>1, <1>2, ShuffleOrder
<1>4. SensitiveOnes' = SensitiveOnes /\ Others' = Others
  BY <1>1 DEF SensitiveOnes, Others, Analysed, IsSensitive, GoesToOthers, IsFunction
<1>5. TypeOK'
  BY <1>1, <1>2, <1>3 DEF TypeOK, InModule, Unlisted
<1>6. NetworkProofs!IInv'
  BY NetworkCalls, NetworkKept
<1>7. Roster'
  BY <1>1, <1>3, <1>4 DEF Roster, RangeOf, Network!Orders
<1>8. /\ guards = <<>> /\ UNCHANGED <<guards, networkFile, resultVars>>
      /\ Len(<<>>) = 0
  BY <1>1, EmptySeq DEF NotYet
<1>9. Fits'
  BY <1>8 DEF Fits, LeavesFirst, RangeOf
<1>10. Injected' /\ GuardsBottomUp'
  BY <1>8 DEF Injected, GuardsBottomUp
<1>11. Mapped'
  BY <1>1, EmptyRange DEF Mapped, NotYet, RangeOf, Pointer
<1>12. NotYet' /\ Handed' /\ Found' /\ CrashOnlyOnLostName'
  BY <1>1 DEF NotYet, Handed, Found, CrashOnlyOnLostName
<1> QED
  BY <1>5, <1>6, <1>7, <1>9, <1>10, <1>11, <1>12

(* The class is called with the lists of the run.                          *)
LEMMA CallPreserves ==
  ASSUME IInv, CallConstruct
  PROVE  IInv'
<1> USE DEF IInv
<1>1. /\ stage = "classified" /\ stage' = "constructing" /\ ~option.load
      /\ UNCHANGED <<networkFile, inputVars, rosterVars, resultVars, injectVars>>
      /\ sensitive' = sensitiveFunctions /\ checkers' = Candidates
  BY DEF CallConstruct, Network!ConstructProtectionNetwork
<1>2. Handed'
  BY <1>1 DEF Handed, Candidates, inputVars, rosterVars, RangeOf
<1>3. NotYet' /\ Found' /\ CrashOnlyOnLostName'
  BY <1>1 DEF NotYet, Found, CrashOnlyOnLostName, injectVars, resultVars
<1> QED
  BY <1>1, <1>2, <1>3, StageStep, NetworkCalls, NetworkKept DEF Stages

(* A step of the call changes the network object only.                     *)
LEMMA NetworkStepPreserves ==
  ASSUME IInv, NetworkStep
  PROVE  IInv'
<1> USE DEF IInv
<1>1. /\ stage = "constructing" /\ stage' = "constructing"
      /\ UNCHANGED <<networkFile, inputVars, rosterVars, resultVars, injectVars>>
      /\ Network!Construct \/ Network!GetReverseTopologicalSort \/ Network!Sort
  BY DEF NetworkStep
<1>2. UNCHANGED <<sensitive, checkers>>
  BY <1>1 DEF Network!Construct, Network!SelectCheckers, Network!EndSelection,
     Network!InvertEntry, Network!RejectLevel, Network!ReturnNetwork,
     Network!GetReverseTopologicalSort, Network!Sort, Network!SortFrom,
     Network!VisitCheckee, Network!ListFunction, Network!ReturnSort, Network!inputVars
<1>3. Handed'
  BY <1>1, <1>2 DEF Handed, Candidates, inputVars, rosterVars, RangeOf
<1>4. NotYet' /\ Found' /\ CrashOnlyOnLostName'
  BY <1>1 DEF NotYet, Found, CrashOnlyOnLostName, injectVars, resultVars
<1> QED
  BY <1>1, <1>3, <1>4, StageStep, NetworkSteps, NetworkKept DEF Stages

(* The network the class returns keeps the roles and fits its order.       *)
LEMMA ReturnsPreserves ==
  ASSUME IInv, NetworkReturns
  PROVE  IInv'
<1> USE DEF IInv
<1>1. /\ stage = "constructing" /\ phase = "done"
      /\ checkerFuncMap' = [p \in Pointer |-> IF p = NoFunc THEN <<>> ELSE checkerCheckee[p]]
      /\ topologicalSortFuncs' = list
      /\ stage' \in {"exit", "built", "crash"}
      /\ UNCHANGED <<networkFile, inputVars, rosterVars, injectVars, networkObject>>
  BY DEF NetworkReturns, AssertSensitiveOnlyChecked
<1>2. /\ ~option.load /\ sensitive = sensitiveFunctions /\ checkers = Candidates
      /\ guards = <<>> /\ marked = {} /\ turn = 1
  BY <1>1 DEF Handed, NotYet
<1>3. /\ list \in Seq(Func) /\ checkerCheckee \in [Func -> Seq(Func)]
      /\ LeavesFirst(checkerCheckee, list)
      /\ \A c \in Func : \A f \in RangeOf(checkerCheckee[c]) :
           c \in Candidates /\ f \in RangeOf(sensitiveFunctions)
  BY <1>1, <1>2, NetworkResult
<1>4. /\ \A c \in Func : c # NoFunc /\ c \in Pointer /\ checkerFuncMap'[c] = checkerCheckee[c]
      /\ checkerFuncMap'[NoFunc] = <<>> /\ NoFunc \in Pointer
  BY <1>1, FuncAssumption DEF Pointer
<1>5. /\ list \in Seq(Pointer) /\ Len(list) \in Nat
      /\ checkerFuncMap' \in [Pointer -> Seq(Pointer)]
  <2>1. Func \subseteq Pointer
    BY DEF Pointer
  <2>2. \A c \in Func : checkerCheckee[c] \in Seq(Pointer)
    BY <1>3, <2>1, SeqMonotonic
  <2>3. <<>> \in Seq(Pointer)
    BY EmptySeq
  <2> QED
    BY <1>1, <1>3, <2>1, <2>2, <2>3, SeqMonotonic, LenProperties DEF Pointer
<1>6. TypeOK'
  <2> USE <1>1, <1>2, <1>5 DEF TypeOK, inputVars, rosterVars, injectVars
  <2>1. turn' \in 1..(Len(topologicalSortFuncs') + 1)
    OBVIOUS
  <2> QED
    BY <2>1 DEF InModule
<1>7. NetworkProofs!IInv'
  BY <1>1, NetworkUnchanged
<1>8. Roster'
  BY <1>1 DEF Roster, SensitiveOnes, Others, Analysed, IsSensitive, GoesToOthers, IsFunction,
     RangeOf, Network!Orders, inputVars, rosterVars
<1>9. Fits'
  <2>1. LeavesFirst(checkerFuncMap', list)
    BY <1>3, <1>4 DEF LeavesFirst
  <2>2. LeavesFirst(checkerFuncMap', topologicalSortFuncs')
    BY <1>1, <2>1
  <2>3. networkFile' = networkFile
    BY <1>1
  <2> QED
    BY <2>2, <2>3 DEF Fits, LeavesFirst, RangeOf
<1>10. Mapped'
  <2>1. /\ UNCHANGED <<option, sensitiveFunctions>>
        /\ Candidates' = Candidates /\ InModule' = InModule
    BY <1>1 DEF inputVars, rosterVars, Candidates, InModule, RangeOf
  <2>2. RangeOf(sensitiveFunctions) \subseteq InModule
    BY RosterFacts DEF InModule
  <2>3. \A p \in Pointer : RangeOf(checkerFuncMap'[p]) \subseteq InModule
    BY <1>3, <1>4, <2>2, EmptyRange DEF Pointer
  <2>4. \A c \in Func : \A f \in RangeOf(checkerFuncMap'[c]) :
           c \in Candidates /\ f \in RangeOf(sensitiveFunctions)
    BY <1>3, <1>4
  <2> HIDE DEF IInv
  <2> QED
    BY <2>1, <2>3, <2>4 DEF Mapped, RangeOf
<1>11. Injected' /\ GuardsBottomUp'
  BY <1>1, <1>2, EmptySeq DEF Injected, GuardsBottomUp, injectVars
<1>12. NotYet' /\ Handed' /\ Found' /\ CrashOnlyOnLostName'
  BY <1>1, <1>2 DEF NotYet, Handed, Found, CrashOnlyOnLostName, inputVars, injectVars
<1> QED
  BY <1>6, <1>7, <1>8, <1>9, <1>10, <1>11, <1>12

(* A name of the file becomes a pointer of the module, or null.            *)
LEMMA LookupFacts ==
  /\ \A x \in Func : Lookup(x) \in InModule \cup {NoFunc} /\ Lookup(x) \in Pointer
  /\ \A x \in Func : Lookup(x) \in Func => Lookup(x) = x
  /\ \A x \in present : Lookup(x) = x
BY FuncAssumption DEF Lookup, InModule, Pointer

(* The order that is loaded.                                               *)
LEMMA LoadedOrderFacts ==
  ASSUME TypeOK
  PROVE  /\ LoadedOrder \in Seq(Pointer) /\ Len(LoadedOrder) \in Nat
         /\ networkFile = NoFile => LoadedOrder = <<>>
         /\ networkFile # NoFile =>
              /\ Len(LoadedOrder) = Len(networkFile.order)
              /\ \A i \in 1..Len(LoadedOrder) : /\ networkFile.order[i] \in Func
                                                /\ LoadedOrder[i] = Lookup(networkFile.order[i])
<1>1. CASE networkFile = NoFile
  BY <1>1, EmptySeq DEF LoadedOrder
<1>2. CASE networkFile # NoFile
  <2> DEFINE n == Len(networkFile.order)
  <2>1. networkFile.order \in Seq(Func) /\ n \in Nat
    BY <1>2, LenProperties DEF TypeOK
  <2>2. \A i \in 1..n : networkFile.order[i] \in Func
    BY <2>1, ElementOfSeq
  <2>3. \A i \in 1..n : Lookup(networkFile.order[i]) \in Pointer
    BY <2>2, LookupFacts
  <2>4. LoadedOrder = [i \in 1..n |-> Lookup(networkFile.order[i])]
    BY <1>2 DEF LoadedOrder
  <2> HIDE DEF n
  <2>5. LoadedOrder \in Seq(Pointer)
    BY <2>1, <2>3, <2>4
  <2>6. Len(LoadedOrder) = n
    BY <2>1, <2>4, <2>5
  <2> QED
    BY <1>2, <2>1, <2>2, <2>4, <2>5, <2>6 DEF n
<1> QED
  BY <1>1, <1>2

(* The checkees that are loaded of a name.                                 *)
LEMMA LoadedCheckeesFacts ==
  ASSUME TypeOK, networkFile # NoFile, NEW x \in Func
  PROVE  /\ networkFile.map[x] \in Seq(Func)
         /\ LoadedCheckees(x) \in Seq(Pointer)
         /\ Len(LoadedCheckees(x)) = Len(networkFile.map[x])
         /\ \A i \in 1..Len(networkFile.map[x]) :
              /\ networkFile.map[x][i] \in Func
              /\ LoadedCheckees(x)[i] = Lookup(networkFile.map[x][i])
         /\ RangeOf(LoadedCheckees(x)) \subseteq InModule \cup {NoFunc}
<1> DEFINE n == Len(networkFile.map[x])
<1>1. networkFile.map[x] \in Seq(Func) /\ n \in Nat
  BY LenProperties DEF TypeOK
<1>2. \A i \in 1..n : networkFile.map[x][i] \in Func
  BY <1>1, ElementOfSeq
<1>3. \A i \in 1..n : Lookup(networkFile.map[x][i]) \in Pointer
  BY <1>2, LookupFacts
<1>4. LoadedCheckees(x) = [i \in 1..n |-> Lookup(networkFile.map[x][i])]
  BY DEF LoadedCheckees
<1> HIDE DEF n
<1>5. LoadedCheckees(x) \in Seq(Pointer)
  BY <1>1, <1>3, <1>4
<1>6. Len(LoadedCheckees(x)) = n
  BY <1>1, <1>4, <1>5
<1>7. RangeOf(LoadedCheckees(x)) \subseteq InModule \cup {NoFunc}
  <2>1. \A i \in 1..n : LoadedCheckees(x)[i] \in InModule \cup {NoFunc}
    BY <1>2, <1>4, LookupFacts
  <2> QED
    BY <1>6, <2>1 DEF RangeOf
<1> QED
  BY <1>1, <1>2, <1>4, <1>5, <1>6, <1>7 DEF n

(* The entry that is loaded for a pointer is that of a name of the order   *)
(* which was found to be this pointer; for a function, its own.            *)
LEMMA LoadedMapFacts ==
  ASSUME TypeOK, NEW p \in Pointer
  PROVE  \/ /\ LoadedMap[p] = <<>>
            /\ \A i \in 1..Len(LoadedOrder) : LoadedOrder[i] # p
         \/ /\ networkFile # NoFile
            /\ \E i \in 1..Len(LoadedOrder) : LoadedOrder[i] = p
            /\ \E x \in Func : LoadedMap[p] = LoadedCheckees(x) /\ Lookup(x) = p
            /\ p \in Func => LoadedMap[p] = LoadedCheckees(p)
<1> DEFINE Places == {i \in 1..Len(LoadedOrder) : LoadedOrder[i] = p}
           last   == CHOOSE i \in Places : \A j \in Places : j <= i
<1>1. LoadedMap[p] = IF Places = {} THEN <<>> ELSE LoadedCheckees(networkFile.order[last])
  BY DEF LoadedMap
<1>2. CASE Places = {}
  BY <1>1, <1>2
<1>3. CASE Places # {}
  <2>1. Places \in SUBSET (1..Len(LoadedOrder)) /\ Len(LoadedOrder) \in Nat
    BY LoadedOrderFacts
  <2>2. \E i \in Places : \A j \in Places : j <= i
    BY <1>3, <2>1, LastPlace
  <2>3. last \in Places
    BY <2>2
  <2>4. networkFile # NoFile
    BY <1>3, LoadedOrderFacts, EmptySeq
  <2> HIDE DEF last
  <2>5. networkFile.order[last] \in Func /\ Lookup(networkFile.order[last]) = p
    BY <2>3, <2>4, LoadedOrderFacts
  <2> QED
    BY <1>1, <1>3, <2>1, <2>3, <2>4, <2>5, LookupFacts
<1> QED
  BY <1>2, <1>3

(* What is loaded fits as what was dumped did, and nothing the module      *)
(* still has is lost.                                                      *)
LEMMA LoadPreserves ==
  ASSUME IInv, LoadJson
  PROVE  IInv'
<1> USE DEF IInv
<1>1. /\ stage = "classified" /\ option.load /\ stage' \in {"exit", "built"}
      /\ topologicalSortFuncs' = LoadedOrder /\ checkerFuncMap' = LoadedMap
      /\ UNCHANGED <<networkFile, inputVars, rosterVars, injectVars, networkObject>>
  BY DEF LoadJson
<1>2. guards = <<>> /\ marked = {} /\ turn = 1 /\ Len(<<>>) = 0
  BY <1>1, EmptySeq DEF NotYet
<1>3. \A p \in Pointer : /\ LoadedMap[p] \in Seq(Pointer)
                         /\ RangeOf(LoadedMap[p]) \subseteq InModule \cup {NoFunc}
  <2> SUFFICES ASSUME NEW p \in Pointer
               PROVE  /\ LoadedMap[p] \in Seq(Pointer)
                      /\ RangeOf(LoadedMap[p]) \subseteq InModule \cup {NoFunc}
    OBVIOUS
  <2>1. CASE LoadedMap[p] = <<>>
    BY <2>1, EmptySeq, EmptyRange
  <2>2. CASE networkFile # NoFile /\ \E x \in Func : LoadedMap[p] = LoadedCheckees(x)
    BY <2>2, LoadedCheckeesFacts
  <2> QED
    BY <2>1, <2>2, LoadedMapFacts
<1>4. TypeOK'
  <2>1. checkerFuncMap' \in [Pointer -> Seq(Pointer)]
    BY <1>1, <1>3 DEF LoadedMap
  <2>2. topologicalSortFuncs' \in Seq(Pointer) /\ Len(topologicalSortFuncs') \in Nat
    BY <1>1, LoadedOrderFacts
  <2>3. turn' \in 1..(Len(topologicalSortFuncs') + 1)
    BY <1>1, <1>2, <2>2 DEF injectVars
  <2> QED
    BY <1>1, <1>2, <2>1, <2>2, <2>3 DEF TypeOK, inputVars, rosterVars, injectVars, InModule
<1>5. NetworkProofs!IInv'
  BY <1>1, NetworkUnchanged
<1>6. Roster'
  BY <1>1 DEF Roster, SensitiveOnes, Others, Analysed, IsSensitive, GoesToOthers, IsFunction,
     RangeOf, Network!Orders, inputVars, rosterVars
<1>7. Fits'
  <2>1. LeavesFirst(LoadedMap, LoadedOrder)
    <3> SUFFICES ASSUME NEW i \in 1..Len(LoadedOrder), NEW k \in 1..Len(LoadedOrder),
                        LoadedOrder[i] \in Func, LoadedOrder[k] \in Func,
                        LoadedOrder[k] \in RangeOf(LoadedMap[LoadedOrder[i]])
                 PROVE  k < i
      BY DEF LeavesFirst
    <3>1. networkFile # NoFile
      BY LoadedOrderFacts, EmptySeq
    <3> DEFINE c == LoadedOrder[i]
               f == LoadedOrder[k]
    <3>2. /\ i \in 1..Len(networkFile.order) /\ k \in 1..Len(networkFile.order)
          /\ networkFile.order[i] = c /\ networkFile.order[k] = f
      BY <3>1, LoadedOrderFacts, LookupFacts
    <3>3. c \in Func /\ f \in Func /\ c \in Pointer /\ LoadedMap[c] = LoadedCheckees(c)
      BY LoadedMapFacts DEF Pointer
    <3>4. f \in RangeOf(LoadedCheckees(c))
      BY <3>3
    <3> HIDE DEF c, f
    <3>5. PICK m \in 1..Len(LoadedCheckees(c)) : LoadedCheckees(c)[m] = f
      BY <3>4 DEF RangeOf
    <3>6. m \in 1..Len(networkFile.map[c]) /\ networkFile.map[c][m] = f
      BY <3>1, <3>3, <3>5, LoadedCheckeesFacts, LookupFacts
    <3>7. f \in RangeOf(networkFile.map[c])
      BY <3>6 DEF RangeOf
    <3>8. LeavesFirst(networkFile.map, networkFile.order)
      BY <3>1 DEF Fits
    <3> QED
      BY <3>2, <3>3, <3>7, <3>8 DEF LeavesFirst
  <2>2. LeavesFirst(checkerFuncMap', topologicalSortFuncs')
    BY <1>1, <2>1
  <2>3. networkFile' = networkFile
    BY <1>1
  <2> QED
    BY <2>2, <2>3 DEF Fits, LeavesFirst, RangeOf
<1>8. Mapped'
  <2>1. option' = option /\ InModule' = InModule
    BY <1>1 DEF inputVars, InModule
  <2>2. \A p \in Pointer : RangeOf(checkerFuncMap'[p]) \subseteq InModule \cup {NoFunc}
    BY <1>1, <1>3
  <2> QED
    BY <1>1, <2>1, <2>2 DEF Mapped, RangeOf
<1>9. Injected' /\ GuardsBottomUp'
  BY <1>1, <1>2 DEF Injected, GuardsBottomUp, injectVars
<1>10. Found'
  <2> SUFFICES ASSUME FileNames \subseteq present
               PROVE  /\ RangeOf(LoadedOrder) \subseteq present
                      /\ \A c \in Func : NoFunc \notin RangeOf(LoadedMap[c])
    BY <1>1 DEF Found, FileNames, RangeOf, inputVars
  <2>1. RangeOf(LoadedOrder) \subseteq present
    <3> SUFFICES ASSUME NEW i \in 1..Len(LoadedOrder) PROVE LoadedOrder[i] \in present
      BY DEF RangeOf
    <3>1. networkFile # NoFile
      BY LoadedOrderFacts, EmptySeq
    <3>2. networkFile.order[i] \in present
      BY <3>1, LoadedOrderFacts DEF FileNames, RangeOf
    <3> QED
      BY <3>1, <3>2, LoadedOrderFacts, LookupFacts
  <2>2. ASSUME NEW c \in Func, NoFunc \in RangeOf(LoadedMap[c])
        PROVE  FALSE
    <3>1. networkFile # NoFile /\ LoadedMap[c] = LoadedCheckees(c)
      BY <2>2, EmptyRange, LoadedMapFacts DEF Pointer
    <3>2. PICK m \in 1..Len(networkFile.map[c]) : Lookup(networkFile.map[c][m]) = NoFunc
      BY <2>2, <3>1, LoadedCheckeesFacts DEF RangeOf
    <3>3. networkFile.map[c][m] \in present
      BY <3>1, <3>2 DEF FileNames, RangeOf
    <3>4. present \subseteq Func
      BY DEF TypeOK
    <3> HIDE DEF IInv
    <3> QED
      BY <3>2, <3>3, <3>4, LookupFacts, FuncAssumption
  <2> QED
    BY <2>1, <2>2
<1>11. NotYet' /\ Handed' /\ CrashOnlyOnLostName'
  BY <1>1, <1>2 DEF NotYet, Handed, CrashOnlyOnLostName, inputVars, injectVars
<1> QED
  BY <1>4, <1>5, <1>6, <1>7, <1>8, <1>9, <1>10, <1>11

(* What is dumped has names only, and is a file.                           *)
LEMMA DumpedTypes ==
  ASSUME TypeOK, ~DumpCrashes
  PROVE  /\ topologicalSortFuncs \in Seq(Func)
         /\ \A c \in Func : checkerFuncMap[c] \in Seq(Func)
         /\ [map |-> [c \in Func |-> checkerFuncMap[c]], order |-> topologicalSortFuncs] # NoFile
<1>1. topologicalSortFuncs \in Seq(Func)
  <2>1. \A i \in 1..Len(topologicalSortFuncs) : topologicalSortFuncs[i] \in Func
    BY ElementOfSeq DEF DumpCrashes, RangeOf, TypeOK, Pointer
  <2> QED
    BY <2>1, OverSmallerSet DEF TypeOK
<1>2. ASSUME NEW c \in Func
      PROVE  checkerFuncMap[c] \in Seq(Func)
  <2>1. checkerFuncMap[c] \in Seq(Pointer)
    BY DEF TypeOK, Pointer
  <2>2. \A i \in 1..Len(checkerFuncMap[c]) : checkerFuncMap[c][i] \in Func
    BY <2>1, ElementOfSeq DEF DumpCrashes, RangeOf, Pointer
  <2> QED
    BY <2>1, <2>2, OverSmallerSet
<1> QED
  BY <1>1, <1>2, FileAssumption

(* The names of what has been found are those of its functions: dumping    *)
(* them does not make a name unknown, and does not meet null either.       *)
LEMMA DumpPreserves ==
  ASSUME IInv, DumpJson
  PROVE  IInv'
<1> USE DEF IInv
<1>1. /\ stage = "built" /\ stage' \in {"inject", "crash"}
      /\ UNCHANGED <<inputVars, rosterVars, resultVars, injectVars, networkObject>>
  BY DEF DumpJson
<1>2. guards = <<>> /\ marked = {} /\ turn = 1 /\ Len(<<>>) = 0
  BY <1>1, EmptySeq DEF NotYet
<1>3. NetworkProofs!IInv' /\ Handed' /\ NotYet'
  BY <1>1, <1>2, NetworkUnchanged DEF Handed, NotYet, injectVars
<1>4. CASE networkFile' = networkFile
  <2>1. TypeOK' /\ Roster' /\ Fits' /\ Mapped' /\ Injected' /\ GuardsBottomUp'
    BY <1>1, <1>4, StageStep DEF Stages
  <2>2. FileNames' = FileNames /\ UNCHANGED <<option, present, topologicalSortFuncs, checkerFuncMap>>
    BY <1>1, <1>4 DEF FileNames, RangeOf, inputVars, resultVars
  <2>3. Found'
    BY <1>1, <2>2 DEF Found, RangeOf
  <2>4. CrashOnlyOnLostName'
    <3> SUFFICES ASSUME stage' = "crash", option.load, FileNames \subseteq present
                 PROVE  FALSE
      BY <2>2 DEF CrashOnlyOnLostName
    <3>1. DumpCrashes
      BY <1>1 DEF DumpJson
    <3>2. /\ RangeOf(topologicalSortFuncs) \subseteq Func
          /\ \A c \in Func : NoFunc \notin RangeOf(checkerFuncMap[c])
      BY <1>1 DEF Found, TypeOK
    <3> QED
      BY <3>1, <3>2, FuncAssumption DEF DumpCrashes
  <2> QED
    BY <1>3, <2>1, <2>3, <2>4
<1>5. CASE networkFile' # networkFile
  <2>1. /\ ~DumpCrashes /\ stage' = "inject"
        /\ networkFile' = [map |-> [c \in Func |-> checkerFuncMap[c]],
                           order |-> topologicalSortFuncs]
    BY <1>5 DEF DumpJson
  <2>2. topologicalSortFuncs \in Seq(Func)
    BY <2>1, DumpedTypes
  <2>3. \A c \in Func : checkerFuncMap[c] \in Seq(Func)
    BY <2>1, DumpedTypes
  <2>4. /\ networkFile'.map \in [Func -> Seq(Func)] /\ networkFile'.order \in Seq(Func)
        /\ \A c \in Func : networkFile'.map[c] = checkerFuncMap[c]
        /\ networkFile'.order = topologicalSortFuncs
    BY <2>1, <2>2, <2>3
  <2>5. TypeOK'
    BY <1>1, <2>1, <2>4 DEF TypeOK, inputVars, rosterVars, resultVars, injectVars, InModule
  <2>6. Roster'
    BY <1>1 DEF Roster, SensitiveOnes, Others, Analysed, IsSensitive, GoesToOthers, IsFunction,
       RangeOf, Network!Orders, inputVars, rosterVars
  <2>7. Fits'
    <3>1. LeavesFirst(checkerFuncMap, topologicalSortFuncs)
      BY DEF Fits
    <3>2. LeavesFirst(checkerFuncMap', topologicalSortFuncs')
      BY <1>1, <3>1 DEF resultVars
    <3>3. LeavesFirst(networkFile'.map, networkFile'.order)
      BY <2>4, <3>1 DEF LeavesFirst
    <3> QED
      BY <3>2, <3>3 DEF Fits, LeavesFirst, RangeOf
  <2>8. Mapped'
    <3>1. /\ UNCHANGED <<option, checkerFuncMap, sensitiveFunctions>>
          /\ Candidates' = Candidates /\ InModule' = InModule
      BY <1>1 DEF inputVars, rosterVars, resultVars, Candidates, InModule, RangeOf
    <3> HIDE DEF IInv
    <3> QED
      BY <3>1 DEF IInv, Mapped, RangeOf
  <2>9. Injected' /\ GuardsBottomUp'
    BY <1>1, <1>2 DEF Injected, GuardsBottomUp, injectVars
  <2>10. Found'
    <3> SUFFICES ASSUME FileNames' \subseteq present
                 PROVE  /\ RangeOf(topologicalSortFuncs) \subseteq present
                        /\ \A c \in Func : NoFunc \notin RangeOf(checkerFuncMap[c])
      BY <1>1 DEF Found, RangeOf, inputVars, resultVars
    <3>1. networkFile' # NoFile
      BY <2>1, DumpedTypes
    <3>2. RangeOf(networkFile'.order) \subseteq FileNames'
      BY <3>1 DEF FileNames, RangeOf
    <3>3. \A c \in Func : NoFunc \notin RangeOf(checkerFuncMap[c])
      BY <2>1 DEF DumpCrashes
    <3> QED
      BY <2>4, <3>2, <3>3
  <2>11. CrashOnlyOnLostName'
    BY <2>1 DEF CrashOnlyOnLostName
  <2> QED
    BY <1>3, <2>5, <2>6, <2>7, <2>8, <2>9, <2>10, <2>11
<1> QED
  BY <1>4, <1>5

(* A guard is injected into the host whose turn it is.  Its checkee is no  *)
(* host that is still to come or of this turn, since the order fits.       *)
LEMMA InjectPreserves ==
  ASSUME IInv, InjectGuard
  PROVE  IInv'
<1> USE DEF IInv
<1> DEFINE checkee == checkerFuncMap[Host][slot]
           n == Len(guards) + 1
<1>1. /\ stage = "inject" /\ turn <= Len(topologicalSortFuncs)
      /\ slot <= Len(checkerFuncMap[Host])
      /\ Host \in present /\ checkee # NoFunc
      /\ guards' = Append(guards, [host |-> Host, checkee |-> checkee])
      /\ marked' = marked \cup {checkee}
      /\ markedCount' = markedCount + 1 /\ slot' = slot + 1
      /\ UNCHANGED <<stage, turn, networkFile, inputVars, rosterVars, resultVars, networkObject>>
  BY DEF InjectGuard, GuardsWith
<1>2. /\ Len(topologicalSortFuncs) \in Nat /\ turn \in 1..Len(topologicalSortFuncs)
      /\ Host \in Func /\ Host \in Pointer /\ present \subseteq Func
      /\ slot \in 1..Len(checkerFuncMap[Host])
  <2>1. topologicalSortFuncs \in Seq(Pointer) /\ turn \in 1..(Len(topologicalSortFuncs) + 1)
    BY DEF TypeOK
  <2>2. Host \in Func /\ Host \in Pointer /\ present \subseteq Func
    BY <1>1 DEF TypeOK, Pointer
  <2>3. checkerFuncMap[Host] \in Seq(Pointer) /\ slot \in Nat \ {0}
    BY <2>2 DEF TypeOK
  <2>4. Len(topologicalSortFuncs) \in Nat /\ Len(checkerFuncMap[Host]) \in Nat
    BY <2>1, <2>3, LenProperties
  <2> HIDE DEF Host
  <2> QED
    BY <1>1, <2>1, <2>2, <2>3, <2>4
<1>3. checkee \in RangeOf(checkerFuncMap[Host])
  BY <1>2 DEF RangeOf
<1>4. checkee \in InModule /\ checkee \in Func
  <2>1. RangeOf(checkerFuncMap[Host]) \subseteq InModule \cup {NoFunc}
    BY <1>2 DEF Mapped
  <2>2. InModule \subseteq Func
    BY DEF InModule, TypeOK
  <2> QED
    BY <1>1, <1>3, <2>1, <2>2
<1>5. protectedFuncs' \in [Func -> Nat]
  <2>1. protectedFuncs \in [Func -> Nat]
    BY DEF TypeOK
  <2>2. protectedFuncs' = IF checkee \in RangeOf(sensitiveFunctions)
                          THEN [protectedFuncs EXCEPT ![checkee] = @ + 1]
                          ELSE protectedFuncs
    BY DEF InjectGuard
  <2> HIDE DEF checkee, IInv
  <2> QED
    BY <1>4, <2>1, <2>2
<1> HIDE DEF checkee
<1>6. /\ guards \in Seq([host : present, checkee : InModule])
      /\ [host |-> Host, checkee |-> checkee] \in [host : present, checkee : InModule]
  BY <1>1, <1>4 DEF TypeOK
<1>7. /\ guards' \in Seq([host : present, checkee : InModule])
      /\ Len(guards) \in Nat /\ Len(guards') = n
      /\ \A i \in 1..Len(guards) : guards'[i] = guards[i]
      /\ guards'[n].host = Host /\ guards'[n].checkee = checkee
  BY <1>1, <1>6, AppendFacts
<1>8. TypeOK'
  <2>1. /\ UNCHANGED <<run, stage, option, present, declared, filter, kind, listing, networkFile,
                       sensitiveFunctions, otherFunctions, checkerFuncMap,
                       topologicalSortFuncs, turn>>
        /\ InModule' = InModule
    BY <1>1 DEF inputVars, rosterVars, resultVars, InModule
  <2>2. marked' \subseteq InModule /\ markedCount' \in Nat /\ slot' \in Nat \ {0}
    <3>1. marked \subseteq InModule /\ markedCount \in Nat /\ slot \in Nat \ {0}
      BY DEF TypeOK
    <3> HIDE DEF IInv
    <3> QED
      BY <1>1, <1>4, <3>1
  <2>3. guards' \in Seq([host : present', checkee : InModule'])
    BY <1>7, <2>1
  <2> QED
    BY <1>5, <2>1, <2>2, <2>3 DEF TypeOK
<1>9. NetworkProofs!IInv' /\ Handed' /\ NotYet'
  BY <1>1, NetworkUnchanged DEF Handed, NotYet
<1>10. Roster'
  BY <1>1 DEF Roster, SensitiveOnes, Others, Analysed, IsSensitive, GoesToOthers, IsFunction,
     RangeOf, Network!Orders, inputVars, rosterVars
<1>11. UNCHANGED <<option, present, networkFile, topologicalSortFuncs, checkerFuncMap, turn,
                   sensitiveFunctions>>
  BY <1>1 DEF inputVars, resultVars, rosterVars
<1>12. Fits'
  BY <1>11 DEF Fits, LeavesFirst, RangeOf
<1>13. Mapped'
  <2>1. Candidates' = Candidates /\ InModule' = InModule
    BY <1>1 DEF inputVars, rosterVars, Candidates, InModule, RangeOf
  <2> HIDE DEF IInv
  <2> QED
    BY <1>11, <2>1 DEF IInv, Mapped, RangeOf
<1>14. \A i \in 1..n : i # n => i \in 1..Len(guards)
  BY <1>7
<1>15. ASSUME NEW i \in 1..n
       PROVE  /\ \E k \in 1..Len(topologicalSortFuncs) :
                   k <= turn /\ topologicalSortFuncs[k] = guards'[i].host
              /\ guards'[i].checkee \in RangeOf(checkerFuncMap[guards'[i].host])
              /\ guards'[i].host \in Func
  <2>1. CASE i = n
    BY <1>2, <1>3, <1>7, <2>1 DEF Host
  <2>2. CASE i # n
    <3>1. i \in 1..Len(guards) /\ guards'[i] = guards[i]
      BY <1>7, <1>14, <2>2
    <3>2. guards[i] \in [host : present, checkee : InModule]
      BY <1>6, <3>1, ElementOfSeq
    <3> QED
      BY <1>2, <3>1, <3>2 DEF Injected
  <2> QED
    BY <2>1, <2>2
<1>16. Injected'
  <2> HIDE DEF IInv
  <2>1. \A i \in 1..Len(guards') :
          /\ \E k \in 1..Len(topologicalSortFuncs') :
               k <= turn' /\ topologicalSortFuncs'[k] = guards'[i].host
          /\ guards'[i].checkee \in RangeOf(checkerFuncMap'[guards'[i].host])
    BY <1>7, <1>11, <1>15
  <2> QED
    BY <2>1 DEF Injected, RangeOf
<1>17. GuardsBottomUp'
  <2> SUFFICES ASSUME NEW i \in 1..n, NEW j \in 1..n, guards'[i].checkee = guards'[j].host
               PROVE  j < i
    BY <1>7 DEF GuardsBottomUp
  <2>1. CASE j # n
    <3>1. j \in 1..Len(guards) /\ guards'[j] = guards[j]
      BY <1>7, <1>14, <2>1
    <3>2. CASE i = n
      BY <1>7, <3>1, <3>2
    <3>3. CASE i # n
      BY <1>7, <1>14, <3>1, <3>3 DEF GuardsBottomUp
    <3> QED
      BY <3>2, <3>3
  <2>2. CASE j = n
    <3>1. PICK k \in 1..Len(topologicalSortFuncs) :
            k <= turn /\ topologicalSortFuncs[k] = guards'[i].host
      BY <1>15
    <3>2. Host \in RangeOf(checkerFuncMap[topologicalSortFuncs[k]]) /\ topologicalSortFuncs[k] \in Func
      BY <1>7, <1>15, <2>2, <3>1
    <3>3. turn < k
      BY <1>2, <3>2 DEF Fits, LeavesFirst, Host
    <3> QED
      BY <1>2, <3>1, <3>3
  <2> QED
    BY <2>1, <2>2
<1>18. Found' /\ CrashOnlyOnLostName'
  BY <1>1, <1>11 DEF Found, FileNames, RangeOf, CrashOnlyOnLostName
<1> QED
  BY <1>8, <1>9, <1>10, <1>12, <1>13, <1>16, <1>17, <1>18

(* Null is met, or a host without a body, when a name has been lost.       *)
LEMMA DereferencePreserves ==
  ASSUME IInv, DereferenceNull
  PROVE  IInv'
<1> USE DEF IInv
<1>1. /\ stage = "inject" /\ stage' = "crash" /\ turn <= Len(topologicalSortFuncs)
      /\ Host \in present => /\ slot <= Len(checkerFuncMap[Host])
                             /\ checkerFuncMap[Host][slot] = NoFunc
      /\ UNCHANGED <<networkFile, inputVars, rosterVars, resultVars, injectVars, networkObject>>
  BY DEF DereferenceNull
<1>2. CrashOnlyOnLostName'
  <2> SUFFICES ASSUME option.load, FileNames \subseteq present
               PROVE  FALSE
    BY <1>1 DEF CrashOnlyOnLostName, FileNames, RangeOf, inputVars
  <2>1. /\ RangeOf(topologicalSortFuncs) \subseteq present
        /\ \A c \in Func : NoFunc \notin RangeOf(checkerFuncMap[c])
    BY <1>1 DEF Found
  <2>2. topologicalSortFuncs \in Seq(Pointer) /\ turn \in 1..(Len(topologicalSortFuncs) + 1)
    BY DEF TypeOK
  <2>3. Len(topologicalSortFuncs) \in Nat
    BY <2>2, LenProperties
  <2>4. turn \in 1..Len(topologicalSortFuncs)
    BY <1>1, <2>2, <2>3
  <2>5. Host \in present /\ Host \in Func
    BY <2>1, <2>4 DEF Host, RangeOf, TypeOK
  <2>6. checkerFuncMap[Host] \in Seq(Pointer) /\ slot \in Nat \ {0}
    BY <2>5 DEF TypeOK, Pointer
  <2>7. Len(checkerFuncMap[Host]) \in Nat
    BY <2>6, LenProperties
  <2> HIDE DEF IInv, Host
  <2>8. slot \in 1..Len(checkerFuncMap[Host]) /\ checkerFuncMap[Host][slot] = NoFunc
    BY <1>1, <2>5, <2>6, <2>7
  <2> QED
    BY <2>1, <2>5, <2>8 DEF RangeOf
<1>3. NetworkProofs!IInv' /\ NotYet' /\ Handed' /\ Found'
  BY <1>1, NetworkUnchanged DEF NotYet, Handed, Found
<1> QED
  BY <1>1, <1>2, <1>3, StageStep DEF Stages

(* The next host has its turn.                                             *)
LEMMA NextHostPreserves ==
  ASSUME IInv, NextHost
  PROVE  IInv'
<1> USE DEF IInv
<1>1. /\ stage = "inject" /\ turn <= Len(topologicalSortFuncs)
      /\ turn' = turn + 1 /\ slot' = 1
      /\ UNCHANGED <<stage, guards, marked, markedCount, protectedFuncs, networkFile,
                     inputVars, rosterVars, resultVars, networkObject>>
  BY DEF NextHost
<1>2. turn \in Nat /\ turn' \in 1..(Len(topologicalSortFuncs) + 1)
  <2>1. topologicalSortFuncs \in Seq(Pointer) /\ turn \in 1..(Len(topologicalSortFuncs) + 1)
    BY DEF TypeOK
  <2>2. Len(topologicalSortFuncs) \in Nat
    BY <2>1, LenProperties
  <2> QED
    BY <1>1, <2>1, <2>2
<1>3. TypeOK'
  BY <1>1, <1>2 DEF TypeOK, inputVars, rosterVars, resultVars, InModule
<1>4. NetworkProofs!IInv' /\ NotYet' /\ Handed'
  BY <1>1, NetworkUnchanged DEF NotYet, Handed
<1>5. Roster'
  BY <1>1 DEF Roster, SensitiveOnes, Others, Analysed, IsSensitive, GoesToOthers, IsFunction,
     RangeOf, Network!Orders, inputVars, rosterVars
<1>6. UNCHANGED <<option, present, networkFile, topologicalSortFuncs, checkerFuncMap,
                  sensitiveFunctions, guards>>
  BY <1>1 DEF inputVars, resultVars, rosterVars
<1>7. Fits' /\ GuardsBottomUp'
  BY <1>6 DEF Fits, LeavesFirst, RangeOf, GuardsBottomUp
<1>8. Mapped'
  <2>1. Candidates' = Candidates /\ InModule' = InModule
    BY <1>1 DEF inputVars, rosterVars, Candidates, InModule, RangeOf
  <2> HIDE DEF IInv
  <2> QED
    BY <1>6, <2>1 DEF IInv, Mapped, RangeOf
<1>9. Injected'
  <2>1. \A k \in 1..Len(topologicalSortFuncs) : k <= turn => k <= turn'
    BY <1>1, <1>2
  <2> QED
    BY <1>6, <2>1 DEF Injected, RangeOf
<1>10. Found' /\ CrashOnlyOnLostName'
  BY <1>1, <1>6 DEF Found, FileNames, RangeOf, CrashOnlyOnLostName
<1> QED
  BY <1>3, <1>4, <1>5, <1>7, <1>8, <1>9, <1>10

(* The pass returns.                                                       *)
LEMMA ReturnPreserves ==
  ASSUME IInv, Return
  PROVE  IInv'
<1> USE DEF IInv
<1>1. /\ stage = "inject" /\ stage' = "done"
      /\ UNCHANGED <<networkFile, inputVars, rosterVars, resultVars, injectVars, networkObject>>
  BY DEF Return
<1>2. NetworkProofs!IInv' /\ NotYet' /\ Handed' /\ Found' /\ CrashOnlyOnLostName'
  BY <1>1, NetworkUnchanged DEF NotYet, Handed, Found, CrashOnlyOnLostName
<1> QED
  BY <1>1, <1>2, StageStep DEF Stages

(* A step in which nothing happens.                                        *)
LEMMA StutterPreserves ==
  ASSUME IInv, UNCHANGED vars
  PROVE  IInv'
<1> USE DEF IInv
<1>1. UNCHANGED <<stage, networkFile, inputVars, rosterVars, resultVars, injectVars, networkObject>>
  BY DEF vars
<1>2. NetworkProofs!IInv' /\ Handed'
  BY <1>1, NetworkUnchanged DEF Handed, networkObject, Candidates, inputVars, rosterVars, RangeOf
<1>3. TypeOK'
  BY <1>1 DEF TypeOK, InModule, inputVars, rosterVars, resultVars, injectVars
<1>4. Roster'
  BY <1>1 DEF Roster, SensitiveOnes, Others, Analysed, IsSensitive, GoesToOthers, IsFunction,
     RangeOf, Network!Orders, inputVars, rosterVars
<1>5. UNCHANGED <<option, present, networkFile, topologicalSortFuncs, checkerFuncMap,
                  sensitiveFunctions, guards, marked, turn>>
  BY <1>1 DEF inputVars, resultVars, rosterVars, injectVars
<1>6. Fits' /\ GuardsBottomUp'
  BY <1>5 DEF Fits, LeavesFirst, RangeOf, GuardsBottomUp
<1>7. Mapped'
  <2>1. Candidates' = Candidates /\ InModule' = InModule
    BY <1>1 DEF inputVars, rosterVars, Candidates, InModule, RangeOf
  <2> HIDE DEF IInv
  <2> QED
    BY <1>5, <2>1 DEF IInv, Mapped, RangeOf
<1>8. Injected'
  BY <1>5 DEF Injected, RangeOf
<1>9. Found' /\ CrashOnlyOnLostName' /\ NotYet'
  BY <1>1, <1>5 DEF Found, FileNames, RangeOf, CrashOnlyOnLostName, NotYet
<1> QED
  BY <1>2, <1>3, <1>4, <1>6, <1>7, <1>8, <1>9

(* Each step keeps the invariant.                                          *)
LEMMA InvNext == IInv /\ [Next]_vars => IInv'
BY FilterPreserves, ClassifyPreserves, CallPreserves, NetworkStepPreserves, ReturnsPreserves,
   LoadPreserves, DumpPreserves, InjectPreserves, DereferencePreserves, NextHostPreserves,
   ReturnPreserves, RunAgainPreserves, StutterPreserves DEF Next, Pass

-----------------------------------------------------------------------------
(* The theorems                                                            *)

(* The inductive invariant holds throughout.                               *)
THEOREM PassInvariance == Spec => []IInv
BY InvInit, InvNext, PTL DEF Spec

(* Every variable keeps its type, for any functions and over any number of *)
(* runs: in particular a guard is only injected into a function that has a *)
(* body, and only on a function of the module.                             *)
THEOREM PassTypeCorrect == Spec => []TypeOK
<1>1. IInv => TypeOK
  BY DEF IInv
<1> QED
  BY <1>1, PassInvariance, PTL

(* Guards are injected from the leaves up, from a network of any size and  *)
(* also from one that was dumped by an earlier run on another module.      *)
THEOREM InjectedBottomUp == Spec => []GuardsBottomUp
<1>1. IInv => GuardsBottomUp
  BY DEF IInv
<1> QED
  BY <1>1, PassInvariance, PTL

(* A run that is refused has not injected anything.                        *)
THEOREM RefusalInjectsNothing == Spec => []RefusedBeforeGuards
<1>1. IInv => RefusedBeforeGuards
  BY DEF IInv, NotYet, RefusedBeforeGuards
<1> QED
  BY <1>1, PassInvariance, PTL

(* A loaded network brings the pass down only if a name was lost.          *)
THEOREM LoadingIsSafe == Spec => []CrashOnlyOnLostName
<1>1. IInv => CrashOnlyOnLostName
  BY DEF IInv
<1> QED
  BY <1>1, PassInvariance, PTL

(* The options hold of every guard of a constructed network.               *)
THEOREM OptionsKept == Spec => []OptionsHonoured
<1>1. IInv => OptionsHonoured
  <2> SUFFICES ASSUME IInv, ~option.load
               PROVE  OptionsHonoured
    BY DEF OptionsHonoured
  <2>1. /\ \A f \in Checkees : f \in SensitiveOnes
        /\ \A c \in Hosts : c \in Candidates
    <3> SUFFICES ASSUME NEW n \in 1..Len(guards)
                 PROVE  guards[n].checkee \in SensitiveOnes /\ guards[n].host \in Candidates
      BY DEF Checkees, Hosts
    <3>1. guards[n].host \in Func
      <4>1. guards \in Seq([host : present, checkee : InModule]) /\ present \subseteq Func
        BY DEF IInv, TypeOK
      <4>2. guards[n] \in [host : present, checkee : InModule]
        BY <4>1, ElementOfSeq
      <4> QED
        BY <4>1, <4>2
    <3>2. guards[n].checkee \in RangeOf(checkerFuncMap[guards[n].host])
      BY DEF IInv, Injected
    <3> QED
      BY <3>1, <3>2 DEF IInv, Mapped, Roster
  <2>2. /\ Sensitive \subseteq SensitiveOnes /\ otherFunctions \subseteq Others
        /\ Others \cap SensitiveOnes = {}
    BY DEF IInv, Roster, Sensitive, SensitiveOnes, Others
  <2>3. \A f \in SensitiveOnes : /\ option.extractedOnly => kind[f] = "extracted"
                                 /\ filter # {} => f \in filter
    BY DEF SensitiveOnes, IsSensitive, IsFunction
  <2>4. \A c \in Others : /\ option.extractedOnly => kind[c] # "extracted"
                          /\ option.useOtherFunctions \/ option.extractedOnly
    BY DEF Others, GoesToOthers, IsSensitive
  <2>5. Candidates = IF ~option.sensitiveOnlyChecked /\ ~option.extractedOnly
                     THEN otherFunctions \cup Sensitive ELSE otherFunctions
    BY DEF Candidates, Sensitive
  <2> QED
    BY <2>1, <2>2, <2>3, <2>4, <2>5 DEF OptionsHonoured
<1> QED
  BY <1>1, PassInvariance, PTL

-----------------------------------------------------------------------------
(* The filter file                                                         *)

(* A file has finitely many words.                                         *)
LEMMA WordsFinite ==
  ASSUME NEW words \in SUBSET Word
  PROVE  IsFiniteSet(words) /\ Cardinality(words) \in Nat
<1>1. IsFiniteSet({"mangled", "demangled"})
  <2>1. IsFiniteSet({}) /\ IsFiniteSet({} \cup {"mangled"})
    BY FS_EmptySet, FS_AddElement
  <2>2. IsFiniteSet(({} \cup {"mangled"}) \cup {"demangled"})
    BY <2>1, FS_AddElement
  <2>3. ({} \cup {"mangled"}) \cup {"demangled"} = {"mangled", "demangled"}
    OBVIOUS
  <2> QED
    BY <2>2, <2>3
<1>2. IsFiniteSet(Word)
  BY <1>1, FuncAssumption, FS_Product DEF Word
<1> QED
  BY <1>2, FS_Subset, FS_CardinalityType

(* Where each word names one function at most and one names none, fewer    *)
(* functions are found than there are words.                               *)
LEMMA UnfoundIsRefused ==
  ASSUME NEW P \in SUBSET Func, NEW words \in SUBSET Word, NEW demangled \in [Func -> Func],
         NEW lost \in words, \A f \in P : ~Named(f, lost, demangled),
         \A w \in words : \A f, g \in P :
           Named(f, w, demangled) /\ Named(g, w, demangled) => f = g
  PROVE  Refuses({f \in P : \E w \in words : Named(f, w, demangled)}, words)
<1> DEFINE found == {f \in P : \E w \in words : Named(f, w, demangled)}
           name == [f \in found |-> CHOOSE w \in words : Named(f, w, demangled)]
           others == words \ {lost}
<1>1. \A f \in found : name[f] \in words /\ Named(f, name[f], demangled)
  OBVIOUS
<1>2. \A f \in found : f \in P
  OBVIOUS
<1>3. name \in [found -> others]
  BY <1>1, <1>2
<1> HIDE DEF name, found
<1>4. \A f, g \in found : name[f] = name[g] => f = g
  BY <1>1, <1>2
<1>5. name \in Injection(found, others)
  BY <1>3, <1>4 DEF Injection, IsInjective
<1>6. /\ IsFiniteSet(words) /\ Cardinality(words) \in Nat
      /\ IsFiniteSet(others) /\ Cardinality(others) = Cardinality(words) - 1
  BY WordsFinite, FS_RemoveElement
<1>7. IsFiniteSet(found) /\ Cardinality(found) <= Cardinality(others)
  BY <1>5, <1>6, FS_Injection
<1>8. Cardinality(found) \in Nat
  BY <1>7, FS_CardinalityType
<1>9. Cardinality(found) # Cardinality(words)
  BY <1>6, <1>7, <1>8
<1> QED
  BY <1>9 DEF Refuses, found

(* A file that is not refused has an ambiguous word for one that is lost.  *)
LEMMA AcceptedFile ==
  ASSUME NEW file \in Loaded, ~file.refused, file.unfound
  PROVE  file.ambiguous
<1>1. PICK i \in (SUBSET Func) \X (SUBSET Word) \X [Func -> Func] :
        file = LoadFile(i[1], i[2], i[3])
  BY Zenon DEF Loaded
<1> DEFINE P == i[1]
           words == i[2]
           demangled == i[3]
<1>2. P \in SUBSET Func /\ words \in SUBSET Word /\ demangled \in [Func -> Func]
  BY <1>1
<1>3. file = LoadFile(P, words, demangled)
  BY <1>1
<1> HIDE DEF P, words, demangled
<1>4. /\ file.refused = Refuses({f \in P : \E w \in words : Named(f, w, demangled)}, words)
      /\ file.unfound = \E w \in words : \A f \in P : ~Named(f, w, demangled)
      /\ file.ambiguous = \E w \in words : \E f, g \in P :
                            f # g /\ Named(f, w, demangled) /\ Named(g, w, demangled)
  BY <1>3, Zenon DEF LoadFile
<1>5. PICK lost \in words : \A f \in P : ~Named(f, lost, demangled)
  BY <1>4
<1>6. SUFFICES ASSUME ~file.ambiguous PROVE FALSE
  BY Zenon
<1>7. \A w \in words : \A f, g \in P :
        Named(f, w, demangled) /\ Named(g, w, demangled) => f = g
  BY <1>4, <1>6
<1>8. Refuses({f \in P : \E w \in words : Named(f, w, demangled)}, words)
  BY <1>2, <1>5, <1>7, UnfoundIsRefused
<1> QED
  BY <1>4, <1>8

(* A pass that goes on has found each name of the file, unless one of them *)
(* stands for two functions.                                               *)
THEOREM NamesFound == Spec => []FilterNamesFound
<1>1. Init => FilterNamesFound
  BY DEF Init, FilterNamesFound
<1>2. FilterNamesFound /\ [Next]_vars => FilterNamesFound'
  <2> SUFFICES ASSUME FilterNamesFound, [Next]_vars, stage' = "filtered"
               PROVE  listing'.unfound => listing'.ambiguous
    BY DEF FilterNamesFound
  <2>1. CASE FilterFunctions
    <3>1. PICK file \in Loaded :
            /\ listing' = [unfound |-> file.unfound, ambiguous |-> file.ambiguous]
            /\ stage' = IF file.refused THEN "exit" ELSE "filtered"
      BY <2>1 DEF FilterFunctions
    <3>2. ~file.refused
      BY <3>1
    <3> QED
      BY <3>1, <3>2, AcceptedFile
  <2>2. CASE UNCHANGED vars
    BY <2>2 DEF FilterNamesFound, vars, inputVars
  <2> QED
    BY <2>1, <2>2 DEF Next, Pass, RunAgain, Classify, CallConstruct, NetworkStep, NetworkReturns,
       AssertSensitiveOnlyChecked, LoadJson, DumpJson, InjectGuard, DereferenceNull, NextHost,
       Return
<1> QED
  BY <1>1, <1>2, PTL DEF Spec


-----------------------------------------------------------------------------
(* A run gets on                                                           *)

(* Ahead has five parts at each stage.                                     *)
LEMMA AheadLength == Len(Ahead) = 5
<1>1. CASE stage = "constructing"
  BY <1>1 DEF Ahead
<1>2. CASE stage = "inject"
  BY <1>2 DEF Ahead
<1>3. CASE stage \notin {"constructing", "inject"}
  BY <1>3 DEF Ahead
<1> QED
  BY <1>1, <1>2, <1>3

(* Ahead gets less where it first changes.                                 *)
LEMMA NearerAt ==
  ASSUME NEW i \in 1..5, Ahead'[i] \in 0..(Ahead[i] - 1),
         \A k \in 1..(i - 1) : Ahead'[k] = Ahead[k]
  PROVE  Nearer(Ahead', Ahead)
BY AheadLength DEF Nearer

(* A step into a later stage.                                              *)
LEMMA NextStage ==
  ASSUME StagesAhead' \in 0..(StagesAhead - 1)
  PROVE  Nearer(Ahead', Ahead)
<1>1. Ahead[1] = StagesAhead
  BY DEF Ahead
<1>2. Ahead'[1] = StagesAhead'
  BY DEF Ahead
<1>3. Ahead'[1] \in 0..(Ahead[1] - 1)
  BY <1>1, <1>2
<1> QED
  BY <1>3, NearerAt

(* What the network has ahead, as its own proofs name it.                  *)
LEMMA NetworkAhead ==
  /\ NetworkProofs!LoopsAhead = Network!LoopsAhead
  /\ NetworkProofs!TurnsAhead = Network!TurnsAhead
  /\ NetworkProofs!CheckeesAhead = Network!CheckeesAhead
  /\ NetworkProofs!LoopsAhead' = Network!LoopsAhead'
  /\ NetworkProofs!TurnsAhead' = Network!TurnsAhead'
  /\ NetworkProofs!CheckeesAhead' = Network!CheckeesAhead'
BY DEF NetworkProofs!LoopsAhead, Network!LoopsAhead, NetworkProofs!TurnsAhead,
   Network!TurnsAhead, NetworkProofs!CheckeesAhead, Network!CheckeesAhead,
   NetworkProofs!Cardinality, Network!Cardinality, NetworkProofs!Top, Network!Top

(* A step within the network.                                              *)
LEMMA NetworkStepShortens ==
  IInv /\ NetworkStep => Nearer(Ahead', Ahead)
<1> SUFFICES ASSUME IInv, NetworkStep PROVE Nearer(Ahead', Ahead)
  OBVIOUS
<1> DEFINE own == NetworkProofs!Ahead
<1>1. stage = "constructing" /\ stage' = "constructing"
  BY DEF NetworkStep
<1>2. NetworkProofs!Nearer(own', own)
  <2>1. \/ NetworkProofs!Construct \/ NetworkProofs!GetReverseTopologicalSort
        \/ NetworkProofs!Sort
    BY NetworkSteps DEF NetworkStep
  <2>2. NetworkProofs!TypeOK
    BY DEF IInv, NetworkProofs!IInv
  <2> QED
    BY <2>1, <2>2, NetworkAssumptions, NetworkProofs!ConstructShortens,
       NetworkProofs!SortBegins, NetworkProofs!SortShortens
<1>3. /\ Len(own) = 4
      /\ Ahead[1] = 3
      /\ Ahead[2] = own[1] /\ Ahead[3] = own[2] /\ Ahead[4] = own[3] /\ Ahead[5] = own[4]
  BY <1>1, NetworkAhead DEF Ahead, StagesAhead, NetworkProofs!Ahead
<1>4. /\ Ahead'[1] = 3
      /\ Ahead'[2] = own'[1] /\ Ahead'[3] = own'[2] /\ Ahead'[4] = own'[3]
      /\ Ahead'[5] = own'[4]
  BY <1>1, NetworkAhead DEF Ahead, StagesAhead, NetworkProofs!Ahead
<1> HIDE DEF own
<1>5. PICK i \in 1..4 : /\ own'[i] \in 0..(own[i] - 1)
                        /\ \A k \in 1..(i - 1) : own'[k] = own[k]
  BY <1>2, <1>3 DEF NetworkProofs!Nearer
<1>6. Ahead'[i + 1] \in 0..(Ahead[i + 1] - 1)
  BY <1>3, <1>4, <1>5
<1>7. \A k \in 1..(i + 1 - 1) : Ahead'[k] = Ahead[k]
  <2> SUFFICES ASSUME NEW k \in 1..i PROVE Ahead'[k] = Ahead[k]
    OBVIOUS
  <2>1. CASE k = 1
    BY <1>3, <1>4, <2>1
  <2>2. CASE k # 1
    <3> DEFINE m == k - 1
    <3>1. m \in 1..(i - 1) /\ m \in 1..4 /\ k = m + 1
      BY <2>2
    <3> HIDE DEF m
    <3> QED
      BY <1>3, <1>4, <1>5, <3>1
  <2> QED
    BY <2>1, <2>2
<1> QED
  BY <1>6, <1>7, NearerAt

(* A guard is one checkee less for its host, and a host one less.          *)
LEMMA InjectionShortens ==
  TypeOK /\ (InjectGuard \/ NextHost) => Nearer(Ahead', Ahead)
<1> SUFFICES ASSUME TypeOK, InjectGuard \/ NextHost PROVE Nearer(Ahead', Ahead)
  OBVIOUS
<1>1. /\ stage = "inject" /\ stage' = "inject" /\ turn <= Len(topologicalSortFuncs)
      /\ UNCHANGED <<topologicalSortFuncs, checkerFuncMap>>
  BY DEF InjectGuard, NextHost, resultVars
<1>2. turn \in Nat \ {0} /\ slot \in Nat \ {0} /\ Len(topologicalSortFuncs) \in Nat
  BY LenProperties DEF TypeOK
<1>3. CASE InjectGuard
  <2> DEFINE n == Len(checkerFuncMap[Host])
  <2>1. slot <= n /\ slot' = slot + 1 /\ turn' = turn
    BY <1>3 DEF InjectGuard
  <2>2. n \in Nat
    BY <1>1, <1>2, LenProperties, ElementOfSeq DEF TypeOK, Host
  <2>3. /\ Ahead'[1] = Ahead[1] /\ Ahead'[2] = Ahead[2]
        /\ Ahead[3] = n + 1 - slot /\ Ahead'[3] = n + 1 - (slot + 1)
    BY <1>1, <1>2, <2>1 DEF Ahead, StagesAhead, Host
  <2> HIDE DEF n
  <2>4. Ahead'[3] \in 0..(Ahead[3] - 1)
    BY <1>2, <2>1, <2>2, <2>3
  <2> QED
    BY <2>3, <2>4, NearerAt
<1>4. CASE NextHost
  <2>1. turn' = turn + 1
    BY <1>4 DEF NextHost
  <2>2. /\ Ahead'[1] = Ahead[1]
        /\ Ahead[2] = Len(topologicalSortFuncs) + 1 - turn
        /\ Ahead'[2] = Len(topologicalSortFuncs) + 1 - (turn + 1)
    BY <1>1, <2>1 DEF Ahead, StagesAhead
  <2>3. Ahead'[2] \in 0..(Ahead[2] - 1)
    BY <1>1, <1>2, <2>2
  <2> QED
    BY <2>2, <2>3, NearerAt
<1> QED
  BY <1>3, <1>4

(* The other steps of the pass.                                            *)
LEMMA StageShortens ==
  \/ FilterFunctions \/ Classify \/ CallConstruct \/ NetworkReturns
  \/ LoadJson \/ DumpJson \/ DereferenceNull \/ Return
  => Nearer(Ahead', Ahead)
<1>1. FilterFunctions => StagesAhead' \in 0..(StagesAhead - 1)
  BY DEF FilterFunctions, StagesAhead
<1>2. Classify => StagesAhead' \in 0..(StagesAhead - 1)
  BY DEF Classify, StagesAhead
<1>3. CallConstruct => StagesAhead' \in 0..(StagesAhead - 1)
  BY DEF CallConstruct, StagesAhead
<1>4. NetworkReturns => StagesAhead' \in 0..(StagesAhead - 1)
  BY DEF NetworkReturns, AssertSensitiveOnlyChecked, StagesAhead
<1>5. LoadJson => StagesAhead' \in 0..(StagesAhead - 1)
  BY DEF LoadJson, StagesAhead
<1>6. DumpJson => StagesAhead' \in 0..(StagesAhead - 1)
  BY DEF DumpJson, StagesAhead
<1>7. DereferenceNull \/ Return => StagesAhead' \in 0..(StagesAhead - 1)
  BY DEF DereferenceNull, Return, StagesAhead
<1> QED
  BY <1>1, <1>2, <1>3, <1>4, <1>5, <1>6, <1>7, NextStage

(* Each step of the pass brings its run nearer to the end.                 *)
THEOREM RunsGetOn == Spec => RunsShorten
<1>1. IInv /\ [Next]_vars => [Pass => Nearer(Ahead', Ahead)]_vars
  <2>1. IInv => TypeOK
    BY DEF IInv
  <2>2. IInv /\ Pass => Nearer(Ahead', Ahead)
    BY <2>1, NetworkStepShortens, InjectionShortens, StageShortens DEF Pass
  <2> QED
    BY <2>2
<1> QED
  BY <1>1, PassInvariance, PTL DEF Spec, RunsShorten


(* What a run has ahead is counted in whole numbers.                       *)
LEMMA CountsAhead == IInv => Ahead \in [1..5 -> Int]
<1> SUFFICES ASSUME IInv PROVE Ahead \in [1..5 -> Int]
  OBVIOUS
<1>1. StagesAhead \in Int
  BY DEF StagesAhead
<1>2. CASE stage = "constructing"
  <2>1. NetworkProofs!Ahead \in [1..4 -> Int]
    BY NetworkAssumptions, NetworkProofs!CountsAhead DEF IInv, NetworkProofs!IInv
  <2>2. /\ NetworkProofs!Ahead[1] = Network!LoopsAhead
        /\ NetworkProofs!Ahead[2] = Network!TurnsAhead
        /\ NetworkProofs!Ahead[3] = Len(stack)
        /\ NetworkProofs!Ahead[4] = Network!CheckeesAhead
    BY NetworkAhead DEF NetworkProofs!Ahead
  <2>3. /\ Network!LoopsAhead \in Int /\ Network!TurnsAhead \in Int
        /\ Len(stack) \in Int /\ Network!CheckeesAhead \in Int
    BY <2>1, <2>2
  <2> QED
    BY <1>1, <1>2, <2>3 DEF Ahead
<1>3. CASE stage = "inject"
  <2> DEFINE n == Len(topologicalSortFuncs)
             checkees == IF turn > n THEN 0 ELSE Len(checkerFuncMap[Host]) + 1 - slot
  <2>1. n \in Nat /\ turn \in 1..(n + 1) /\ slot \in Nat
    BY LenProperties DEF IInv, TypeOK
  <2>2. checkees \in Int
    <3>1. CASE turn <= n
      <4>1. Host \in Pointer
        BY <2>1, <3>1, ElementOfSeq DEF IInv, TypeOK, Host
      <4>2. Len(checkerFuncMap[Host]) \in Nat
        BY <4>1, LenProperties DEF IInv, TypeOK
      <4> QED
        BY <2>1, <3>1, <4>2
    <3>2. CASE turn > n
      BY <3>2
    <3> QED
      BY <2>1, <3>1, <3>2
  <2>3. n + 1 - turn \in Int
    BY <2>1
  <2>4. Ahead = <<StagesAhead, n + 1 - turn, checkees, 0, 0>>
    BY <1>3 DEF Ahead
  <2> HIDE DEF checkees, n
  <2> QED
    BY <1>1, <2>2, <2>3, <2>4
<1>4. CASE stage \notin {"constructing", "inject"}
  BY <1>1, <1>4 DEF Ahead
<1> QED
  BY <1>2, <1>3, <1>4

(* With RunsGetOn, and as nothing is Nearer for ever (NearerWellFounded of *)
(* DAGCheckersNetworkProofs): no run takes steps for ever.                 *)
THEOREM RunsCounted == Spec => [](Ahead \in [1..5 -> Int])
BY CountsAhead, PassInvariance, PTL

=============================================================================
