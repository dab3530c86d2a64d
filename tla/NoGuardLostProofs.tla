-------------------------- MODULE NoGuardLostProofs --------------------------
(***************************************************************************)
(* The proof that no run loses a guard: the guards of a run that ends well *)
(* are the pairs of its network, each once, also when the network has been *)
(* through the file.                                                       *)
(***************************************************************************)
EXTENDS SCPassProofs

-----------------------------------------------------------------------------
(* The inductive invariant, on top of the one of SCPassProofs              *)

(* Order and map name each checker and each of its checkees once, and no   *)
(* checker of the map is missing in the order.                             *)
NamedOnce(map, order) ==
  /\ \A i, k \in 1..Len(order) : order[i] = order[k] /\ order[i] \in Func => i = k
  /\ \A c \in Func : \A i, k \in 1..Len(map[c]) :
       map[c][i] = map[c][k] /\ map[c][i] \in Func => i = k
  /\ \A c \in Func : map[c] # <<>> => c \in RangeOf(order)

Once ==
  /\ NamedOnce(checkerFuncMap, topologicalSortFuncs)
  /\ networkFile # NoFile => NamedOnce(networkFile.map, networkFile.order)

(* The map the pass works on is the network of the run, but for names that *)
(* were not found.                                                         *)
SameCheckees(map, file, c) ==
  /\ Len(map[c]) = Len(file.map[c])
  /\ \A m \in 1..Len(map[c]) : map[c][m] \in {NoFunc, file.map[c][m]}

SameNetwork ==
  stage \in {"built", "inject", "done"} =>
    /\ ~option.load => \A c \in Func : checkerFuncMap[c] = checkerCheckee[c]
    /\ option.load /\ networkFile = NoFile => \A c \in Func : checkerFuncMap[c] = <<>>
    /\ option.load /\ networkFile # NoFile =>
         \/ NoFunc \in RangeOf(topologicalSortFuncs)
         \/ \A c \in Func : SameCheckees(checkerFuncMap, networkFile, c)

(* The guard for the m-th checkee of the k-th host has had its turn when   *)
(* the loops are at place s of host t.                                     *)
HadTurn(t, s, k, m) == k < t \/ (k = t /\ m < s)
GuardOf(order, map, k, m) == [host |-> order[k], checkee |-> map[order[k]][m]]

(* Each guard has a place in the network that has had its turn, and no two *)
(* have the same.                                                          *)
PlacedAt(injected, order, map, t, s) ==
  /\ \A n \in 1..Len(injected) : \E k \in 1..Len(order) : \E m \in 1..Len(map[order[k]]) :
       HadTurn(t, s, k, m) /\ injected[n] = GuardOf(order, map, k, m)
  /\ \A i, j \in 1..Len(injected) : injected[i] = injected[j] => i = j

(* Each place that has had its turn has its guard.                         *)
GuardedAt(injected, order, map, t, s) ==
  /\ \A k \in 1..Len(order) : k < t => order[k] \in Func
  /\ \A k \in 1..Len(order) : \A m \in 1..Len(map[order[k]]) :
       HadTurn(t, s, k, m) =>
         /\ map[order[k]][m] # NoFunc
         /\ \E n \in 1..Len(injected) : injected[n] = GuardOf(order, map, k, m)

Placed == PlacedAt(guards, topologicalSortFuncs, checkerFuncMap, turn, slot)
Guarded ==
  stage \in {"inject", "done"} =>
    GuardedAt(guards, topologicalSortFuncs, checkerFuncMap, turn, slot)

(* The loops begin at the first place and end behind the last.             *)
Loops ==
  /\ stage \notin {"inject", "done", "crash"} => slot = 1
  /\ stage = "done" => turn > Len(topologicalSortFuncs)

CInv == NetworkProofs!PushedOnce /\ Once /\ SameNetwork /\ Placed /\ Guarded /\ Loops

-----------------------------------------------------------------------------
(* The network of checkers                                                 *)

(* A new object of the class has pushed nothing.                           *)
LEMMA NewPushedOnce == Network!Init => NetworkProofs!PushedOnce
<1>1. Network!Init => NetworkProofs!Init
  BY DEF Network!Init, NetworkProofs!Init
<1> QED
  BY <1>1, NetworkProofs!LevelsInit, NetworkAssumptions DEF NetworkProofs!LInv

(* A step of the class pushes each checkee once.                           *)
LEMMA PushedKept ==
  NetworkProofs!IInv /\ NetworkProofs!PushedOnce /\ NetworkProofs!Next
  => NetworkProofs!PushedOnce'
BY NetworkProofs!PushedNext, NetworkAssumptions

(* A step that leaves the object alone pushes nothing.                     *)
LEMMA PushedUnchanged ==
  NetworkProofs!PushedOnce /\ UNCHANGED networkObject => NetworkProofs!PushedOnce'
BY DEF networkObject, NetworkProofs!PushedOnce, NetworkProofs!Distinct,
   NetworkProofs!Checks, NetworkProofs!RangeOf

(* What the class returns names every checker and checkee once.            *)
LEMMA ReturnsOnce ==
  ASSUME NetworkProofs!IInv, NetworkProofs!PushedOnce, phase = "done"
  PROVE  NamedOnce(checkerCheckee, list)
<1>1. /\ \A i, j \in 1..Len(list) : i # j => list[i] # list[j]
      /\ RangeOf(list) = {f \in Func : checkerCheckee[f] # <<>>}
  BY NetworkProofs!SortComplete, NetworkAssumptions
     DEF NetworkProofs!ListsEveryChecker, NetworkProofs!Distinct, NetworkProofs!RangeOf,
         RangeOf, NetworkProofs!IsChecker
<1>2. \A c \in Func : \A i, j \in 1..Len(checkerCheckee[c]) :
        i # j => checkerCheckee[c][i] # checkerCheckee[c][j]
  BY DEF NetworkProofs!PushedOnce, NetworkProofs!Distinct
<1> QED
  BY <1>1, <1>2 DEF NamedOnce

-----------------------------------------------------------------------------
(* The beginning and the steps of a run                                    *)

(* Nothing is injected at the first place of the loops.                    *)
FirstPlace ==
  /\ guards = <<>> /\ turn = 1 /\ slot = 1
  /\ topologicalSortFuncs \in Seq(Pointer) /\ checkerFuncMap \in [Pointer -> Seq(Pointer)]

LEMMA AtFirstPlace == FirstPlace => Placed /\ Guarded
<1> SUFFICES ASSUME FirstPlace PROVE Placed /\ Guarded
  OBVIOUS
<1> USE DEF FirstPlace
<1>1. Len(guards) = 0 /\ Len(topologicalSortFuncs) \in Nat
  BY EmptySeq, LenProperties
<1>2. Placed
  BY <1>1 DEF Placed, PlacedAt
<1>3. \A k \in 1..Len(topologicalSortFuncs) :
        topologicalSortFuncs[k] \in Pointer
        /\ Len(checkerFuncMap[topologicalSortFuncs[k]]) \in Nat
  BY ElementOfSeq, LenProperties
<1>4. \A k \in 1..Len(topologicalSortFuncs) :
        \A m \in 1..Len(checkerFuncMap[topologicalSortFuncs[k]]) : ~HadTurn(turn, slot, k, m)
  BY <1>1, <1>3 DEF HadTurn
<1>5. Guarded
  BY <1>1, <1>4 DEF Guarded, GuardedAt
<1> QED
  BY <1>2, <1>5

(* The same of the state after a step.                                     *)
LEMMA FirstPlaceNext == FirstPlace' => Placed' /\ Guarded'
BY AtFirstPlace, PTL

(* The network file names everything once.                                 *)
FileOnce == networkFile # NoFile => NamedOnce(networkFile.map, networkFile.order)

(* A run that has not done anything satisfies the invariant.               *)
LEMMA FreshComplete == Fresh /\ FileOnce => CInv
<1> SUFFICES ASSUME Fresh, FileOnce PROVE CInv
  OBVIOUS
<1> USE DEF Fresh
<1>1. <<>> \in Seq(Pointer) /\ Len(<<>>) = 0
  BY EmptySeq
<1>2. Func \subseteq Pointer /\ NoFunc \in Pointer
  BY DEF Pointer
<1>3. Once
  BY <1>1, <1>2 DEF Once, NamedOnce, FileOnce
<1>4. Placed /\ Guarded
  BY <1>1, AtFirstPlace DEF FirstPlace
<1> QED
  BY <1>3, <1>4, NewPushedOnce DEF CInv, SameNetwork, Loops

(* The first run.                                                          *)
LEMMA CompleteInit == Init => CInv
<1>1. Init => Fresh /\ FileOnce
  BY BoundAssumption DEF Init, Fresh, FileFits, FileOnce
<1> QED
  BY <1>1, FreshComplete

(* Another run begins with the file of the one before.                     *)
LEMMA RunAgainComplete == IInv /\ CInv /\ RunAgain => CInv'
<1>1. IInv /\ CInv /\ RunAgain => FileOnce'
  BY DEF RunAgain, FileOnce, CInv, Once, NamedOnce, RangeOf
<1>2. (Fresh /\ FileOnce)' => CInv'
  BY FreshComplete, PTL
<1> QED
  BY <1>1, <1>2, RunAgainIsFresh

(* What a step keeps that leaves the network and the guards alone.         *)
LEMMA QuietStep ==
  ASSUME CInv, UNCHANGED <<networkFile, resultVars, injectVars>>
  PROVE  /\ Once' /\ Placed'
         /\ stage' \in {"inject", "done"} /\ stage \in {"inject", "done"} => Guarded'
         /\ stage' \notin {"inject", "done"} => Guarded'
<1>1. UNCHANGED <<networkFile, checkerFuncMap, topologicalSortFuncs, turn, slot, guards>>
  BY DEF resultVars, injectVars
<1>2. Once'
  BY <1>1 DEF CInv, Once, NamedOnce, RangeOf
<1>3. Placed'
  BY <1>1 DEF CInv, Placed, PlacedAt, GuardOf, HadTurn
<1>4. stage' \in {"inject", "done"} /\ stage \in {"inject", "done"} => Guarded'
  BY <1>1 DEF CInv, Guarded, GuardedAt, GuardOf, HadTurn
<1> QED
  BY <1>2, <1>3, <1>4 DEF Guarded

(* Before the network is there, a run is at the first place.               *)
LEMMA EarlyComplete ==
  ASSUME IInv, CInv, FilterFunctions \/ Classify \/ CallConstruct \/ NetworkStep
  PROVE  CInv'
<1>1. /\ stage' \in {"exit", "filtered", "classified", "constructing"}
      /\ stage \in {"start", "filtered", "classified", "constructing"}
      /\ UNCHANGED <<networkFile, resultVars, injectVars>>
  BY DEF FilterFunctions, Classify, CallConstruct, NetworkStep, inputVars, rosterVars
<1>2. NetworkProofs!PushedOnce'
  <2>1. CASE FilterFunctions
    BY <2>1, PushedUnchanged DEF FilterFunctions, CInv
  <2>2. CASE Classify \/ CallConstruct
    BY <2>2, NetworkCalls, PushedKept DEF IInv, CInv
  <2>3. CASE NetworkStep
    BY <2>3, NetworkSteps, PushedKept DEF NetworkStep, IInv, CInv
  <2> QED
    BY <2>1, <2>2, <2>3
<1>3. Once' /\ Placed' /\ Guarded'
  BY <1>1, QuietStep
<1> QED
  BY <1>1, <1>2, <1>3 DEF CInv, SameNetwork, Loops, injectVars

(* The pass works on the network the class returns.                        *)
LEMMA ReturnsComplete ==
  ASSUME IInv, CInv, NetworkReturns
  PROVE  CInv'
<1>1. /\ stage = "constructing" /\ phase = "done"
      /\ checkerFuncMap' = [p \in Pointer |-> IF p = NoFunc THEN <<>> ELSE checkerCheckee[p]]
      /\ topologicalSortFuncs' = list
      /\ stage' \in {"exit", "built", "crash"}
      /\ UNCHANGED <<networkFile, inputVars, rosterVars, injectVars, networkObject>>
  BY DEF NetworkReturns, AssertSensitiveOnlyChecked
<1>2. ~option.load /\ guards = <<>> /\ turn = 1 /\ slot = 1
  BY <1>1 DEF IInv, Handed, NotYet, CInv, Loops
<1>3. \A c \in Func : checkerFuncMap'[c] = checkerCheckee[c]
  BY <1>1, FuncAssumption DEF Pointer
<1>4. Once'
  <2>1. NamedOnce(checkerCheckee, list)
    BY <1>1, ReturnsOnce DEF IInv, CInv
  <2>2. NamedOnce(checkerFuncMap', topologicalSortFuncs')
    BY <1>1, <1>3, <2>1 DEF NamedOnce
  <2>3. networkFile' = networkFile
    BY <1>1
  <2> QED
    BY <2>2, <2>3 DEF CInv, Once, NamedOnce, RangeOf
<1>5. SameNetwork'
  BY <1>1, <1>2, <1>3 DEF SameNetwork, inputVars, networkObject
<1>6. Placed' /\ Guarded'
  <2>1. TypeOK'
    BY ReturnsPreserves DEF IInv
  <2>2. guards' = <<>> /\ turn' = 1 /\ slot' = 1
    BY <1>1, <1>2 DEF injectVars
  <2>3. /\ topologicalSortFuncs' \in Seq(Pointer)
        /\ checkerFuncMap' \in [Pointer -> Seq(Pointer)]
    BY <2>1 DEF TypeOK
  <2> QED
    BY <2>2, <2>3, FirstPlaceNext DEF FirstPlace
<1>7. NetworkProofs!PushedOnce'
  BY <1>1, PushedUnchanged DEF CInv
<1> QED
  BY <1>1, <1>2, <1>4, <1>5, <1>6, <1>7 DEF CInv, Loops, injectVars

(* The pass works on what it loads of the file: each name that was found   *)
(* keeps its place among the checkees.                                     *)
LEMMA LoadComplete ==
  ASSUME IInv, CInv, LoadJson
  PROVE  CInv'
<1>1. /\ stage = "classified" /\ option.load /\ stage' \in {"exit", "built"}
      /\ topologicalSortFuncs' = LoadedOrder /\ checkerFuncMap' = LoadedMap
      /\ UNCHANGED <<networkFile, inputVars, rosterVars, injectVars, networkObject>>
  BY DEF LoadJson
<1>2. guards = <<>> /\ turn = 1 /\ slot = 1 /\ TypeOK
  BY <1>1 DEF IInv, NotYet, CInv, Loops
<1>3. Func \subseteq Pointer
  BY DEF Pointer
<1>4. ASSUME networkFile = NoFile
      PROVE  /\ Len(LoadedOrder) = 0 /\ \A i \in 1..Len(LoadedOrder) : FALSE
             /\ \A c \in Func : LoadedMap[c] = <<>>
  <2>1. Len(LoadedOrder) = 0 /\ \A i \in 1..Len(LoadedOrder) : FALSE
    BY <1>2, <1>4, LoadedOrderFacts, EmptySeq
  <2> QED
    BY <1>2, <1>3, <1>4, <2>1, LoadedMapFacts
<1>5. ASSUME networkFile # NoFile, NEW c \in Func, LoadedMap[c] # <<>>
      PROVE  c \in RangeOf(LoadedOrder) /\ LoadedMap[c] = LoadedCheckees(c)
  BY <1>2, <1>3, <1>5, LoadedMapFacts DEF RangeOf
<1>6. ASSUME networkFile # NoFile, NEW c \in Func, LoadedMap[c] = LoadedCheckees(c)
      PROVE  SameCheckees(LoadedMap, networkFile, c)
  BY <1>2, <1>6, LoadedCheckeesFacts DEF SameCheckees, Lookup
<1>7. NamedOnce(LoadedMap, LoadedOrder)
  <2>1. CASE networkFile = NoFile
    BY <1>4, <2>1, EmptySeq DEF NamedOnce
  <2>2. CASE networkFile # NoFile
    <3>1. NamedOnce(networkFile.map, networkFile.order)
      BY <2>2 DEF CInv, Once
    <3>2. ASSUME NEW i \in 1..Len(LoadedOrder), NEW k \in 1..Len(LoadedOrder),
                 LoadedOrder[i] = LoadedOrder[k], LoadedOrder[i] \in Func
          PROVE  i = k
      <4>1. /\ i \in 1..Len(networkFile.order) /\ k \in 1..Len(networkFile.order)
            /\ networkFile.order[i] = LoadedOrder[i] /\ networkFile.order[k] = LoadedOrder[k]
        BY <1>2, <2>2, <3>2, LoadedOrderFacts, LookupFacts
      <4> QED
        BY <3>1, <3>2, <4>1 DEF NamedOnce
    <3>3. ASSUME NEW c \in Func, NEW i \in 1..Len(LoadedMap[c]), NEW k \in 1..Len(LoadedMap[c]),
                 LoadedMap[c][i] = LoadedMap[c][k], LoadedMap[c][i] \in Func
          PROVE  i = k
      <4>1. LoadedMap[c] = LoadedCheckees(c)
        BY <1>5, <2>2, <3>3, EmptySeq
      <4>2. SameCheckees(LoadedMap, networkFile, c)
        BY <1>6, <2>2, <4>1
      <4>3. /\ i \in 1..Len(networkFile.map[c]) /\ k \in 1..Len(networkFile.map[c])
            /\ networkFile.map[c][i] = networkFile.map[c][k] /\ networkFile.map[c][i] \in Func
        BY <3>3, <4>2, FuncAssumption DEF SameCheckees
      <4> QED
        BY <3>1, <4>3 DEF NamedOnce
    <3> QED
      BY <1>5, <2>2, <3>2, <3>3 DEF NamedOnce
  <2> QED
    BY <2>1, <2>2
<1>8. Once'
  <2>1. NamedOnce(checkerFuncMap', topologicalSortFuncs') /\ networkFile' = networkFile
    BY <1>1, <1>7
  <2> QED
    BY <2>1 DEF CInv, Once, NamedOnce, RangeOf
<1>9. ASSUME networkFile # NoFile, NoFunc \notin RangeOf(LoadedOrder), NEW c \in Func
      PROVE  SameCheckees(LoadedMap, networkFile, c)
  <2>1. CASE LoadedMap[c] = LoadedCheckees(c)
    BY <1>6, <1>9, <2>1
  <2>2. CASE LoadedMap[c] # LoadedCheckees(c)
    <3>1. LoadedMap[c] = <<>> /\ \A i \in 1..Len(LoadedOrder) : LoadedOrder[i] # c
      BY <1>2, <1>3, <2>2, LoadedMapFacts
    <3>2. c \notin RangeOf(networkFile.order)
      <4> SUFFICES ASSUME NEW i \in 1..Len(networkFile.order), networkFile.order[i] = c
                   PROVE  FALSE
        BY DEF RangeOf
      <4>1. i \in 1..Len(LoadedOrder) /\ LoadedOrder[i] = Lookup(c)
        BY <1>2, <1>9, LoadedOrderFacts
      <4> QED
        BY <1>9, <3>1, <4>1 DEF Lookup, RangeOf
    <3>3. networkFile.map[c] = <<>>
      BY <1>9, <3>2 DEF CInv, Once, NamedOnce
    <3> QED
      BY <3>1, <3>3, EmptySeq DEF SameCheckees
  <2> QED
    BY <2>1, <2>2
<1>10. SameNetwork'
  <2>1. option' = option /\ networkFile' = networkFile
    BY <1>1 DEF inputVars
  <2>2. networkFile = NoFile => \A c \in Func : checkerFuncMap'[c] = <<>>
    BY <1>1, <1>4
  <2>3. networkFile # NoFile =>
          \/ NoFunc \in RangeOf(topologicalSortFuncs')
          \/ \A c \in Func : SameCheckees(checkerFuncMap', networkFile, c)
    BY <1>1, <1>9
  <2> QED
    BY <1>1, <2>1, <2>2, <2>3 DEF SameNetwork, RangeOf, SameCheckees
<1>11. Placed' /\ Guarded'
  <2>1. TypeOK'
    BY LoadPreserves DEF IInv
  <2>2. FirstPlace'
    BY <1>1, <1>2, <2>1 DEF FirstPlace, TypeOK, injectVars
  <2> QED
    BY <2>2, FirstPlaceNext
<1>12. NetworkProofs!PushedOnce'
  BY <1>1, PushedUnchanged DEF CInv
<1> QED
  BY <1>1, <1>2, <1>8, <1>10, <1>11, <1>12 DEF CInv, Loops, injectVars

(* What is dumped is the network the pass works on.                        *)
LEMMA DumpComplete ==
  ASSUME IInv, CInv, DumpJson
  PROVE  CInv'
<1>1. /\ stage = "built" /\ stage' \in {"inject", "crash"}
      /\ UNCHANGED <<inputVars, rosterVars, resultVars, injectVars, networkObject>>
  BY DEF DumpJson
<1>2. guards = <<>> /\ turn = 1 /\ slot = 1 /\ TypeOK
  BY <1>1 DEF IInv, NotYet, CInv, Loops
<1>3. \/ networkFile' = networkFile
      \/ /\ networkFile' = [map |-> [c \in Func |-> checkerFuncMap[c]],
                            order |-> topologicalSortFuncs]
  BY DEF DumpJson
<1>4. ASSUME networkFile' # networkFile
      PROVE  /\ \A c \in Func : networkFile'.map[c] = checkerFuncMap[c]
             /\ networkFile'.order = topologicalSortFuncs
  BY <1>3, <1>4
<1>5. UNCHANGED <<option, checkerFuncMap, topologicalSortFuncs, checkerCheckee, guards, turn, slot>>
  BY <1>1 DEF inputVars, resultVars, networkObject, injectVars
<1>6. Once'
  <2>1. NamedOnce(checkerFuncMap', topologicalSortFuncs')
    BY <1>5 DEF CInv, Once, NamedOnce, RangeOf
  <2>2. networkFile' # NoFile => NamedOnce(networkFile'.map, networkFile'.order)
    BY <1>4 DEF CInv, Once, NamedOnce
  <2> QED
    BY <2>1, <2>2 DEF Once, NamedOnce, RangeOf
<1>7. SameNetwork'
  <2>1. CASE networkFile' = networkFile
    BY <1>1, <1>5, <2>1 DEF CInv, SameNetwork, RangeOf, SameCheckees
  <2>2. CASE networkFile' # networkFile
    <3>1. networkFile' # NoFile
      <4>1. ~DumpCrashes
        BY <2>2 DEF DumpJson
      <4> QED
        BY <1>2, <1>3, <2>2, <4>1, DumpedTypes
    <3>2. \A c \in Func : SameCheckees(checkerFuncMap', networkFile', c)
      BY <1>4, <1>5, <2>2 DEF SameCheckees
    <3> QED
      BY <1>1, <1>5, <3>1, <3>2 DEF CInv, SameNetwork
  <2> QED
    BY <2>1, <2>2
<1>8. Placed' /\ Guarded'
  <2>1. FirstPlace'
    BY <1>2, <1>5 DEF FirstPlace, TypeOK
  <2> QED
    BY <2>1, FirstPlaceNext
<1>9. NetworkProofs!PushedOnce'
  BY <1>1, PushedUnchanged DEF CInv
<1> QED
  BY <1>1, <1>2, <1>6, <1>7, <1>8, <1>9 DEF CInv, Loops, injectVars

-----------------------------------------------------------------------------
(* The injection of guards                                                 *)

(* What the injection of one guard and the end of a host leave alone.      *)
LEMMA InjectionKeeps ==
  ASSUME CInv, stage' = stage,
         UNCHANGED <<networkFile, inputVars, rosterVars, resultVars, networkObject>>
  PROVE  NetworkProofs!PushedOnce' /\ Once' /\ SameNetwork'
<1>1. UNCHANGED <<stage, option, networkFile, checkerFuncMap, topologicalSortFuncs, checkerCheckee>>
  BY DEF inputVars, resultVars, networkObject
<1>2. Once' /\ SameNetwork'
  BY <1>1 DEF CInv, Once, NamedOnce, RangeOf, SameNetwork, SameCheckees
<1> QED
  BY <1>2, PushedUnchanged DEF CInv

(* The place of the loops is one of the network.                           *)
LEMMA PlaceOfLoops ==
  ASSUME IInv, turn <= Len(topologicalSortFuncs), Host \in present
  PROVE  /\ turn \in 1..Len(topologicalSortFuncs) /\ Len(topologicalSortFuncs) \in Nat
         /\ Host \in Func /\ Host = topologicalSortFuncs[turn]
         /\ Len(checkerFuncMap[Host]) \in Nat /\ slot \in Nat \ {0}
<1>1. topologicalSortFuncs \in Seq(Pointer) /\ turn \in 1..(Len(topologicalSortFuncs) + 1)
  BY DEF IInv, TypeOK
<1>2. Len(topologicalSortFuncs) \in Nat
  BY <1>1, LenProperties
<1>3. Host \in Func /\ slot \in Nat \ {0}
  BY DEF IInv, TypeOK
<1>4. checkerFuncMap[Host] \in Seq(Pointer)
  BY <1>3 DEF IInv, TypeOK, Pointer
<1>5. Len(checkerFuncMap[Host]) \in Nat
  BY <1>4, LenProperties
<1>6. Host = topologicalSortFuncs[turn]
  BY DEF Host
<1> QED
  BY <1>1, <1>2, <1>3, <1>5, <1>6

(* The guards are pairs of functions.                                      *)
LEMMA GuardTypes == TypeOK => guards \in Seq([host : Func, checkee : Func])
<1> SUFFICES ASSUME TypeOK PROVE guards \in Seq([host : Func, checkee : Func])
  OBVIOUS
<1>1. [host : present, checkee : InModule] \subseteq [host : Func, checkee : Func]
  BY DEF TypeOK, InModule
<1>2. guards \in Seq([host : present, checkee : InModule])
  BY DEF TypeOK
<1> QED
  BY <1>1, <1>2, SeqMonotonic, Zenon

(* Places and guards that fit after a step that leaves the network alone.  *)
LEMMA PlacesNext ==
  ASSUME UNCHANGED <<topologicalSortFuncs, checkerFuncMap>>,
         PlacedAt(guards', topologicalSortFuncs, checkerFuncMap, turn', slot'),
         GuardedAt(guards', topologicalSortFuncs, checkerFuncMap, turn', slot')
  PROVE  Placed' /\ Guarded'
<1>1. Placed'
  BY DEF Placed, PlacedAt, HadTurn, GuardOf
<1>2. Guarded'
  BY DEF Guarded, GuardedAt, HadTurn, GuardOf
<1> QED
  BY <1>1, <1>2

(* The next place has its guard, a new one: no place had its host and its  *)
(* checkee before.                                                         *)
LEMMA InjectComplete ==
  ASSUME IInv, CInv, InjectGuard
  PROVE  CInv'
<1> DEFINE order == topologicalSortFuncs
           map == checkerFuncMap
           new == GuardOf(order, map, turn, slot)
           n == Len(guards)
<1>1. /\ stage = "inject" /\ stage' = "inject" /\ turn <= Len(order)
      /\ slot <= Len(map[Host]) /\ Host \in present /\ map[Host][slot] # NoFunc
      /\ guards' = Append(guards, new) /\ slot' = slot + 1 /\ turn' = turn
      /\ UNCHANGED <<networkFile, inputVars, rosterVars, resultVars, networkObject>>
  BY DEF InjectGuard, GuardsWith, GuardOf, Host
<1>2. order' = order /\ map' = map
  BY <1>1 DEF resultVars
<1>3. /\ turn \in 1..Len(order) /\ Len(order) \in Nat
      /\ Host \in Func /\ order[turn] = Host
      /\ slot \in 1..Len(map[Host]) /\ Len(map[Host]) \in Nat
  BY <1>1, PlaceOfLoops
<1>4. map[Host][slot] \in Func
  <2>1. RangeOf(map[Host]) \subseteq InModule \cup {NoFunc} /\ InModule \subseteq Func
    BY <1>3 DEF IInv, Mapped, Pointer, InModule, TypeOK
  <2>2. map[Host][slot] \in RangeOf(map[Host])
    BY <1>3 DEF RangeOf
  <2> HIDE DEF map
  <2> QED
    BY <1>1, <2>1, <2>2
<1>5. /\ new.host = Host /\ new.checkee = map[Host][slot]
      /\ new \in [host : Func, checkee : Func]
  BY <1>3, <1>4 DEF GuardOf
<1>6. guards \in Seq([host : Func, checkee : Func])
  BY GuardTypes DEF IInv
<1> HIDE DEF order, map, new
<1>7. /\ n \in Nat /\ Len(guards') = n + 1
      /\ \A i \in 1..n : guards'[i] = guards[i]
      /\ guards'[n + 1] = new
      /\ \A i \in 1..(n + 1) : i # n + 1 => i \in 1..n
  BY <1>1, <1>5, <1>6, AppendFacts
<1>8. PlacedAt(guards, order, map, turn, slot) /\ GuardedAt(guards, order, map, turn, slot)
  BY <1>1 DEF CInv, Placed, Guarded, order, map
<1>9. \A k \in 1..Len(order) : \A m \in 1..Len(map[order[k]]) :
        HadTurn(turn, slot, k, m) => GuardOf(order, map, k, m) # new
  <2> SUFFICES ASSUME NEW k \in 1..Len(order), NEW m \in 1..Len(map[order[k]]),
                      HadTurn(turn, slot, k, m), GuardOf(order, map, k, m) = new
               PROVE  FALSE
    OBVIOUS
  <2>1. NamedOnce(map, order)
    BY DEF CInv, Once, map, order
  <2>2. order[k] = Host /\ map[order[k]][m] = map[Host][slot]
    BY <1>5 DEF GuardOf
  <2>3. k = turn
    BY <1>3, <2>1, <2>2 DEF NamedOnce
  <2>4. m = slot
    BY <1>3, <1>4, <2>1, <2>2 DEF NamedOnce
  <2> QED
    BY <1>3, <2>3, <2>4 DEF HadTurn
<1>10. PlacedAt(guards', order, map, turn, slot + 1)
  <2>1. ASSUME NEW i \in 1..n
        PROVE  /\ \E k \in 1..Len(order) : \E m \in 1..Len(map[order[k]]) :
                    HadTurn(turn, slot + 1, k, m) /\ guards'[i] = GuardOf(order, map, k, m)
               /\ guards'[i] # new
    <3>0. PICK k \in 1..Len(order) : \E m \in 1..Len(map[order[k]]) :
            HadTurn(turn, slot, k, m) /\ guards[i] = GuardOf(order, map, k, m)
      BY <1>8 DEF PlacedAt
    <3>1. PICK m \in 1..Len(map[order[k]]) :
            HadTurn(turn, slot, k, m) /\ guards[i] = GuardOf(order, map, k, m)
      BY <3>0
    <3>2. HadTurn(turn, slot + 1, k, m)
      <4>1. order[turn] = Host /\ turn \in 1..Len(order) /\ slot \in 1..Len(map[Host])
            /\ Len(map[Host]) \in Nat
        BY <1>3
      <4> QED
        BY <3>1, <4>1 DEF HadTurn
    <3> QED
      BY <1>7, <1>9, <3>1, <3>2
  <2>2. /\ HadTurn(turn, slot + 1, turn, slot) /\ turn \in 1..Len(order)
        /\ slot \in 1..Len(map[order[turn]])
    BY <1>3 DEF HadTurn
  <2>3. \A i \in 1..(n + 1) : \E k \in 1..Len(order) : \E m \in 1..Len(map[order[k]]) :
          HadTurn(turn, slot + 1, k, m) /\ guards'[i] = GuardOf(order, map, k, m)
    BY <1>7, <2>1, <2>2 DEF new
  <2>4. \A i, j \in 1..(n + 1) : guards'[i] = guards'[j] => i = j
    BY <1>7, <1>8, <2>1 DEF PlacedAt
  <2> QED
    BY <1>7, <2>3, <2>4 DEF PlacedAt
<1>11. GuardedAt(guards', order, map, turn, slot + 1)
  <2> SUFFICES ASSUME NEW k \in 1..Len(order), NEW m \in 1..Len(map[order[k]]),
                      HadTurn(turn, slot + 1, k, m)
               PROVE  /\ map[order[k]][m] # NoFunc
                      /\ \E i \in 1..Len(guards') : guards'[i] = GuardOf(order, map, k, m)
    BY <1>8 DEF GuardedAt
  <2>1. CASE HadTurn(turn, slot, k, m)
    BY <1>7, <1>8, <2>1 DEF GuardedAt
  <2>2. CASE ~HadTurn(turn, slot, k, m)
    <3>1. m \in Int /\ slot \in Nat
      BY <1>3
    <3>2. k = turn /\ m = slot
      BY <2>2, <3>1 DEF HadTurn
    <3> QED
      BY <1>3, <1>4, <1>7, <3>2, FuncAssumption DEF new
  <2> QED
    BY <2>1, <2>2
<1>12. Placed' /\ Guarded'
  <2>1. UNCHANGED <<topologicalSortFuncs, checkerFuncMap>>
    BY <1>2 DEF order, map
  <2>2. /\ PlacedAt(guards', topologicalSortFuncs, checkerFuncMap, turn', slot')
        /\ GuardedAt(guards', topologicalSortFuncs, checkerFuncMap, turn', slot')
    BY <1>1, <1>10, <1>11 DEF order, map
  <2> QED
    BY <2>1, <2>2, PlacesNext
<1>13. NetworkProofs!PushedOnce' /\ Once' /\ SameNetwork'
  BY <1>1, InjectionKeeps
<1> QED
  BY <1>1, <1>12, <1>13 DEF CInv, Loops

(* A run that meets null ends; its guards stay.                            *)
LEMMA DereferenceComplete ==
  ASSUME CInv, DereferenceNull
  PROVE  CInv'
<1>1. /\ stage = "inject" /\ stage' = "crash"
      /\ UNCHANGED <<networkFile, inputVars, rosterVars, resultVars, injectVars, networkObject>>
  BY DEF DereferenceNull
<1>2. Once' /\ Placed' /\ Guarded'
  BY <1>1, QuietStep
<1>3. NetworkProofs!PushedOnce'
  BY <1>1, PushedUnchanged DEF CInv
<1> QED
  BY <1>1, <1>2, <1>3 DEF CInv, SameNetwork, Loops

(* A host is left when all its checkees have had their turn.               *)
LEMMA NextHostComplete ==
  ASSUME IInv, CInv, NextHost
  PROVE  CInv'
<1> DEFINE order == topologicalSortFuncs
           map == checkerFuncMap
<1>1. /\ stage = "inject" /\ stage' = "inject" /\ turn <= Len(order)
      /\ Host \in present /\ slot > Len(map[Host])
      /\ turn' = turn + 1 /\ slot' = 1 /\ guards' = guards
      /\ UNCHANGED <<networkFile, inputVars, rosterVars, resultVars, networkObject>>
  BY DEF NextHost
<1>2. order' = order /\ map' = map
  BY <1>1 DEF resultVars
<1>3. /\ turn \in 1..Len(order) /\ Len(order) \in Nat
      /\ Host \in Func /\ order[turn] = Host
      /\ slot \in Nat /\ Len(map[Host]) \in Nat
  BY <1>1, PlaceOfLoops
<1>4. PlacedAt(guards, order, map, turn, slot) /\ GuardedAt(guards, order, map, turn, slot)
  BY <1>1 DEF CInv, Placed, Guarded
<1> HIDE DEF order, map
<1>5. ASSUME NEW k \in 1..Len(order), NEW m \in 1..Len(map[order[k]])
      PROVE  HadTurn(turn, slot, k, m) <=> HadTurn(turn + 1, 1, k, m)
  <2>1. k \in Int /\ turn \in Int
    BY <1>3
  <2>2. CASE k = turn
    BY <1>1, <1>3, <2>2 DEF HadTurn
  <2>3. CASE k # turn
    <3>1. k < turn <=> k < turn + 1
      BY <2>1, <2>3
    <3>2. m >= 1
      OBVIOUS
    <3> QED
      BY <2>1, <2>3, <3>1, <3>2 DEF HadTurn
  <2> QED
    BY <2>2, <2>3
<1>6. PlacedAt(guards, order, map, turn + 1, 1)
  BY <1>4, <1>5 DEF PlacedAt
<1>7. GuardedAt(guards, order, map, turn + 1, 1)
  <2>1. \A k \in 1..Len(order) : k < turn + 1 => order[k] \in Func
    BY <1>3, <1>4 DEF GuardedAt
  <2> QED
    BY <1>4, <1>5, <2>1 DEF GuardedAt
<1>8. Placed' /\ Guarded'
  <2>1. UNCHANGED <<topologicalSortFuncs, checkerFuncMap>>
    BY <1>2 DEF order, map
  <2>2. /\ PlacedAt(guards', topologicalSortFuncs, checkerFuncMap, turn', slot')
        /\ GuardedAt(guards', topologicalSortFuncs, checkerFuncMap, turn', slot')
    BY <1>1, <1>6, <1>7 DEF order, map
  <2> QED
    BY <2>1, <2>2, PlacesNext
<1>9. NetworkProofs!PushedOnce' /\ Once' /\ SameNetwork'
  BY <1>1, InjectionKeeps
<1> QED
  BY <1>1, <1>8, <1>9 DEF CInv, Loops

(* The pass returns behind the last place; nothing happens in a stutter.   *)
LEMMA ReturnComplete ==
  ASSUME CInv, Return \/ UNCHANGED vars
  PROVE  CInv'
<1>1. CASE Return
  <2>1. /\ stage = "inject" /\ stage' = "done" /\ turn > Len(topologicalSortFuncs)
        /\ UNCHANGED <<networkFile, inputVars, rosterVars, resultVars, injectVars, networkObject>>
    BY <1>1 DEF Return
  <2>2. Once' /\ Placed' /\ Guarded'
    BY <2>1, QuietStep
  <2>3. UNCHANGED <<option, networkFile, checkerFuncMap, topologicalSortFuncs, checkerCheckee>>
    BY <2>1 DEF inputVars, resultVars, networkObject
  <2>4. SameNetwork'
    BY <2>1, <2>3 DEF CInv, SameNetwork, SameCheckees, RangeOf
  <2>5. NetworkProofs!PushedOnce'
    BY <2>1, PushedUnchanged DEF CInv
  <2> QED
    BY <2>1, <2>2, <2>4, <2>5 DEF CInv, Loops, injectVars, resultVars
<1>2. CASE UNCHANGED vars
  <2>1. UNCHANGED <<stage, networkFile, inputVars, rosterVars, resultVars, injectVars, networkObject>>
    BY <1>2 DEF vars
  <2>2. Once' /\ Placed' /\ Guarded'
    BY <2>1, QuietStep DEF CInv
  <2>3. NetworkProofs!PushedOnce' /\ SameNetwork'
    BY <2>1, InjectionKeeps
  <2> QED
    BY <2>1, <2>2, <2>3 DEF CInv, Loops, injectVars, resultVars
<1> QED
  BY <1>1, <1>2

(* Each step keeps the invariant.                                          *)
LEMMA CompleteNext == IInv /\ CInv /\ [Next]_vars => CInv'
BY EarlyComplete, ReturnsComplete, LoadComplete, DumpComplete, InjectComplete,
   DereferenceComplete, NextHostComplete, ReturnComplete, RunAgainComplete DEF Next, Pass

(* The invariant holds throughout.                                         *)
LEMMA CompleteInvariance == Spec => [](IInv /\ CInv)
<1>1. Init => IInv /\ CInv
  BY InvInit, CompleteInit
<1>2. IInv /\ CInv /\ [Next]_vars => (IInv /\ CInv)'
  BY InvNext, CompleteNext
<1> QED
  BY <1>1, <1>2, PTL DEF Spec

-----------------------------------------------------------------------------
(* The theorem                                                             *)

PairsInjected == {<<guards[i].host, guards[i].checkee>> : i \in 1..Len(guards)}

(* Guards that all differ are as many as their pairs.                      *)
LEMMA CountingGuards ==
  ASSUME TypeOK, \A i, j \in 1..Len(guards) : guards[i] = guards[j] => i = j
  PROVE  Len(guards) = Cardinality(PairsInjected)
<1> DEFINE n == Len(guards)
           pair == [i \in 1..n |-> <<guards[i].host, guards[i].checkee>>]
<1>1. guards \in Seq([host : Func, checkee : Func]) /\ n \in Nat
  BY GuardTypes, LenProperties
<1>2. \A i \in 1..n : guards[i] \in [host : Func, checkee : Func]
  BY <1>1, ElementOfSeq
<1>3. \A i \in 1..n : guards[i] = [host |-> guards[i].host, checkee |-> guards[i].checkee]
  BY <1>2
<1>4. \A i, j \in 1..n : pair[i] = pair[j] => i = j
  <2> SUFFICES ASSUME NEW i \in 1..n, NEW j \in 1..n, pair[i] = pair[j]
               PROVE  guards[i] = guards[j]
    OBVIOUS
  <2>1. guards[i].host = guards[j].host /\ guards[i].checkee = guards[j].checkee
    OBVIOUS
  <2> QED
    BY <1>3, <2>1
<1>5. pair \in [1..n -> PairsInjected] /\ \A p \in PairsInjected : \E i \in 1..n : pair[i] = p
  BY DEF PairsInjected
<1> HIDE DEF pair, n
<1>6. pair \in Bijection(1..n, PairsInjected)
  BY <1>4, <1>5 DEF Bijection, Injection, Surjection, IsInjective
<1>7. ExistsBijection(1..n, PairsInjected)
  BY <1>6, Zenon DEF ExistsBijection
<1>8. n \in Nat
  BY <1>1 DEF n
<1>9. Cardinality(PairsInjected) = n
  BY <1>7, <1>8, FS_CountingElements
<1> QED
  BY <1>9 DEF n

(* In a run that has ended well, the guards are the pairs of the map.      *)
LEMMA InjectedIsMap ==
  ASSUME IInv, CInv, stage = "done"
  PROVE  /\ RangeOf(topologicalSortFuncs) \subseteq Func
         /\ \A c, f \in Func : <<c, f>> \in PairsInjected <=> f \in RangeOf(checkerFuncMap[c])
         /\ PairsInjected \subseteq Func \X Func
         /\ \A c \in Func : NoFunc \notin RangeOf(checkerFuncMap[c])
<1> DEFINE order == topologicalSortFuncs
           map == checkerFuncMap
<1>1. /\ PlacedAt(guards, order, map, turn, slot) /\ GuardedAt(guards, order, map, turn, slot)
      /\ NamedOnce(map, order) /\ turn > Len(order)
  BY DEF CInv, Placed, Guarded, Once, Loops
<1>2. /\ order \in Seq(Pointer) /\ Len(order) \in Nat /\ turn \in Nat
      /\ guards \in Seq([host : Func, checkee : Func])
  BY GuardTypes, LenProperties DEF IInv, TypeOK
<1> HIDE DEF order, map
<1>3. \A k \in 1..Len(order) : k < turn
  BY <1>1, <1>2
<1>4. RangeOf(order) \subseteq Func
  BY <1>1, <1>3 DEF GuardedAt, RangeOf
<1>5. \A i \in 1..Len(guards) : guards[i].host \in Func /\ guards[i].checkee \in Func
  <2> SUFFICES ASSUME NEW i \in 1..Len(guards)
               PROVE  guards[i].host \in Func /\ guards[i].checkee \in Func
    OBVIOUS
  <2>1. guards[i] \in [host : Func, checkee : Func]
    BY <1>2, ElementOfSeq
  <2> QED
    BY <2>1
<1>6. PairsInjected \subseteq Func \X Func
  BY <1>5 DEF PairsInjected
<1>7. ASSUME NEW i \in 1..Len(guards)
      PROVE  guards[i].checkee \in RangeOf(map[guards[i].host])
  BY DEF IInv, Injected, map
<1>8. ASSUME NEW c \in Func, NEW m \in 1..Len(map[c])
      PROVE  /\ map[c][m] # NoFunc
             /\ \E i \in 1..Len(guards) : guards[i].host = c /\ guards[i].checkee = map[c][m]
  <2>1. map[c] # <<>>
    BY EmptySeq
  <2>2. PICK k \in 1..Len(order) : order[k] = c
    BY <1>1, <2>1 DEF NamedOnce, RangeOf
  <2>3. m \in 1..Len(map[order[k]]) /\ HadTurn(turn, slot, k, m)
    BY <1>3, <2>2 DEF HadTurn
  <2>4. /\ map[order[k]][m] # NoFunc
        /\ \E i \in 1..Len(guards) : guards[i] = GuardOf(order, map, k, m)
    BY <1>1, <2>3 DEF GuardedAt
  <2> QED
    BY <2>2, <2>4 DEF GuardOf
<1>9. ASSUME NEW c \in Func, NEW f \in Func
      PROVE  <<c, f>> \in PairsInjected <=> f \in RangeOf(map[c])
  <2>1. ASSUME <<c, f>> \in PairsInjected
        PROVE  f \in RangeOf(map[c])
    <3>1. PICK i \in 1..Len(guards) : <<c, f>> = <<guards[i].host, guards[i].checkee>>
      BY <2>1 DEF PairsInjected
    <3> QED
      BY <1>7, <3>1
  <2>2. ASSUME f \in RangeOf(map[c])
        PROVE  <<c, f>> \in PairsInjected
    <3>1. PICK m \in 1..Len(map[c]) : map[c][m] = f
      BY <2>2 DEF RangeOf
    <3>2. PICK i \in 1..Len(guards) : guards[i].host = c /\ guards[i].checkee = f
      BY <1>8, <3>1
    <3> QED
      BY <3>2 DEF PairsInjected
  <2> QED
    BY <2>1, <2>2
<1>10. \A c \in Func : NoFunc \notin RangeOf(map[c])
  BY <1>8 DEF RangeOf
<1> QED
  BY <1>4, <1>6, <1>9, <1>10 DEF order, map

(* The map is the network of the run, in the end.                          *)
LEMMA MapIsNetwork ==
  ASSUME IInv, CInv, stage = "done", NEW c \in Func, NEW f \in Func
  PROVE  f \in RangeOf(checkerFuncMap[c]) <=> <<c, f>> \in NetworkOfRun
<1>1. CASE ~option.load
  BY <1>1 DEF CInv, SameNetwork, NetworkOfRun, Pairs
<1>2. CASE option.load /\ networkFile = NoFile
  BY <1>2, EmptyRange DEF CInv, SameNetwork, NetworkOfRun
<1>3. CASE option.load /\ networkFile # NoFile
  <2>1. SameCheckees(checkerFuncMap, networkFile, c)
    <3>1. NoFunc \notin RangeOf(topologicalSortFuncs)
      BY InjectedIsMap, FuncAssumption
    <3> QED
      BY <1>3, <3>1 DEF CInv, SameNetwork
  <2>2. \A m \in 1..Len(checkerFuncMap[c]) : checkerFuncMap[c][m] # NoFunc
    BY InjectedIsMap DEF RangeOf
  <2>3. RangeOf(checkerFuncMap[c]) = RangeOf(networkFile.map[c])
    BY <2>1, <2>2 DEF SameCheckees, RangeOf
  <2> QED
    BY <1>3, <2>3 DEF NetworkOfRun, Pairs
<1> QED
  BY <1>1, <1>2, <1>3

(* The guards of a run that has ended well are the pairs of its network,   *)
(* each once: those of the network it has constructed, or those of the     *)
(* network that was dumped by an earlier run.                              *)
THEOREM NoneLost == Spec => []NoGuardLost
<1>1. IInv /\ CInv => NoGuardLost
  <2> SUFFICES ASSUME IInv, CInv, stage = "done"
               PROVE  Len(guards) = Cardinality(NetworkOfRun) /\ PairsInjected = NetworkOfRun
    BY DEF NoGuardLost, PairsInjected
  <2>1. NetworkOfRun \subseteq Func \X Func
    BY DEF NetworkOfRun, Pairs
  <2>2. PairsInjected = NetworkOfRun
    <3>1. PairsInjected \subseteq Func \X Func
      BY InjectedIsMap
    <3>2. \A c, f \in Func : <<c, f>> \in PairsInjected <=> f \in RangeOf(checkerFuncMap[c])
      BY InjectedIsMap
    <3>3. \A c, f \in Func : f \in RangeOf(checkerFuncMap[c]) <=> <<c, f>> \in NetworkOfRun
      BY MapIsNetwork
    <3>4. \A c, f \in Func : <<c, f>> \in PairsInjected <=> <<c, f>> \in NetworkOfRun
      BY <3>2, <3>3
    <3> QED
      BY <2>1, <3>1, <3>4
  <2>3. Len(guards) = Cardinality(PairsInjected)
    BY CountingGuards DEF IInv, CInv, Placed, PlacedAt
  <2> QED
    BY <2>2, <2>3
<1> QED
  BY <1>1, CompleteInvariance, PTL
=============================================================================
