------------------------------- MODULE SCPass -------------------------------
(***************************************************************************)
(* The transformation pass: SCPass::runOnModule.  It splits the functions  *)
(* of the LLVM module into sensitive ones and others, obtains a network of *)
(* checkers, by construction or from a file an earlier run dumped, and     *)
(* injects one guard for each pair of a checker and a checkee.             *)
(*                                                                         *)
(* The pass may run again over a module with other functions and other     *)
(* options; only the network file outlives a run.  The calls of            *)
(* DAGCheckersNetwork are the actions of its module.                       *)
(***************************************************************************)
EXTENDS Integers, Sequences, FiniteSets, Functions, Descent

CONSTANTS Func,         \* names of functions, guardMe left out
          Kind,         \* what the analysis may say of one
          NoFunc,       \* the null pointer getFunction gives for an unknown name
          Options,      \* combinations of options a run may be given
          NoFile,       \* the state of a network file that does not exist
          MaxRuns       \* bound on the number of runs

ASSUME FuncAssumption == IsFiniteSet(Func) /\ NoFunc \notin Func
ASSUME KindAssumption == Kind \subseteq {"skipped", "plain", "extracted"}
ASSUME BoundAssumption == MaxRuns \in Nat \ {0}
ASSUME FileAssumption == NoFile \notin [map : [Func -> Seq(Func)], order : Seq(Func)]
ASSUME OptionsAssumption ==
  Options \subseteq [extractedOnly : BOOLEAN, sensitiveOnlyChecked : BOOLEAN,
                     useOtherFunctions : BOOLEAN, connectivity : Int,
                     load : BOOLEAN, dump : BOOLEAN, stat : BOOLEAN]

VARIABLES
  run,                  \* runs begun so far
  stage,                \* how far the current run has come
  option,               \* its options
  present,              \* functions of the module it is run on
  declared,             \* functions it declares only, their bodies elsewhere
  kind,                 \* what input_dependency_info says of each function
  filter,               \* functions of function_filter_info
  listing,              \* of the filter file, until it is used: was one of its
                        \* names found nowhere, did one stand for two functions
  networkFile,          \* the file of -dump- and -load-checkers-network

  sensitiveFunctions,   \* after the shuffle
  otherFunctions,       \* only its members matter
  checkerFuncMap,       \* checker -> checkees, <<>> where there is no entry
  topologicalSortFuncs,

  turn,                 \* place in topologicalSortFuncs of the current host
  slot,                 \* place among its checkees
  guards,               \* guards injected: host, checkee; in step with guide.txt
  marked,               \* functions of FunctionMarkerPass
  markedCount,          \* marked_function_count
  protectedFuncs        \* ProtectedFuncs: sensitive function -> its guards

(* The state of checkerNetwork, a local object.                            *)
VARIABLES phase, acceptLower, sensitive, checkers, connectivity, pos, available,
          checkeeChecker, pending, checkerCheckee, visited, stack, cursor, list

inputVars     == <<run, option, present, declared, kind, filter, listing>>
rosterVars    == <<sensitiveFunctions, otherFunctions>>
resultVars    == <<checkerFuncMap, topologicalSortFuncs>>
injectVars    == <<turn, slot, guards, marked, markedCount, protectedFuncs>>
networkObject == <<phase, acceptLower, sensitive, checkers, connectivity, pos,
                   available, checkeeChecker, pending, checkerCheckee, visited,
                   stack, cursor, list>>
vars == <<stage, networkFile, inputVars, rosterVars, resultVars, injectVars,
          networkObject>>

-----------------------------------------------------------------------------
(* The option value 0 stands for the default.                              *)
Desired(n) == IF n = 0 THEN 2 ELSE n

Network == INSTANCE DAGCheckersNetwork WITH
             Connectivities <- {Desired(o.connectivity) : o \in Options}

RangeOf(s) == {s[i] : i \in 1..Len(s)}
Pointer    == Func \cup {NoFunc}
Permutation(S) ==
  {s \in [1..Cardinality(S) -> S] : \A i, j \in DOMAIN s : i # j => s[i] # s[j]}

InModule == present \cup declared

(* Mutant of Lookup: only the functions of the filter are looked up.        *)
LookupFiltered(name) ==
  IF name \in InModule /\ (filter # {} => name \in filter) THEN name ELSE NoFunc

(* module.getFunction                                                      *)
Lookup(name) == IF name \in InModule THEN name ELSE NoFunc

-----------------------------------------------------------------------------
Unlisted == [unfound |-> FALSE, ambiguous |-> FALSE]

(* Mutant of Init: the first host is looked for one place early.            *)
InitBeforeFirst ==
  /\ run = 1 /\ stage = "start" /\ networkFile = NoFile
  /\ present = Func /\ declared = {}
  /\ option \in Options /\ kind \in [Func -> Kind] /\ filter = {} /\ listing = Unlisted
  /\ sensitiveFunctions = <<>> /\ otherFunctions = {}
  /\ checkerFuncMap = [p \in Pointer |-> <<>>] /\ topologicalSortFuncs = <<>>
  /\ turn = 0 /\ slot = 1 /\ guards = <<>>
  /\ marked = {} /\ markedCount = 0 /\ protectedFuncs = [f \in Func |-> 0]
  /\ Network!Init

Init ==
  /\ run = 1 /\ stage = "start" /\ networkFile = NoFile
  /\ present = Func /\ declared = {}
  /\ option \in Options /\ kind \in [Func -> Kind] /\ filter = {} /\ listing = Unlisted
  /\ sensitiveFunctions = <<>> /\ otherFunctions = {}
  /\ checkerFuncMap = [p \in Pointer |-> <<>>] /\ topologicalSortFuncs = <<>>
  /\ turn = 1 /\ slot = 1 /\ guards = <<>>
  /\ marked = {} /\ markedCount = 0 /\ protectedFuncs = [f \in Func |-> 0]
  /\ Network!Init

-----------------------------------------------------------------------------
(* FunctionFilterPass runs first.  A word of its file may be the mangled   *)
(* name of a function, the demangled one, which several functions may      *)
(* share, or neither; an empty file has the empty word.                    *)
Word == {"mangled", "demangled"} \X Func
Named(f, w, demangled) == w = <<"mangled", f>> \/ w = <<"demangled", demangled[f]>>

(* Mutant of Refuses: only a file that finds nothing is an error.           *)
RefusesNone(found, words) == found = {} /\ words # {}

Refuses(found, words) == Cardinality(found) # Cardinality(words)

(* What loadFile does with the words of a file and the functions P; no     *)
(* words stand for no file.                                                *)
LoadFile(P, words, demangled) ==
  LET found == {f \in P : \E w \in words : Named(f, w, demangled)}
  IN  [searched |-> P, found |-> found, refused |-> Refuses(found, words),
       unfound   |-> \E w \in words : \A f \in P : ~Named(f, w, demangled),
       ambiguous |-> \E w \in words : \E f, g \in P :
                       f # g /\ Named(f, w, demangled) /\ Named(g, w, demangled)]
Loaded == {LoadFile(i[1], i[2], i[3]) :
             i \in (SUBSET Func) \X (SUBSET Word) \X [Func -> Func]}

FilterFunctions ==
  /\ stage = "start"
  /\ \E file \in Loaded :
       /\ file.searched = InModule
       /\ filter' = file.found
       /\ listing' = [unfound |-> file.unfound, ambiguous |-> file.ambiguous]
       /\ stage' = IF file.refused THEN "exit" ELSE "filtered"
  /\ UNCHANGED <<run, option, present, declared, kind, networkFile, rosterVars, resultVars,
                 injectVars, networkObject>>

-----------------------------------------------------------------------------
(* The loop over the functions of the module.                              *)
Analysed == {f \in present : kind[f] # "skipped"}

(* FunctionInformation::is_function                                        *)
IsFunction(functions, f) == functions # {} /\ f # NoFunc /\ f \in functions

IsSensitive(f) ==
  /\ option.extractedOnly => kind[f] = "extracted"
  /\ filter # {} => IsFunction(filter, f)

(* Mutant of GoesToOthers: UseOtherFunctions is not asked for.              *)
AllGoToOthers(f) ==
  \/ option.extractedOnly /\ kind[f] # "extracted"
  \/ ~option.extractedOnly /\ ~IsSensitive(f)

GoesToOthers(f) ==
  \/ option.extractedOnly /\ kind[f] # "extracted"
  \/ ~option.extractedOnly /\ option.useOtherFunctions /\ ~IsSensitive(f)

Others        == {f \in Analysed : GoesToOthers(f)}
SensitiveOnes == {f \in Analysed : IsSensitive(f) /\ ~GoesToOthers(f)}

Classify ==
  /\ stage = "filtered"
  /\ stage' = "classified"
  /\ sensitiveFunctions' \in Permutation(SensitiveOnes)
  /\ otherFunctions' = Others
  /\ Network!SetLowerConnectivityAcceptance(TRUE)
  /\ listing' = Unlisted
  /\ UNCHANGED <<run, option, present, declared, kind, filter, networkFile, resultVars, injectVars>>

-----------------------------------------------------------------------------
(* The network of checkers                                                 *)

(* The sensitive functions may check too unless an option forbids it.      *)
Candidates ==
  IF ~option.sensitiveOnlyChecked /\ ~option.extractedOnly
  THEN otherFunctions \cup RangeOf(sensitiveFunctions)
  ELSE otherFunctions

CallConstruct ==
  /\ stage = "classified" /\ ~option.load
  /\ stage' = "constructing"
  /\ Network!ConstructProtectionNetwork(sensitiveFunctions, Candidates,
                                        Desired(option.connectivity))
  /\ UNCHANGED <<networkFile, inputVars, rosterVars, resultVars, injectVars>>

NetworkStep ==
  /\ stage = "constructing"
  /\ Network!Construct \/ Network!GetReverseTopologicalSort \/ Network!Sort
  /\ UNCHANGED <<stage, networkFile, inputVars, rosterVars, resultVars, injectVars>>

(* assert_sensitive_only_checked_condition has no return statement: where  *)
(* it does not exit, the build may go on or trap.                          *)
AssertSensitiveOnlyChecked(map) ==
  IF option.sensitiveOnlyChecked \/ option.extractedOnly
  THEN IF \E f \in RangeOf(sensitiveFunctions) : map[f] # <<>>
       THEN {"exit"} ELSE {"built", "crash"}
  ELSE {"built"}

NetworkReturns ==
  /\ stage = "constructing" /\ phase = "done"
  /\ checkerFuncMap' = [p \in Pointer |-> IF p = NoFunc THEN <<>> ELSE checkerCheckee[p]]
  /\ topologicalSortFuncs' = list
  /\ stage' \in AssertSensitiveOnlyChecked(checkerCheckee)
  /\ UNCHANGED <<networkFile, inputVars, rosterVars, injectVars, networkObject>>

(* loadJson: names of the file become pointers of this module, null where  *)
(* it has no such function.  A file that cannot be opened is an empty one. *)
(* Of two entries for the null pointer the later is kept.  (The first      *)
(* definition is the mutant that puts each checker in front.)              *)
LoadedOrderPushedFront ==
  IF networkFile = NoFile THEN <<>>
  ELSE LET n == Len(networkFile.order)
       IN  [i \in 1..n |-> Lookup(networkFile.order[n + 1 - i])]

LoadedOrder ==
  IF networkFile = NoFile THEN <<>>
  ELSE [i \in 1..Len(networkFile.order) |-> Lookup(networkFile.order[i])]
LoadedCheckees(name) ==
  [i \in 1..Len(networkFile.map[name]) |-> Lookup(networkFile.map[name][i])]
LoadedMap ==
  [p \in Pointer |->
     LET places == {i \in 1..Len(LoadedOrder) : LoadedOrder[i] = p}
         last   == CHOOSE i \in places : \A j \in places : j <= i
     IN  IF places = {} THEN <<>> ELSE LoadedCheckees(networkFile.order[last])]

LoadJson ==
  /\ stage = "classified" /\ option.load
  /\ topologicalSortFuncs' = LoadedOrder
  /\ checkerFuncMap' = LoadedMap
  /\ stage' = IF option.stat THEN "exit" ELSE "built"
  /\ UNCHANGED <<networkFile, inputVars, rosterVars, injectVars, networkObject>>

(* dumpJson skips a null checker, but asks every checkee of the others and *)
(* every function of the order for its name.                               *)
DumpCrashes ==
  \/ NoFunc \in RangeOf(topologicalSortFuncs)
  \/ \E c \in Func : NoFunc \in RangeOf(checkerFuncMap[c])

DumpJson ==
  /\ stage = "built"
  /\ IF ~option.dump
     THEN stage' = "inject" /\ UNCHANGED networkFile
     ELSE IF DumpCrashes
          THEN stage' = "crash" /\ UNCHANGED networkFile
          ELSE /\ stage' = "inject"
               /\ networkFile' = [map |-> [c \in Func |-> checkerFuncMap[c]],
                                  order |-> topologicalSortFuncs]
  /\ UNCHANGED <<inputVars, rosterVars, resultVars, injectVars, networkObject>>

-----------------------------------------------------------------------------
(* The injection of guards                                                 *)

Host == topologicalSortFuncs[turn]

(* injectGuard appends a line to guide.txt and a call of guardMe to the     *)
(* entry block of the host, with placeholders for its three arguments.     *)
GuardsWith(checkee) == Append(guards, [host |-> Host, checkee |-> checkee])

(* Mutant of InjectGuard: a checkee is noted as protected, not counted.     *)
InjectGuardUncounted ==
  /\ stage = "inject" /\ turn <= Len(topologicalSortFuncs)
  /\ slot <= Len(checkerFuncMap[Host])
  /\ LET checkee == checkerFuncMap[Host][slot]
     IN  /\ Host \in present /\ checkee # NoFunc
         /\ guards' = GuardsWith(checkee)
         /\ marked' = marked \cup {checkee}
         /\ protectedFuncs' = IF checkee \in RangeOf(sensitiveFunctions)
                              THEN [protectedFuncs EXCEPT ![checkee] = 1]
                              ELSE protectedFuncs
  /\ markedCount' = markedCount + 1
  /\ slot' = slot + 1
  /\ UNCHANGED <<stage, turn, networkFile, inputVars, rosterVars, resultVars, networkObject>>

(* One turn of the inner loop: a checkee may lack a body, but not a host.   *)
InjectGuard ==
  /\ stage = "inject" /\ turn <= Len(topologicalSortFuncs)
  /\ slot <= Len(checkerFuncMap[Host])
  /\ LET checkee == checkerFuncMap[Host][slot]
     IN  /\ Host \in present /\ checkee # NoFunc
         /\ guards' = GuardsWith(checkee)
         /\ marked' = marked \cup {checkee}
         /\ protectedFuncs' = IF checkee \in RangeOf(sensitiveFunctions)
                              THEN [protectedFuncs EXCEPT ![checkee] = @ + 1]
                              ELSE protectedFuncs
  /\ markedCount' = markedCount + 1
  /\ slot' = slot + 1
  /\ UNCHANGED <<stage, turn, networkFile, inputVars, rosterVars, resultVars, networkObject>>

(* A host must have an entry block: null has none, nor has a declaration.   *)
DereferenceNull ==
  /\ stage = "inject" /\ turn <= Len(topologicalSortFuncs)
  /\ \/ Host \notin present
     \/ /\ slot <= Len(checkerFuncMap[Host])
        /\ checkerFuncMap[Host][slot] = NoFunc
  /\ stage' = "crash"
  /\ UNCHANGED <<networkFile, inputVars, rosterVars, resultVars, injectVars, networkObject>>

(* Mutant of NextHost: the place among the checkees is kept.                *)
NextHostSameSlot ==
  /\ stage = "inject" /\ turn <= Len(topologicalSortFuncs)
  /\ Host \in present /\ slot > Len(checkerFuncMap[Host])
  /\ turn' = turn + 1 /\ UNCHANGED slot
  /\ UNCHANGED <<stage, guards, marked, markedCount, protectedFuncs, networkFile,
                 inputVars, rosterVars, resultVars, networkObject>>

NextHost ==
  /\ stage = "inject" /\ turn <= Len(topologicalSortFuncs)
  /\ Host \in present /\ slot > Len(checkerFuncMap[Host])
  /\ turn' = turn + 1 /\ slot' = 1
  /\ UNCHANGED <<stage, guards, marked, markedCount, protectedFuncs, networkFile,
                 inputVars, rosterVars, resultVars, networkObject>>

(* Mutant of Return: the exit that is commented out in line 343.            *)
ReturnOrExit ==
  /\ stage = "inject" /\ turn > Len(topologicalSortFuncs)
  /\ stage' = IF filter # {} /\ Cardinality(filter) # Cardinality(present)
              THEN "exit" ELSE "done"
  /\ UNCHANGED <<networkFile, inputVars, rosterVars, resultVars, injectVars, networkObject>>

(* The statistics are dumped and the pass returns.                         *)
Return ==
  /\ stage = "inject" /\ turn > Len(topologicalSortFuncs)
  /\ stage' = "done"
  /\ UNCHANGED <<networkFile, inputVars, rosterVars, resultVars, injectVars, networkObject>>

(* The constructor of DAGCheckersNetwork: Network!Init of the next state.   *)
NewNetworkObject ==
  /\ phase' = "idle" /\ acceptLower' = FALSE
  /\ sensitive' = <<>> /\ checkers' = {} /\ connectivity' = 1
  /\ pos' = 1 /\ available' = {}
  /\ checkeeChecker' = [f \in Func |-> {}] /\ pending' = {}
  /\ checkerCheckee' = [f \in Func |-> <<>>]
  /\ visited' = {} /\ stack' = <<>> /\ cursor' = [f \in Func |-> 0] /\ list' = <<>>

(* The tool is started again: on the same functions or some of them, with  *)
(* other options.  The pass starts from nothing but the network file.      *)
RunAgain ==
  /\ stage \in {"done", "exit", "crash"} /\ run < MaxRuns
  /\ run' = run + 1 /\ stage' = "start"
  /\ option' \in Options
  /\ present' \in SUBSET Func /\ declared' \in SUBSET (Func \ present')
  /\ filter' = {} /\ listing' = Unlisted
  /\ sensitiveFunctions' = <<>> /\ otherFunctions' = {}
  /\ checkerFuncMap' = [p \in Pointer |-> <<>>] /\ topologicalSortFuncs' = <<>>
  /\ turn' = 1 /\ slot' = 1 /\ guards' = <<>>
  /\ marked' = {} /\ markedCount' = 0 /\ protectedFuncs' = [f \in Func |-> 0]
  /\ NewNetworkObject
  /\ UNCHANGED <<networkFile, kind>>

Pass ==
  \/ FilterFunctions \/ Classify
  \/ CallConstruct \/ NetworkStep \/ NetworkReturns
  \/ LoadJson
  \/ DumpJson
  \/ InjectGuard \/ DereferenceNull \/ NextHost
  \/ Return

Next == Pass \/ RunAgain

Spec == Init /\ [][Next]_vars

(* opt runs the pass in one thread, without waiting for anything.          *)
FairSpec == Spec /\ WF_vars(Pass)

-----------------------------------------------------------------------------
TypeOK ==
  /\ run \in 1..MaxRuns
  /\ stage \in {"start", "filtered", "classified", "constructing", "built", "inject", "done",
                "exit", "crash"}
  /\ option \in Options
  /\ present \subseteq Func /\ declared \subseteq Func \ present /\ filter \subseteq InModule
  /\ kind \in [Func -> Kind] /\ listing \in [unfound : BOOLEAN, ambiguous : BOOLEAN]
  /\ networkFile # NoFile => /\ networkFile.map \in [Func -> Seq(Func)]
                             /\ networkFile.order \in Seq(Func)
  /\ sensitiveFunctions \in Seq(present) /\ otherFunctions \subseteq present
  /\ checkerFuncMap \in [Pointer -> Seq(Pointer)]
  /\ topologicalSortFuncs \in Seq(Pointer)
  /\ turn \in 1..(Len(topologicalSortFuncs) + 1) /\ slot \in Nat \ {0}
  /\ guards \in Seq([host : present, checkee : InModule])
  /\ marked \subseteq InModule /\ markedCount \in Nat
  /\ protectedFuncs \in [Func -> Nat]

Hosts     == {guards[i].host : i \in 1..Len(guards)}
Checkees  == {guards[i].checkee : i \in 1..Len(guards)}
Sensitive == RangeOf(sensitiveFunctions)

(* FunctionFilterPass compares two counts.  That a pass goes on means that *)
(* each name of the file was found, unless a name that stands for two      *)
(* functions has made up for one that is lost.                             *)
FilterNamesFound == stage = "filtered" /\ listing.unfound => listing.ambiguous

(* The descriptions of the options (SC.cpp:25-36) hold of every network a  *)
(* run constructs: sensitive functions are never checkers when the option  *)
(* says so, extracted functions only are checked, and never check, when    *)
(* that is asked for; a filter decides what is checked, and who checks     *)
(* unless other functions may be used.                                     *)
OptionsHonoured ==
  ~option.load =>
    /\ option.sensitiveOnlyChecked => Hosts \cap Sensitive = {}
    /\ option.extractedOnly =>
         /\ \A f \in Checkees : kind[f] = "extracted"
         /\ \A c \in Hosts : kind[c] # "extracted"
    /\ filter # {} =>
         /\ Checkees \subseteq filter
         /\ option.useOtherFunctions \/ option.extractedOnly \/ Hosts \subseteq filter

(* The pairs of the network this run is to inject: the one constructed, or *)
(* the one an earlier run has dumped.                                      *)
Pairs(map) == {p \in Func \X Func : p[2] \in RangeOf(map[p[1]])}
NetworkOfRun ==
  IF ~option.load THEN Pairs(checkerCheckee)
  ELSE IF networkFile = NoFile THEN {} ELSE Pairs(networkFile.map)

(* A run that ends well has injected each pair of its network once, also   *)
(* when the network has been through the file.  The order handed over with *)
(* the map decides which entries are injected and loaded: a checker it     *)
(* leaves out would silently lose its guards.                              *)
NoGuardLost ==
  stage = "done" =>
    /\ Len(guards) = Cardinality(NetworkOfRun)
    /\ {<<guards[i].host, guards[i].checkee>> : i \in 1..Len(guards)} = NetworkOfRun

(* A function receives all its own guards before any guard on it does: the *)
(* patcher walks guide.txt in this order, and a hash it has computed must  *)
(* not be of code that a later line changes.                               *)
GuardsBottomUp ==
  \A i, j \in 1..Len(guards) : guards[i].checkee = guards[j].host => j < i

(* What Stats::dumpJson writes, the average as a fraction: it is 0/0, null *)
(* in the file, where the denominator is 0.                                *)
Stats ==
  [numberOfGuards |-> Len(guards),
   avgConnectivity |-> <<FoldFunctionOnSet(+, 0, protectedFuncs, Sensitive),
                         Cardinality(Sensitive)>>]

(* The connectivity in the statistics is that of the injected guards: only *)
(* sensitive functions are checked, each counts its guards, the average    *)
(* is over all guards, and there is one as soon as there is a guard.       *)
StatsCountGuards ==
  stage = "done" /\ option.stat =>
    /\ Stats.avgConnectivity[1] = Stats.numberOfGuards
    /\ Stats.numberOfGuards > 0 => Stats.avgConnectivity[2] > 0
    /\ Checkees \subseteq Sensitive
    /\ \A f \in Sensitive :
         protectedFuncs[f] = Cardinality({i \in 1..Len(guards) : guards[i].checkee = f})

(* A run that is refused is refused before its first guard, so that it     *)
(* leaves nothing behind in guide.txt.                                     *)
RefusedBeforeGuards == stage = "exit" => guards = <<>> /\ marked = {}

(* A loaded network brings a run down only when the module has lost one of *)
(* the functions the file names, or its body: whatever was dumped can be loaded again   *)
(* over the same functions, also with another filter or other options.     *)
FileNames ==
  IF networkFile = NoFile THEN {}
  ELSE RangeOf(networkFile.order) \cup UNION {RangeOf(networkFile.map[c]) : c \in Func}
CrashOnlyOnLostName ==
  stage = "crash" /\ option.load => ~(FileNames \subseteq present)

(* "Sensitive functions are only checked and never used as checkers"       *)
(* (SC.cpp:31), whatever the network comes from.                           *)
SensitiveNeverCheck == option.sensitiveOnlyChecked => Hosts \cap Sensitive = {}

(* "Marked functions ... are not reflected correctly" (SC.cpp:333): the    *)
(* error is for functions marked but missing from FunctionMarkerPass.      *)
MarkedErrorMeansLoss ==
  stage = "done" /\ markedCount # Cardinality(marked) => ~(Checkees \subseteq marked)

(* A construction the pass has called ends with a sorted network, whatever *)
(* level its candidates leave: never with the exit of the strict mode, and *)
(* no search goes on for ever.                                             *)
NetworkTerminates == phase = "select" ~> phase = "done"

(* Each run ends done or refused, unless the network it loads names a      *)
(* function the module has lost, or the one without a return statement was *)
(* called: no other run is brought down by a null pointer, however far the *)
(* network is behind its module, filter or options.                        *)
MayCrash ==
  IF option.load THEN ~(FileNames \subseteq present)
  ELSE option.sensitiveOnlyChecked \/ option.extractedOnly
PassEnds ==
  \A r \in 1..MaxRuns :
    run = r /\ stage = "start" /\ ~MayCrash ~> run = r /\ stage \in {"done", "exit"}

(* What a run has ahead: stages, and within one the loops of the network   *)
(* or the hosts and the checkees still without their guards.               *)
StagesAhead ==
  CASE stage = "start" -> 6 [] stage = "filtered" -> 5 [] stage = "classified" -> 4
    [] stage = "constructing" -> 3 [] stage = "built" -> 2 [] stage = "inject" -> 1
    [] OTHER -> 0
Ahead ==
  CASE stage = "constructing" ->
         <<StagesAhead, Network!LoopsAhead, Network!TurnsAhead, Len(stack),
           Network!CheckeesAhead>>
    [] stage = "inject" ->
         <<StagesAhead, Len(topologicalSortFuncs) + 1 - turn,
           IF turn > Len(topologicalSortFuncs) THEN 0 ELSE Len(checkerFuncMap[Host]) + 1 - slot,
           0, 0>>
    [] OTHER -> <<StagesAhead, 0, 0, 0, 0>>

(* Each step of the pass brings its run nearer to the end, those within    *)
(* the network included.                                                   *)
RunsShorten == [][Pass => Nearer(Ahead', Ahead)]_vars
=============================================================================
