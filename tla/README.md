# A verification development of self-checksumming

self-checksumming protects a program against changes of its code. An LLVM pass
injects *guards* into some functions; at run time a guard hashes the code of
another function and compares the hash with one that was stored in the binary
after compilation. This directory holds TLA+ models of the parts of the tool
chain where something can go wrong that a test would hardly reach, TLC
configurations that check them on small instances, and proofs for TLAPS.

## 1. The system

    program.bc --> SCPass ----------------> out.bc --> compiler --> out --> dump_pipe.py --> out
                    |  ^                                                        ^
                    |  '-- DAGCheckersNetwork <--> network file                 |
                    '------------------> guide.txt -----------------------------'
                                                               at run time: guardMe

| Component | State | Operations | What makes it correct |
|---|---|---|---|
| `DAGCheckersNetwork` (src/DAGCheckersNetwork.cpp) | `accept_lower_connectivity`; within a call: two maps, candidates, the marks and the calls of a depth-first search | `setLowerConnectivityAcceptance`, `constructProtectionNetwork`, `getReverseTopologicalSort`, `loadJson`, `dumpJson` | no cycle of checks, the connectivity asked for, leaves first, every checker once |
| `SCPass` (src/SC.cpp) | sensitive and other functions, network and order, guards, marks, statistics; the network file and guide.txt outside | `runOnModule`, `injectGuard` | options are honoured, each pair of the network becomes one guard, hosts are complete before they are checked, nothing is left behind by a refused run |
| `dump_pipe.py` (patcher/) | the binary as a shared map, placeholder addresses, counts | read guide, resolve names, find, patch, hash, dump | hashes are of the final code, all or nothing when refused, success means complete |
| `guardMe` (rtlib.c) | none | compare XOR of a range with a byte | alarms exactly when the code was changed |
| `FunctionFilterPass` (FunctionFilter.cpp) | the filter, a set of functions | read a file of names, mangled or not; compare two counts; exit | a pass that goes on has found every name |
| `FunctionMarkerPass`, `FunctionInformation` | a set of functions each | add, ask, cleared by each run | the set holds what was marked or named |
| `Stats` | counters | set, add, mean and deviation, dump | the counts are those of the guards |
| run scripts (run-*.sh) | files that stay from script to script | clean, transform, link, compile, patch; look at the status of some tools | no step works on files of another run without the user being told |
| hooks (hook/) | a file of recorded characters, a static `FILE *` | `getchar` recorded, replayed | replay returns what was recorded |
| `CheckersNetwork`, `AcyclicGrpahGen.cpp` | a graph of numbers, kept from call to call; a map on functions | the earlier construction in ranks, mapping, sort | as `DAGCheckersNetwork` |
| `SCPatchPass`, `PatchManifest` | three maps read from the dump of the patcher | replace constants in stores with a tag | no instruction carries the tag now |
| `AssertFunctionMarkPass`, `DAGtester.cpp` | | | in no library of CMakeLists.txt; calls a function that does not exist |

How they interact: the pass calls the network class and hands the order and the
map on by value; pass and patcher share only guide.txt and the placeholder
constants in the binary; two runs of the pass share only the network file; two
runs of the patcher share only the binary. Nothing in the repository is
multi-threaded but the hooks (by way of the hooked program), so the hard
behaviour is order, partial failure, kills, reruns and files that outlive the
run that wrote them. `PROJECT.json` lists these hazards line by line.

The order matters because of the hash: if `a` checks `b` and `b` checks `c`,
the three words of the guard in `b` are part of what `a` hashes. They have to
be final before that hash is taken, so guards have to be patched from the
leaves up and the network must have no cycle. The promise is kept in four
places, each of which has its model:

    constructProtectionNetwork   no cycle                    NoCheckingCycle
    getReverseTopologicalSort    a checker after its checkees CheckeesFirst
    injection loop, guide.txt    host complete before checked GuardsBottomUp
    dump_pipe.py                 hash of final code           AlarmsExactlyOnChange

## 2. The modules

**CheckerGraph** is an abstract specification: a growing acyclic graph of
checks, in which a function is given its checkers (`Protect`) or its checkees
(`Employ`), then an order of the checkers in which each comes after the
checkers it checks (`Schedule`). Both networks, the present and the earlier
one, implement it.

**DAGCheckersNetwork** is the class. `phase` says which loop of which call
runs; the actions are one turn of a loop each:

| Action | Code |
|---|---|
| `SetLowerConnectivityAcceptance` | the setter |
| `ConstructProtectionNetwork` | the call, with the copies of its arguments |
| `SelectCheckers`, `EndSelection` | the loop over the sensitive functions, with the erase, the break and `randomComb` |
| `InvertEntry`, `RejectLevel`, `ReturnNetwork` | the loop over `checkeeChecker` with the comparison of the level and the exit |
| `GetReverseTopologicalSort`, `SortFrom`, `ReturnSort` | the call and its loop over all functions |
| `VisitCheckee`, `ListFunction` | the loop and the end of `topologicalSortUtil`; `stack` and `cursor` are its call stack |

Maps keyed by pointers are iterated in any order. `randomComb` picks any subset
of its size (its generator has a fixed seed; the addresses and the shuffle make
up for it, and no caller relies on the choice). Vectors of which only the
members matter are sets.

**SCPass** is `runOnModule`, composed with the class by
`Network == INSTANCE DAGCheckersNetwork`: the steps of the class are steps of
the pass while it waits for the call. The input (module, analysis result,
filter, options) is arbitrary. `FilterFunctions` is FunctionFilterPass: a word
of its file is the mangled name of a function, a demangled one, which several
functions may share, or none; the file is taken or refused by comparing two
counts, as the code does. `declared` are functions of the module without a
body: `getFunction` finds them, they may be guarded, but no guard can be put
into them. After a run another may follow, on a module that
lacks functions and with other options; only the network file stays, and
guide.txt does not because every script removes it first. Files hold names and
the pass holds pointers: `loadJson` goes through `Lookup`, which gives null for
a lost name, and dereferencing null ends the run in `"crash"`. Falling off the
end of `assert_sensitive_only_checked_condition` is a choice between going on
and a trap.

**DumpPipe** is the patcher as a process that writes one word at a time, can be
killed between two writes (`Kill`) and started again on what it left
(`RunAgain`). `guide` is any list the pass can have written (the assumption
`BottomUp` is the property `GuardsBottomUp` of SCPass). A word is a set of
symbols and XOR is the symmetric difference, so that a hash is equal to another
exactly if the bytes are, up to collisions; two copies of a word cancel, as
they do in the code. What radare2 answers is an input for each name: the
function, one of another name (the line becomes a *dummy*), nothing, or an
address of more than 32 bits, which `struct.pack` refuses with an exception
where it is to be written, or before. The stats that may be given as a fourth
argument are an input of their own (`numberOfGuards`): stale ones that count no
guards end the run in success over a binary that has not been opened, which is
why `DoneMeansComplete` asks for stats of the same execution as the guide. (No
script of the repository passes the argument.)
`GuardMe` is the function of rtlib.c over the same words. That radare2 reads
what the patcher has written through the shared map is assumed; the patcher
relies on it.

**GuardedBinary** is the abstract specification of what the patcher delivers:
a binary is raw, torn or complete, never complete and then incomplete, and in a
complete one alarms are exactly those of guards on changed functions. DumpPipe
implements it over all its runs and kills.

**LegacyNetwork** is the class CheckersNetwork: ranks of nodes drawn at random,
edges from every earlier node to some nodes of a rank, then the map on
functions and the sort. What the code leaves undefined is kept: a place behind
the end of `visited` leads to `"undefined"`, a node without a function to the
null pointer. A node stands for a function of its own; the map survives a call.

**Toolchain** has five scripts as sequences of tools. A tool works or fails (a
failing one may leave its file as it was or lose it), its status is looked at
(`Check`) or not (`Do`), and the user may stop a script and start another
one. Files say which execution of the pass they come from, because the
placeholders of two executions have the same numbers and so a guide fits a
binary it was not written for. SCPatchPass with its manifest is a step of
run-llvm-patch.sh; it changes nothing, since no store is tagged.

**GetcharHooks** is a program that calls `getchar` under one of the two hooks,
run after run. A recorded call is four steps: the file is opened
(`OpenRecord`), the terminal read (`ReadTerminal`), the number printed and the
file closed (`WriteOut`), the number returned (`ReturnRecorded`). A run may be
killed after each, so that the disk can be one number ahead of the program.
Nobody asks whether `fprintf` and `fclose` worked: `WriteOut` may also write
nothing, or a number cut short (`Torn`), which fscanf later reads together with
the next one (`Garbage`: any number). Numbers that were written whole are read
back as they are. Where the code leaves `getchar` without a return, or scans a
closed file, the value is arbitrary (`"nowhere"`) or the process crashes.
`recorded` and `lost` are history variables: what the program that made the
recording got to see, and whether a write of it has failed unnoticed; `from` in
`returned` says where a value is from. The properties promise that a recording
never has more than was seen, but for the one number of a killed call; that it
has all that was seen they can promise only while `lost` is false.

**Descent** has one definition, `Nearer`: a tuple of counts gets less where it
first changes. The three modules with loops in loops say with it that a call or
a run comes nearer to its end (`CallsShorten`, `RunsShorten`).

**MC...** modules give the small sets; **DAGCheckersNetworkProofs**,
**LegacyNetworkProofs**, **SCPassProofs**, **NoGuardLostProofs**,
**StatsProofs**, **DumpPipeProofs**, **GetcharHooksProofs** and
**ToolchainProofs** hold the proofs. Definitions
whose comment begins with "Mutant" are faulty variants of the definition they
stand before. No specification uses them; PROJECT.json says which property
fails when one takes the place of the right definition.

## 3. The runs

| Run | Question | Bounds |
|---|---|---|
| network | Is every network acyclic, with the right roles and connectivity, every sort complete and leaves first, does the class implement CheckerGraph, and does each step leave a call less to do? | 4 functions, any shuffle, any candidates a caller may give, levels -1, 1, 2 |
| network_strict | Does strict mode guarantee the level? *(fails)* | 3 functions, level 1 |
| pass | Do filter, options, guards, order, statistics and reload agree over two runs, and does each step bring a run nearer to its end? | 3 functions, 2 runs, 20 combinations of options, any filter file |
| pass_liveness | Does every run end well or with a refusal, unless it meets what the module has lost or the function without a return; does every construction and sort come back with its network? | 3 functions, 2 runs, two ways to construct a network and eight to load one, no function extracted |
| pass_loaded_roles | Does -sensitive-only-checked hold of loaded networks? *(fails)* | 2 functions, 2 runs |
| pass_marks | Does the error about marked functions mean a loss? *(fails)* | 3 functions, 1 run |
| patcher | Is every guard silent exactly on unchanged code, is success complete, does a refusal write nothing, and is GuardedBinary implemented? | every guide of up to 3 lines over 3 functions, 0 to 2 copies of each guard, 2 runs |
| patcher_totals | Does the failure message mean a failure? *(fails)* | 2 functions, 2 lines |
| patcher_dump | Does the dump show what was written? *(fails)* | 2 functions, 2 lines |
| hooks | Is the disk never more than one number ahead of the program, and behind only if a write failed; does a replay repeat what was seen, from one source, to the end? | 3 characters, 4 calls in each of 3 runs, killed or failing to write at any step, recordings of length 0 to 2 put in place |
| legacy | Does the earlier class end, reach its level, sort every checker, implement CheckerGraph, and leave less to do with each step? | up to 4 nodes, levels 1 to 3, up to 2 calls |
| toolchain | Does the patcher ever see lines of another execution of the pass; does a script without a failure protect its program; do the checks of run-sc-oh-eval.sh suffice? | 3 scripts of 5 kinds, up to 2 guards |

Why the bounds suffice. Three functions give a chain `a -> b -> c` together with
the shortcut `a -> c`, which is the smallest graph where a wrong order, a
function visited twice or a cycle through others can show; four give a diamond.
Level 2 with three candidates leaves a choice, with fewer it is clipped, and -1
is the value that a signed comparison would treat differently. Two runs of the
pass are what the network file connects; a third run would start from a file
that the second loaded and dumped unchanged. One kill and one rerun reach every
half patched binary and every start from it; two copies are enough for a word
to cancel against itself. Four
calls go past the end of a shorter recording, and past its closing; three runs
are one that records, one that overwrites or is killed, and one that replays.
Four nodes make three ranks, and two calls are the least in which the map has
entries of an earlier one. Three scripts are one that leaves files, one that
fails over them, and one that meets what both have left; two guards are the
least a guide can have too few or too many of. The liveness run of the pass has
fewer options and kinds to construct a network with, since they choose between
lists and not between loops, but a network of three functions, where the search
returns from a call to look at another checkee, and all ways to load one. Its
`PassEnds` leaves out (`MayCrash`) the runs that load a file with names the
module has lost, whose null pointers crash the program, and those that construct
a network and may fall off the end of a function; all others must not crash
either.
Deadlock is checked where the model goes on for ever (hooks), elsewhere the
modelled programs end. Symmetry is used over functions and
characters, in runs for invariants and safety refinements only, not where
liveness is checked: all constants given are symmetric in them.

Fairness is one weak fairness condition each on the steps of the program: on
`Pass` (`FairSpec` of SCPass) and on `Construct \/ Sort` (`FairSpec` of
LegacyNetwork); the specifications the theorems are about have none. The code runs in one thread, and after the call no step of it waits for anybody, so
a program that has begun is run on. Nothing is assumed of the caller, of a kill
or of a next run.

### What the failing runs show

Each of them checks a sentence of the repository that the code does not keep.

* **network_strict**: the comment "assure that the number of checkers is equal
  to the connectivity level" is about the entries of a map. A function from the
  `break` onwards has no entry, so it has no checkers and no complaint. (The
  pass always accepts lower connectivity.)
* **pass_loaded_roles**: the option "Sensitive functions are only checked and
  never used as checkers" is asserted of constructed networks only.
* **pass_marks**: "Marked functions ... are not reflected correctly" compares
  the number of guards with the number of functions, and is reported of every
  good run in which one function has two checkers.
* **patcher_totals**: "Failed to patch all expected patches" is reported of a
  binary with all placeholders patched if one of them occurs twice.
* **patcher_dump**: "all patches are dumped", but of a dummy line the size
  dumped is not the size written (0).

## 4. The proofs

Each theorem holds for every value of the constants that satisfies the named
assumptions of its modules; TLC evaluates these assumptions in the runs.

### The network (DAGCheckersNetworkProofs)

For every finite set of functions (`FuncAssumption`) and every set of levels
other than 0 (`ConnectivityAssumption`):

| Theorem | Statement |
|---|---|
| `TypeCorrect` | `Spec => []TypeOK` |
| `Invariance` | `Spec => []IInv` |
| `Acyclicity` | `Spec => []NoCheckingCycle` |
| `ListedCheckeesFirst` | `Spec => []CheckeesFirst` |
| `ListedOnce` | `Spec => []ListsEveryChecker` |
| `RolesKept` | `Spec => []RolesRespected` |
| `LevelsReached` | `Spec => []ConnectivityReached` |
| `Refinement` | `Spec => ImplementsGraph` |
| `Shortening` | `Spec => CallsShorten` |
| `AheadCounted` | `Spec => [](Ahead \in [1..4 -> Int])` |

The argument. Neither acyclicity nor the order is inductive. That the network
stays acyclic while edges are added needs the reason why it is: the function
taken k-th leaves the candidates for good, so a checker of the k-th sensitive
function is none of the first k. `Below(c, f)` says this of two functions and
is a strict order (`BelowIrreflexive`, `BelowTransitive`); `Selection` and
`Inversion` carry it from the candidates to the map that is returned. Any
non-empty finite set of functions has one that is below no other of the set
(`BelowHasMinimum`): it checks none of them, so the set is no cycle, which gives
`NoCheckingCycle`.

That the sort is right needs what the depth-first search is in the middle of:
the calls in progress are a chain of checks (`Chain`), each visited checker is
either listed or its call is in progress (`Visits`), and what a call has looked
at is listed except for the one it is waiting for (`Looked`). When a call meets
a visited checkee, that one is not in progress, for the chain would close to a
cycle: so it is listed. When the call ends, all its checkees are listed, which
is `CheckeesFirst` for the function it lists. The two halves need each other,
which is why `IInv` has both. `Refinement` maps `SelectCheckers` to `Protect`,
`ListFunction` to `Schedule` and all else to a stutter, under
`edges <- CheckedPairs` (the pairs in `checkeeChecker`) and `order <- list`.

`LevelsReached` rests on a second invariant. `PushedOnce`: an entry of
`checkeeChecker` is pushed when it leaves `pending`, and what is pending has
been pushed to nobody, so no checkee is in a list twice. `Levels`: the number of
checkers of the i-th function is `CombSize` of what its candidates were, which
are the candidates without the first i functions; after the break there are
none for any of the rest, since candidates only get fewer.

### The pass (SCPassProofs, NoGuardLostProofs, StatsProofs)

For every finite set of functions without the null pointer, any options, any
number of runs on any modules:

| Theorem | Statement |
|---|---|
| `PassTypeCorrect` | `Spec => []TypeOK`; a guard has a host with a body and a checkee of the module |
| `InjectedBottomUp` | `Spec => []GuardsBottomUp` |
| `RefusalInjectsNothing` | `Spec => []RefusedBeforeGuards` |
| `LoadingIsSafe` | `Spec => []CrashOnlyOnLostName` |
| `OptionsKept` | `Spec => []OptionsHonoured` |
| `NamesFound` | `Spec => []FilterNamesFound` |
| `NoneLost` | `Spec => []NoGuardLost` |
| `StatsTrue` | `Spec => []StatsCountGuards` |
| `RunsGetOn` | `Spec => RunsShorten` |
| `RunsCounted` | `Spec => [](Ahead \in [1..5 -> Int])` |

The class is not looked into again. `NetworkProofs` is an instance of its
proofs, with the levels the options ask for; its assumptions are proved first
(`NetworkAssumptions`). Each step of the pass in a call is a step of the class
(`NetworkSteps`), the calls hand over arguments the class is proved correct for
(`NetworkCalls`: the shuffle names each function once, and the sensitive
functions are candidates all or none), so the invariant of the class holds
inside the pass and `NetworkResult` reads off what is returned.

What is inductive of the order is `LeavesFirst`: a function of the module comes
in the order before those that check it. It holds of a sorted network; it
survives the dump, which writes names in the same places, and the load, which
turns some of them to null and moves none. `GuardsBottomUp` follows, as the
host of a new guard is the one whose turn it is and its checkee has had its
turn or is no host. `Found` is what makes loading safe: as long as the module
has every name of the file with its body, no null is in order or map, so
neither the dump nor the injection meets one.

For `NoGuardLost` (`CInv`), order and map name each checker and each of its
checkees once (`Once`, from `PushedOnce` of the class and kept by the file,
since two names never become one function); the map is the network of the run
but for names that were not found (`SameNetwork`); and guards and the places of
the network that have had their turn are in one-to-one correspondence
(`Placed`, `Guarded`). A run that ends well has met no null, so in the end the
map is the network, all places have had their turn, and the guards are counted
by a bijection. `NamesFound` is a pigeonhole: a word found nowhere leaves fewer
words than functions, unless a word stands for two.

`StatsTrue` compares two things the code counts apart: the map
`ProtectedFuncs`, summed up in the end, and the number of guards. `Counted` says
at every moment that the sum of the map is the number of guards and that the map
has for each sensitive function the guards on it. A guard on a function that is
not sensitive would break it, and there is none because the network of a run
with statistics is constructed (`EarlyCounts`: a run that loads one reports
none), whose checkees are sensitive. The sum is a fold over a set, hence a
recursive function. Its recursion is shown to have a solution by induction on
the size of the set (`SumsExist`, where the induction is over a set of numbers,
not over a formula); then the sum of zeros is 0 (`ZeroTotal`), and it grows by 1
if one place does, whichever element the fold takes first (`TotalGrows`).

### The earlier network (LegacyNetworkProofs)

For any bounds on nodes, totals and calls (`BoundAssumption`) and any levels
(`LevelAssumption`):

| Theorem | Statement |
|---|---|
| `TypeCorrect` | `Spec => []TypeOK` |
| `LevelKept` | `Spec => []LevelReached` |
| `SortComplete` | `Spec => []SortsAllCheckers` |
| `Refinement` | `Spec => ImplementsGraph` |
| `Shortening` | `Spec => CallsShorten` |
| `AheadCounted` | `Spec => [](Ahead \in [1..4 -> Int])` |

The argument is simpler than that of the present class: nodes are numbers and
every edge goes up (`Upward`), so a cycle would have no greatest node, and the
calls of the search in progress ascend (`Chain`). What needs care are the
second and later calls, which go over a map that has entries already. `Reached`
states the level in terms of the ends of the ranks drawn so far (`rankEnds`), to
which a later call only adds; that all checkees of a node differ (`PushedOnce`)
is kept in the first call only. `Stages` says when the search can leave the
memory of `visited`: only at a checkee of a call with more nodes than there are
functions, which is why `SortComplete` has the premise that there are as many.

### No step for ever

Liveness under fairness cannot be proved here, but what it rests on can.
`Ahead` counts what a call (a run) has before it, the outer loops first: stages
and functions not yet taken, functions not yet visited, calls in progress,
checkees not yet looked at. `Shortening` and `RunsGetOn` prove that every
step of the program makes it less where it first changes; `AheadCounted` and
`RunsCounted` prove that it is always a tuple of whole numbers; and no such tuple
gets less for ever, because each step takes the count it changes to a natural
number below the former (`NearerWellFounded`: `Nearer` is contained in a
lexicographic product of well-founded relations). So no call and
no run takes steps for ever, for any functions, network or file. What stays with
TLC is that it is never stuck before its end, as fairness and ENABLED are needed
to say it.

### The patcher (DumpPipeProofs)

For every guide that is `BottomUp` (`GuideAssumption`, which is what
`InjectedBottomUp` proves of the pass), any number of lines, copies, runs and
kills:

| Theorem | Statement |
|---|---|
| `PatcherTypeCorrect` | `Spec => []TypeOK` |
| `SuccessIsComplete` | `Spec => []DoneMeansComplete` |
| `RefusalIsClean` | `Spec => []RefusalWritesNothing` |
| `GuardsAreRight` | `Spec => []AlarmsExactlyOnChange` |
| `PatcherRefinement` | `Spec => ImplementsGuardedBinary` |

A word is written once: the patcher writes where it has found a placeholder and
writes none itself. `Settled` says of every word that is no placeholder that it
is what belongs there, and of a hash that, besides, every word of the guards in
the hashed function is written already. That is inductive because the guide
lists those words first (in its lines, and in a run they are the ones before),
whichever run has written them: a rerun finds only what is left. So a settled
hash stays the hash of its function, until the function is modified, which is
possible only in a finished binary (`HashesAreEarly`). The inductive form of
`DoneMeansComplete` leaves out the runs that say there is nothing to patch
(`PatchedMeansComplete`); these have it from the stats (`Told`), and if the
stats are those of the guide there is no line. The refinement maps the
first write to `Tear`, the last to `Complete`.

### The hooks (GetcharHooksProofs)

For every set of characters, any recordings, calls and runs:

| Theorem | Statement |
|---|---|
| `HooksTypeCorrect` | `Spec => []TypeOK` |
| `RecordingKeepsWhatIsSeen` | `Spec => []RecordsWhatIsSeen` |
| `ReplayIsFaithful` | `Spec => []ReplayRepeats` |
| `SourcesNeverMix` | `Spec => []OneSource` |
| `PlayedToTheEnd` | `Spec => []PlaysToTheEnd` |

`OnDisk` relates the file to what the recorded program saw: at most one number
more, and, if no write has failed, none less and each in its place. That alone
is not inductive, since a second write would put the disk two ahead: `Recording`
adds that it is ahead only between the write and the return of one call, and
that the number more is then the one about to be returned. A failed write leaves
a file that is at most as long as a good one (`WriteFacts`), and without one the
file has no torn end, so that an append is what it seems. The static pointer
tells what a replaying run has done: with NULL it has only asked the terminal,
with an open file it has played the first `pos` numbers, with a closed one the
whole file.

### The scripts (ToolchainProofs)

For any scripts of the five (`ScriptAssumption`), any number of them one after
the other, any number of guards, failures and interruptions anywhere:

| Theorem | Statement |
|---|---|
| `ToolchainTypeCorrect` | `Spec => []TypeOK` |
| `GuidesAreFresh` | `Spec => []GuideOfOneExecution` |
| `CleanRunsProtect` | `Spec => []CleanRunProtects` |
| `CheckedScriptsMatch` | `Spec => []CheckedScriptMatches` |

First the places: every script compiles, removes guide.txt and calls the pass
as its steps two to four, once (`ToolFacts`), and makes each file before it is
used (`Places`). `Numbered`: there is no guide when the pass begins, so
all its lines are of this execution from then on. In such a guide the number of
a line is its place (`NumberIs`), and each guard is patched from the one line
with its number. `Chain` follows the files: behind the pass each has the guards
of the guide, unpatched (`Fresh`), until the patcher. It holds while nothing has
failed, and in run-sc-oh-eval.sh, whose tools end it when they fail, up to the
patcher even if the compiler has (`Unbroken`). The proof needs that `NoFile` is
no file (`FileAssumption`).

### Only model-checked

* All liveness under fairness: `PassEnds`, `NetworkTerminates` (run
  pass_liveness) and `Terminates` (run legacy). The prover has neither the rules
  for it nor ENABLED; see the section before for the part that is proved.
* That the sentences checked by the failing runs are false: a counterexample is
  all it takes.

## 5. What is not modelled

* Instruction counts and the standard deviation of the statistics, logging,
  the JSON text: layout or floating point.
* `AcyclicGrpahGen.cpp`, a standalone copy of the earlier construction whose map
  is empty in each call: LegacyNetwork has the class, of which a first call is
  the same.
* A placeholder that occurs in the binary by chance, and hash collisions of an
  8-bit XOR.
* Demangling: `injectGuard` writes brackets, stars and ampersands alike as an
  underscore, so that `f(int*)` and `f(int&)` share a name in the guide; which
  of the two radare2 then answers with is not in the repository.
* A later optimisation that inlines a host, and with it a placeholder, into
  another function. The scripts compile without one, and the pass sets
  `noinline` on checkees only.
* `run-sc-oh.sh` and `run-oh-extract-sc-binary.sh`, which call the pass with
  options it no longer has. (Of run-sc.sh, line 14 has a test without a space
  before its bracket; it is always false, and the script goes on as modelled.)
* Threads that call the hooked `getchar`: they share the static `f`, race on it,
  and each names another file. Programs of which the first 15 characters of the
  name agree: they share a recording.
* `AssertFunctionMarkPass` is in no library of CMakeLists.txt, `DAGtester.cpp`
  calls a function its class does not have. The experiment radare2_patch.py,
  the example, gdb scripts and build files have no state to speak of.

## 6. Plan

Done, in the order of importance: CheckerGraph, DAGCheckersNetwork, SCPass with
the filter file, DumpPipe with GuardedBinary, GetcharHooks, LegacyNetwork,
Toolchain; proofs of every safety property, action property and refinement that
a passing run checks. Left:

1. **GetcharHooks** with threads that share `f`, and with names that collide.
2. **DumpPipe** over guides with names that stand for two functions.
3. Proofs that join the parts: that what SCPass writes satisfies the assumption
   on the guide of DumpPipe, as one theorem.
