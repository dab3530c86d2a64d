------------------------------ MODULE DumpPipe ------------------------------
(***************************************************************************)
(* The patcher, dump_pipe.py, and the guard it completes, guardMe.         *)
(*                                                                         *)
(* The binary holds, for each line of guide.txt, a guard: three words in   *)
(* the code of its host that still are placeholders.  The patcher replaces *)
(* every copy of a placeholder by the address, the size or the hash of the *)
(* checkee; the hash is taken of the file as patched so far.  It may be    *)
(* killed between two writes, and run again on the file it leaves.         *)
(*                                                                         *)
(* A word, or the XOR of many, is a set of symbols: equal symbols cancel,  *)
(* and no two different sums are equal by chance.  0 is the empty set.     *)
(***************************************************************************)
EXTENDS Integers, Sequences, FiniteSets

CONSTANTS Func,         \* functions of the binary that carry guards or are checked
          Other,        \* any function radare2 names for one it does not know
          Guides,       \* the guides the pass may have written
          MaxCopies,    \* bound on the copies of a guard's code
          MaxRuns       \* bound on the runs of the patcher

(* What SCPass promises of guide.txt (GuardsBottomUp there).               *)
BottomUp(g) == \A i, j \in 1..Len(g) : g[i].checkee = g[j].host => j < i

ASSUME FuncAssumption  == Other \notin Func
ASSUME GuideAssumption == /\ Guides \subseteq Seq([host : Func, checkee : Func])
                          /\ \A g \in Guides : BottomUp(g)
ASSUME BoundAssumption == MaxCopies \in Nat /\ MaxRuns \in Nat \ {0}

VARIABLES
  guide,            \* guide.txt; <<>> when no guard was injected: no such file
  copies,           \* line -> how often the code of its guard is in the binary
  answer,           \* what radare2 answers when asked for a function
  numberOfGuards,   \* of sc.stats: 0, or 1 for any other number
  word,             \* line, field and copy -> the word there
  modified,         \* functions whose own code has been changed
  run,              \* runs begun
  mode,             \* the command line: two, three or four arguments
  pc,               \* how far the run has come
  addresses,        \* placeholder_addresses: the copies found
  line, field,      \* the placeholder being patched
  todo,             \* its copies still to be written
  expectedHash,     \* expected_hash of the line
  totalPatches,     \* total_patches
  dumpPatch,        \* dump_patch
  dumpFile,         \* the file dump_patch is written to
  message           \* what the run has reported last

target   == <<guide, copies, answer, numberOfGuards>>
binary   == <<word, modified>>
progress == <<addresses, line, field, todo, expectedHash, totalPatches, dumpPatch>>
vars     == <<target, binary, run, mode, pc, progress, dumpFile, message>>

-----------------------------------------------------------------------------
Lines  == 1..Len(guide)
Fields == <<"address", "size", "hash">>
Sites  == {s \in Lines \X (1..3) \X (1..MaxCopies) : s[3] <= copies[s[1]]}

Host(i)        == guide[i].host
Checkee(i)     == guide[i].checkee
Placeholder(i, n) == {<<"placeholder", i, Fields[n]>>}
IsDummy(i)     == answer[Checkee(i)] = "mismatch"
(* The function found for a line; where its name does not match the line   *)
(* becomes a dummy.                                                        *)
FoundFunc(i)   == IF IsDummy(i) THEN Other ELSE Checkee(i)

(* XOR of a set of words: the symbols in an odd number of them.            *)
Xor(at) ==
  {x \in UNION {word[s] : s \in at} : Cardinality({s \in at : x \in word[s]}) % 2 = 1}

(* The bytes of a function: its own code and the guards it hosts.          *)
OwnCode(f) == {IF f \in modified THEN <<"modified", f>> ELSE <<"code", f>>}
Hash(f)    == OwnCode(f) \cup Xor({s \in Sites : Host(s[1]) = f})

(* Mutant of PrecomputeHash: the hash is taken of the file as it was opened. *)
PrecomputeHashAsOpened(i) ==
  LET at == {s \in Sites : Host(s[1]) = FoundFunc(i)}
      Was(s) == Placeholder(s[1], s[2])
  IN  IF IsDummy(i) THEN {}
      ELSE OwnCode(FoundFunc(i)) \cup
             {x \in UNION {Was(s) : s \in at} : Cardinality({s \in at : x \in Was(s)}) % 2 = 1}

(* precompute_hash, of the file as it is now.                              *)
PrecomputeHash(i) == IF IsDummy(i) THEN {} ELSE Hash(FoundFunc(i))

PatchValue(i, n) ==
  CASE n = 1 -> {<<"address", FoundFunc(i)>>}
    [] n = 2 -> IF IsDummy(i) THEN {} ELSE {<<"size", FoundFunc(i)>>}
    [] n = 3 -> expectedHash

-----------------------------------------------------------------------------
NothingFound == [s \in Lines \X (1..3) |-> {}]

Init ==
  /\ guide \in Guides
  /\ copies \in [Lines -> 0..MaxCopies]
  /\ answer \in [Func -> {"named", "far", "mismatch", "missing"}]
  /\ \A f \in Func : answer[f] # "named" => \E i \in Lines : Checkee(i) = f
  /\ word = [s \in Sites |-> Placeholder(s[1], s[2])]
  /\ modified = {}
  /\ run = 1 /\ mode \in {"plain", "dump", "stats"}
  /\ numberOfGuards \in IF mode = "stats" THEN {0, 1} ELSE {0}
  /\ pc = "start"
  /\ addresses = NothingFound
  /\ line = 1 /\ field = 1 /\ todo = {} /\ expectedHash = {}
  /\ totalPatches = 0 /\ dumpPatch = <<>> /\ dumpFile = <<>>
  /\ message = "none"

(* With stats that count no guards the guide is not even opened; the stats *)
(* are a file like any other, maybe of another execution of the pass.      *)
NoGuards == mode = "stats" /\ numberOfGuards = 0

NothingToPatch ==
  /\ pc = "start" /\ NoGuards
  /\ pc' = "done" /\ message' = "nothing"
  /\ UNCHANGED <<target, binary, run, mode, progress, dumpFile>>

(* The guide is read and each of its functions looked up.                  *)
GuideResolved == guide # <<>> /\ \A i \in Lines : answer[Checkee(i)] # "missing"

ReadGuide ==
  /\ pc = "start" /\ ~NoGuards
  /\ IF GuideResolved
     THEN pc' = "find" /\ UNCHANGED message
     ELSE pc' = "exit" /\ message' = "error"
  /\ UNCHANGED <<target, binary, run, mode, progress, dumpFile>>

(* Mutant of Copies: whatever the file holds, the places are patched.       *)
CopiesAnywhere(i, n) == {c \in 1..MaxCopies : c <= copies[i]}

(* find_placeholder: where the placeholder is in the file.                 *)
Copies(i, n) == {c \in 1..MaxCopies : c <= copies[i] /\ word[<<i, n, c>>] = Placeholder(i, n)}

(* All placeholders are looked for before the first is patched.            *)
FindAllPlaceholders ==
  /\ pc = "find"
  /\ addresses' = [s \in Lines \X (1..3) |-> Copies(s[1], s[2])]
  /\ IF \E s \in DOMAIN addresses' : addresses'[s] = {}
     THEN pc' = "exit" /\ message' = "error" /\ UNCHANGED todo
     ELSE pc' = "patch" /\ todo' = addresses'[<<1, 1>>] /\ UNCHANGED message
  /\ UNCHANGED <<target, binary, run, mode, line, field, expectedHash, totalPatches,
                 dumpPatch, dumpFile>>

(* struct.pack takes an address of 32 bits.                                *)
Packable == field = 1 => answer[Checkee(line)] # "far"

(* It raises an exception for any other, which nobody catches.             *)
PackError ==
  /\ pc = "patch" /\ todo # {} /\ ~Packable
  /\ pc' = "exit" /\ message' = "exception"
  /\ UNCHANGED <<target, binary, run, mode, progress, dumpFile>>

(* Mutant of PatchCopy: only the first copy found is patched.               *)
PatchFirstCopy ==
  /\ pc = "patch" /\ todo # {} /\ Packable
  /\ LET c == CHOOSE c \in todo : \A d \in todo : c <= d
     IN  word' = [word EXCEPT ![<<line, field, c>>] = PatchValue(line, field)]
  /\ todo' = {}
  /\ totalPatches' = totalPatches + 1
  /\ UNCHANGED <<target, modified, run, mode, pc, addresses, line, field, expectedHash,
                 dumpPatch, dumpFile, message>>

(* One turn of patch_placeholder, copies in the order of the file.         *)
PatchCopy ==
  /\ pc = "patch" /\ todo # {} /\ Packable
  /\ LET c == CHOOSE c \in todo : \A d \in todo : c <= d
     IN  /\ word' = [word EXCEPT ![<<line, field, c>>] = PatchValue(line, field)]
         /\ todo' = todo \ {c}
  /\ totalPatches' = totalPatches + 1
  /\ UNCHANGED <<target, modified, run, mode, pc, addresses, line, field, expectedHash,
                 dumpPatch, dumpFile, message>>

(* The size follows the address; then the hash is computed.                *)
NextField ==
  /\ pc = "patch" /\ todo = {} /\ field < 3
  /\ field' = field + 1
  /\ todo' = addresses[<<line, field + 1>>]
  /\ expectedHash' = IF field = 2 THEN PrecomputeHash(line) ELSE expectedHash
  /\ UNCHANGED <<target, binary, run, mode, pc, addresses, line, totalPatches, dumpPatch,
                 dumpFile, message>>

(* The entry of dump_patch: a dummy keeps the size of the function found.  *)
PatchEntry ==
  [address |-> {<<"address", FoundFunc(line)>>}, size |-> {<<"size", FoundFunc(line)>>},
   hash |-> expectedHash]

(* Mutant of NextLine: the fields are counted from 0.                       *)
NextLineFromZero ==
  /\ pc = "patch" /\ todo = {} /\ field = 3 /\ line < Len(guide)
  /\ line' = line + 1 /\ field' = 0
  /\ todo' = addresses[<<line + 1, 1>>]
  /\ dumpPatch' = Append(dumpPatch, PatchEntry)
  /\ UNCHANGED <<target, binary, run, mode, pc, addresses, expectedHash, totalPatches,
                 dumpFile, message>>

NextLine ==
  /\ pc = "patch" /\ todo = {} /\ field = 3 /\ line < Len(guide)
  /\ line' = line + 1 /\ field' = 1
  /\ todo' = addresses[<<line + 1, 1>>]
  /\ dumpPatch' = Append(dumpPatch, PatchEntry)
  /\ UNCHANGED <<target, binary, run, mode, pc, addresses, expectedHash, totalPatches,
                 dumpFile, message>>

(* Mutant of Finish: an unexpected total makes the run fail.                *)
FinishOrExit ==
  /\ pc = "patch" /\ todo = {} /\ field = 3 /\ line = Len(guide)
  /\ dumpPatch' = Append(dumpPatch, PatchEntry)
  /\ message' = IF totalPatches = 3 * Len(guide) THEN "patched all" ELSE "error"
  /\ dumpFile' = IF mode = "dump" THEN dumpPatch' ELSE dumpFile
  /\ pc' = IF totalPatches = 3 * Len(guide) THEN "done" ELSE "exit"
  /\ UNCHANGED <<target, binary, run, mode, addresses, line, field, todo, expectedHash,
                 totalPatches>>

Finish ==
  /\ pc = "patch" /\ todo = {} /\ field = 3 /\ line = Len(guide)
  /\ dumpPatch' = Append(dumpPatch, PatchEntry)
  /\ message' = IF totalPatches = 3 * Len(guide) THEN "patched all" ELSE "failed to patch all"
  /\ dumpFile' = IF mode = "dump" THEN dumpPatch' ELSE dumpFile
  /\ pc' = "done"
  /\ UNCHANGED <<target, binary, run, mode, addresses, line, field, todo, expectedHash,
                 totalPatches>>

Kill ==
  /\ pc = "patch"
  /\ pc' = "killed"
  /\ UNCHANGED <<target, binary, run, mode, progress, dumpFile, message>>

Stopped == pc \in {"done", "exit", "killed"}

(* The patcher is run again on the file as it is.                          *)
RunAgain ==
  /\ Stopped /\ run < MaxRuns
  /\ run' = run + 1 /\ pc' = "start" /\ message' = "none"
  /\ addresses' = NothingFound
  /\ line' = 1 /\ field' = 1 /\ todo' = {} /\ expectedHash' = {}
  /\ totalPatches' = 0 /\ dumpPatch' = <<>>
  /\ UNCHANGED <<target, binary, mode, dumpFile>>

(* Something changes a byte of a function's own code in the patched file.  *)
Modify(f) ==
  /\ pc = "done" /\ message # "nothing" /\ f \notin modified
  /\ modified' = modified \cup {f}
  /\ UNCHANGED <<target, word, run, mode, pc, progress, dumpFile, message>>

Patch ==
  \/ NothingToPatch \/ ReadGuide \/ FindAllPlaceholders
  \/ PatchCopy \/ PackError \/ NextField \/ NextLine \/ Finish

Next == Patch \/ Kill \/ RunAgain \/ \E f \in Func : Modify(f)

Spec == Init /\ [][Next]_vars

-----------------------------------------------------------------------------
(* guardMe, as the compiled guard of line i calls it with the words of one *)
(* copy: the XOR of length bytes from address against the expected hash.   *)
GuardMe(address, length, expected) ==
  LET hash == IF length = {} THEN {}
              ELSE UNION {Hash(f) : f \in {g \in Func : address = {<<"address", g>>}
                                                     /\ length = {<<"size", g>>}}}
  IN  hash = expected

Passes(i, c) == GuardMe(word[<<i, 1, c>>], word[<<i, 2, c>>], word[<<i, 3, c>>])


-----------------------------------------------------------------------------
TypeOK ==
  /\ guide \in Guides /\ copies \in [Lines -> 0..MaxCopies]
  /\ DOMAIN word = Sites /\ modified \subseteq Func
  /\ run \in 1..MaxRuns
  /\ pc \in {"start", "find", "patch", "done", "exit", "killed"}
  /\ \A s \in DOMAIN addresses : addresses[s] \subseteq 1..copies[s[1]]
  /\ pc = "patch" => line \in Lines /\ field \in 1..3 /\ todo \subseteq addresses[<<line, field>>]
  /\ totalPatches \in 0..Cardinality(Sites)
  /\ message \in {"none", "nothing", "error", "exception", "patched all", "failed to patch all"}

Complete == \A s \in Sites : word[s] # Placeholder(s[1], s[2])

(* In a binary without placeholders, whatever runs and kills it took, each *)
(* guard is silent as long as the own code of its checkee is what was      *)
(* patched, and speaks up once it is not; only dummies always are silent.  *)
(* It takes both the order of the guide, leaves first, and the order of    *)
(* the patches of a line: a hash taken of code that a later write changes  *)
(* would be a false alarm at every start of the protected program.         *)
AlarmsExactlyOnChange ==
  Complete => \A i \in Lines : \A c \in 1..copies[i] :
                Passes(i, c) <=> IsDummy(i) \/ Checkee(i) \notin modified

(* A run ends in success only over a binary without placeholders; so does  *)
(* a run on the remains of a killed one, which otherwise is refused.  The  *)
(* stats must be those of the guide: stale ones that count no guards end   *)
(* the run in success over a binary that has not been looked at.           *)
StatsOfGuide == mode = "stats" => (numberOfGuards = 0 <=> guide = <<>>)

DoneMeansComplete == pc = "done" /\ StatsOfGuide => Complete

(* A run that gives up with an error has written nothing: what it was given *)
(* can still be patched by a later run, with another guide, or is still    *)
(* complete.  (An exception may leave lines before its own patched.)       *)
RefusalWritesNothing == message = "error" => totalPatches = 0 /\ dumpPatch = <<>>

(* "Failed to patch all expected patches" (dump_pipe.py:230) says that     *)
(* placeholders have been left in the binary.                              *)
FailureMeansLeftOver == message = "failed to patch all" => ~Complete

(* The patcher implements GuardedBinary, where an alarm is that of a guard *)
(* in any of its copies: no run, kill or exception makes a complete binary *)
(* incomplete, or a guard noisy or silent without a change of the code.    *)
State == CASE Sites = {} \/ \A s \in Sites : word[s] = Placeholder(s[1], s[2]) -> "raw"
           [] Sites # {} /\ Complete -> "complete"
           [] OTHER -> "torn"
Watched == [i \in Lines |-> IF IsDummy(i) THEN Other ELSE Checkee(i)]
Alarms  == IF State # "complete" THEN {}
           ELSE {i \in Lines : \E c \in 1..copies[i] : ~Passes(i, c)}

Binary == INSTANCE GuardedBinary WITH watched <- Watched, state <- State, alarms <- Alarms
ImplementsGuardedBinary == Binary!Spec

(* "all patches are dumped" (dump_pipe.py:108): the dump holds the values  *)
(* the binary was patched with.                                            *)
DumpShowsPatches ==
  \A i \in 1..Len(dumpFile) :
    /\ dumpFile[i].address = word[<<i, 1, 1>>]
    /\ dumpFile[i].size = word[<<i, 2, 1>>]
    /\ dumpFile[i].hash = word[<<i, 3, 1>>]
=============================================================================
