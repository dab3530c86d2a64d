----------------------------- MODULE Toolchain ------------------------------
(***************************************************************************)
(* The run scripts: the compiler, the pass, the linker and the patcher one *)
(* after the other, over files that stay from script to script.  A script  *)
(* looks at the status of some tools and of others not; it may be stopped  *)
(* by its user anywhere, and any script may follow.                        *)
(*                                                                         *)
(* The pass numbers its placeholders from the same start in each execution *)
(* (SC.cpp:380-382).  A guide therefore fits any binary with enough guards,*)
(* not only the one it was written for: the scripts have to keep the two   *)
(* together.  What a file holds is told by the execution of the pass it    *)
(* comes from.                                                             *)
(***************************************************************************)
EXTENDS Naturals, Sequences, FiniteSets

CONSTANTS Scripts,      \* the scripts a user calls
          NoFile,       \* a file that is missing, or empty after a failure
          MaxJobs,      \* bound on the scripts called
          MaxGuards     \* bound on the guards of one execution of the pass

ScriptAssumption == Scripts \subseteq {"run-sc", "run-binary-patch", "run-llvm-patch",
                                       "run-sc-oh-eval", "run-sc-oh-binary"}
BoundAssumption  == MaxJobs \in Nat /\ MaxGuards \in Nat
ASSUME ScriptAssumption
ASSUME BoundAssumption

VARIABLES
  job,          \* scripts called so far
  script, step, \* the one called last, and its next step
  failed,       \* a tool of it has failed, or it was stopped
  pass,         \* executions of the pass so far
  file,         \* the bitcode, assembly, object and binary files
  guide,        \* guide.txt: for each line the execution that wrote it
  patchGuide    \* the dump of the patcher, told by the lines patched

vars == <<job, script, step, failed, pass, file, guide, patchGuide>>

-----------------------------------------------------------------------------
(* The scripts.  Check stands for a tool with an exit after it.             *)
Do(tool)    == [tool |-> tool, checked |-> FALSE]
Check(tool) == [tool |-> tool, checked |-> TRUE]

RunSc == <<Check("make"), Do("compile"), Do("clean"), Check("opt"), Do("link"),
           Do("llc"), Do("as"), Do("ld"), Do("patch"), Do("report")>>

(* Mutant of RunBinaryPatch: the pass writes guarded.bc (lines 14 and 15).  *)
RunBinaryPatchInPlace ==
  <<Do("make"), Do("compile"), Do("cleanGuide"), Do("optInPlace"), Do("link"),
    Do("build"), Do("patch"), Do("run")>>

RunBinaryPatch ==
  <<Do("make"), Do("compile"), Do("cleanGuide"), Do("opt"), Do("link"),
    Do("build"), Do("patch"), Do("run")>>

RunLlvmPatch ==
  RunBinaryPatch \o <<Do("removeOut"), Do("scpatch"), Do("build"), Do("run")>>

(* Mutant of RunScOhEval: the status of llc is not looked at.               *)
RunScOhEvalTrusting ==
  <<Check("make"), Do("compileLinked"), Do("clean"), Check("opt"), Check("response"),
    Do("llc"), Check("as"), Check("response"), Check("ld"), Do("patch"), Do("run")>>

RunScOhEval ==
  <<Check("make"), Do("compileLinked"), Do("clean"), Check("opt"), Check("response"),
    Check("llc"), Check("as"), Check("response"), Check("ld"), Do("patch"), Do("run")>>

RunScOhBinary ==
  <<Check("make"), Do("compile"), Do("clean"), Check("opt"), Do("llc"), Do("as"),
    Do("response"), Do("ldShared"), Do("patch"), Do("report")>>

Steps(s) == CASE s = "run-sc"           -> RunSc
              [] s = "run-binary-patch" -> RunBinaryPatch
              [] s = "run-llvm-patch"   -> RunLlvmPatch
              [] s = "run-sc-oh-eval"   -> RunScOhEval
              [] s = "run-sc-oh-binary" -> RunScOhBinary
              [] s = "none"             -> <<>>

Stopped == step > Len(Steps(script))
Tool    == Steps(script)[step].tool

-----------------------------------------------------------------------------
(* A file of code: the job whose program it is, the execution of the pass  *)
(* that put its guards in, whether guardMe is linked to it, and what each  *)
(* guard has been patched with, told by the execution that wrote the line: *)
(* Unpatched for its placeholders, Zero for the constant 0.                *)
Unpatched == 0
Zero      == MaxJobs + 1
Code == [job : 1..MaxJobs, pass : 0..MaxJobs, linked : BOOLEAN,
         filled : UNION {[1..n -> Unpatched..Zero] : n \in 0..MaxGuards}]
FileAssumption == NoFile \notin Code
ASSUME FileAssumption

FileNames == {"guarded.bc", "out.bc", "out.s", "out.o", "out"}

(* Tools that make one file of another.                                    *)
From == [link |-> "out.bc", llc |-> "out.bc", as |-> "out.s", ld |-> "out.o",
         ldShared |-> "out.o", build |-> "out.bc"]
To   == [link |-> "out.bc", llc |-> "out.s", as |-> "out.o", ld |-> "out",
         ldShared |-> "out", build |-> "out"]

Init ==
  /\ job = 0 /\ script = "none" /\ step = 1 /\ failed = FALSE
  /\ pass = 0
  /\ file = [n \in FileNames |-> NoFile]
  /\ guide = <<>> /\ patchGuide = <<>>

Begin(s) ==
  /\ Stopped /\ job < MaxJobs
  /\ job' = job + 1 /\ script' = s /\ step' = 1 /\ failed' = FALSE
  /\ UNCHANGED <<pass, file, guide, patchGuide>>

(* The tool has worked: the script goes on.                                *)
Proceed ==
  /\ ~Stopped
  /\ step' = step + 1
  /\ UNCHANGED <<job, script, failed>>

(* Mutant of Fail: a failing tool takes the next one with it.               *)
FailTwice ==
  /\ ~Stopped
  /\ failed' = TRUE
  /\ step' = IF Steps(script)[step].checked THEN Len(Steps(script)) + 1 ELSE step + 2
  /\ UNCHANGED <<job, script>>

(* It has failed: a script that looks exits, any other goes on.            *)
Fail ==
  /\ ~Stopped
  /\ failed' = TRUE
  /\ step' = IF Steps(script)[step].checked THEN Len(Steps(script)) + 1 ELSE step + 1
  /\ UNCHANGED <<job, script>>

(* What a failing tool leaves of the file it was to write.                 *)
Leaves(name) == \E c \in {file[name], NoFile} : file' = [file EXCEPT ![name] = c]

-----------------------------------------------------------------------------
(* Tools without a file of this model.                                     *)
Other ==
  /\ ~Stopped /\ Tool \in {"make", "response", "report", "run"}
  /\ Proceed \/ Fail
  /\ UNCHANGED <<pass, file, guide, patchGuide>>

Compile ==
  /\ ~Stopped /\ Tool \in {"compile", "compileLinked"}
  /\ \/ /\ Proceed
        /\ file' = [file EXCEPT !["guarded.bc"] =
             [job |-> job, pass |-> 0, linked |-> Tool = "compileLinked", filled |-> <<>>]]
     \/ Fail /\ Leaves("guarded.bc")
  /\ UNCHANGED <<pass, guide, patchGuide>>

(* Mutant of Remove: guide.txt is left.                                     *)
RemoveNotGuide ==
  /\ ~Stopped /\ Tool \in {"clean", "cleanGuide", "removeOut"}
  /\ Proceed
  /\ UNCHANGED guide
  /\ file' = [n \in FileNames |->
                IF \/ n = "out.bc" /\ Tool = "clean"
                   \/ n = "out" /\ Tool \in {"clean", "removeOut"}
                THEN NoFile ELSE file[n]]
  /\ UNCHANGED <<pass, patchGuide>>

Remove ==
  /\ ~Stopped /\ Tool \in {"clean", "cleanGuide", "removeOut"}
  /\ Proceed
  /\ guide' = IF Tool = "removeOut" THEN guide ELSE <<>>
  /\ file' = [n \in FileNames |->
                IF \/ n = "out.bc" /\ Tool = "clean"
                   \/ n = "out" /\ Tool \in {"clean", "removeOut"}
                THEN NoFile ELSE file[n]]
  /\ UNCHANGED <<pass, patchGuide>>

(* opt with the pass: the guide is appended to guard by guard, and the     *)
(* bitcode written when all passes have ended.  A failure leaves as many   *)
(* lines as guards were injected before it.                                *)
Opt ==
  /\ ~Stopped /\ Tool \in {"opt", "optInPlace"}
  /\ pass' = pass + 1
  /\ \E n \in 0..MaxGuards :
       LET target == IF Tool = "opt" THEN "out.bc" ELSE "guarded.bc"
       IN  /\ guide' = guide \o [i \in 1..n |-> pass + 1]
           /\ \/ /\ Proceed
                 /\ file["guarded.bc"] # NoFile
                 /\ file' = [file EXCEPT ![target] =
                      [file["guarded.bc"] EXCEPT !.pass = pass + 1,
                                                 !.filled = [i \in 1..n |-> Unpatched]]]
              \/ /\ Fail
                 /\ file["guarded.bc"] = NoFile => n = 0
                 /\ Leaves(target)
  /\ UNCHANGED patchGuide

(* Linking rtlib.bc twice would define guardMe twice; a binary with guards *)
(* needs it, from the bitcode or from the shared library.                  *)
Translatable ==
  LET code == file[From[Tool]]
  IN  /\ code # NoFile
      /\ Tool = "link" => ~code.linked
      /\ Tool \in {"ld", "build"} => code.linked \/ code.filled = <<>>

Translate ==
  /\ ~Stopped /\ Tool \in DOMAIN From
  /\ \/ /\ Proceed /\ Translatable
        /\ file' = [file EXCEPT ![To[Tool]] =
             [file[From[Tool]] EXCEPT !.linked = @ \/ Tool = "link"]]
     \/ Fail /\ Leaves(To[Tool])
  /\ UNCHANGED <<pass, guide, patchGuide>>

-----------------------------------------------------------------------------
(* The number of a line among those of its execution is the number of its  *)
(* placeholders.                                                           *)
Number(i) == Cardinality({j \in 1..i : guide[j] = guide[i]})
Numbers   == {Number(i) : i \in 1..Len(guide)}

(* The line patched last for a guard, of the first n lines.                *)
FilledBy(k, n) ==
  LET lines == {i \in 1..n : Number(i) = k}
  IN  IF lines = {} THEN file["out"].filled[k]
      ELSE guide[CHOOSE i \in lines : \A j \in lines : j <= i]
PatchedOut(n) ==
  [file["out"] EXCEPT !.filled = [k \in DOMAIN file["out"].filled |-> FilledBy(k, n)]]

(* All placeholders of the guide are looked for before the first write.    *)
GuideFits ==
  /\ guide # <<>> /\ file["out"] # NoFile
  /\ \A k \in Numbers : k \in DOMAIN file["out"].filled /\ file["out"].filled[k] = Unpatched

Patch ==
  /\ ~Stopped /\ Tool = "patch"
  /\ \/ /\ Proceed /\ GuideFits
        /\ file' = [file EXCEPT !["out"] = PatchedOut(Len(guide))]
        /\ patchGuide' = guide
     \/ /\ Fail /\ GuideFits
        /\ \E n \in 0..Len(guide) : file' = [file EXCEPT !["out"] = PatchedOut(n)]
        /\ UNCHANGED patchGuide
     \/ Fail /\ UNCHANGED <<file, patchGuide>>
  /\ UNCHANGED <<pass, guide>>

(* The tags injectGuard gives its stores for SCPatchPass: each of the      *)
(* three calls that would set one is commented out (and what they would    *)
(* set has the kind "guard", not the ones asked for).                      *)
StoreMarks == {}

(* readPatchManifest: what the dump has for the placeholder of guard k;    *)
(* the map that is read gives 0 for any other.                             *)
ReadPatchManifest(k) == IF k \in DOMAIN patchGuide THEN patchGuide[k] ELSE Zero

(* SCPatchPass replaces the constants of the stores with its tags.         *)
ScPatched(code) ==
  IF {"address", "length", "hash"} \subseteq StoreMarks
  THEN [code EXCEPT !.filled = [k \in DOMAIN @ |-> ReadPatchManifest(k)]]
  ELSE code

ScPatch ==
  /\ ~Stopped /\ Tool = "scpatch"
  /\ \/ /\ Proceed /\ file["out.bc"] # NoFile /\ patchGuide # <<>>
        /\ file' = [file EXCEPT !["out.bc"] = ScPatched(@)]
     \/ Fail /\ Leaves("out.bc")
  /\ UNCHANGED <<pass, guide, patchGuide>>

(* The user stops the script before its next tool.                         *)
Interrupt ==
  /\ ~Stopped
  /\ step' = Len(Steps(script)) + 1 /\ failed' = TRUE
  /\ UNCHANGED <<job, script, pass, file, guide, patchGuide>>

Next ==
  \/ \E s \in Scripts : Begin(s)
  \/ Other \/ Compile \/ Remove \/ Opt \/ Translate \/ Patch \/ ScPatch
  \/ Interrupt

Spec == Init /\ [][Next]_vars

-----------------------------------------------------------------------------
TypeOK ==
  /\ job \in 0..MaxJobs /\ script \in Scripts \cup {"none"} /\ failed \in BOOLEAN
  /\ step \in 1..(Len(Steps(script)) + 1)
  /\ pass \in 0..job
  /\ file \in [FileNames -> Code \cup {NoFile}]
  /\ guide \in Seq(1..MaxJobs) /\ patchGuide \in Seq(1..MaxJobs)

Patching == ~Stopped /\ Tool = "patch"

(* The patcher never reads lines of an earlier execution of the pass,      *)
(* whatever failed or was stopped before: a pass only ever appends to      *)
(* guide.txt, and two lines with one number would patch a guard twice.     *)
GuideOfOneExecution == Patching => \A i \in 1..Len(guide) : guide[i] = pass

(* A guard patched from a line of the execution that injected it.          *)
Matched(code) == \A k \in DOMAIN code.filled : code.filled[k] = code.pass

(* A script of which no tool has failed leaves the program it was called   *)
(* with, every guard patched with its own line, whatever files it found.   *)
(* (run-llvm-patch.sh ends with another binary than the patcher's.)        *)
CleanRunProtects ==
  Stopped /\ ~failed /\ script \notin {"none", "run-llvm-patch"} =>
    /\ file["out"] # NoFile
    /\ file["out"].job = job /\ file["out"].pass = pass
    /\ file["out"].filled # <<>> /\ Matched(file["out"])

(* run-sc-oh-eval.sh exits after each step that would leave files of an    *)
(* earlier script behind: what it hands to the patcher has the guards, all *)
(* of them, that the guide is about.  (run-sc.sh and run-binary-patch.sh   *)
(* promise no such thing, as they look at one status or at none.)          *)
CheckedScriptMatches ==
  Patching /\ script = "run-sc-oh-eval" =>
    /\ file["out"] # NoFile
    /\ file["out"].pass = pass /\ Len(file["out"].filled) = Len(guide)
    /\ Matched([file["out"] EXCEPT !.filled = guide])
=============================================================================
