--------------------------- MODULE ToolchainProofs --------------------------
(***************************************************************************)
(* Proofs about Toolchain, for any number of scripts, executions of the    *)
(* pass and guards, with failures and interruptions anywhere.              *)
(*                                                                         *)
(* The argument follows one script.  Each removes guide.txt before the     *)
(* pass and calls the pass once, so that what is in the guide afterwards   *)
(* is of this execution.  As long as no tool has failed, each file behind  *)
(* the pass has the guards of the guide, none of them patched; the first   *)
(* to be made is made by the pass, each other of one made before it.  In   *)
(* run-sc-oh-eval.sh this holds until the patcher, even if the compiler    *)
(* has failed: every tool after the pass that fails ends it.               *)
(***************************************************************************)
EXTENDS Toolchain, SequenceTheorems, FiniteSetTheorems, TLAPS

(* The scripts, and what they call.                                        *)
All == {"run-sc", "run-binary-patch", "run-llvm-patch", "run-sc-oh-eval",
        "run-sc-oh-binary"}
Tools == {"make", "compile", "compileLinked", "clean", "cleanGuide", "removeOut",
          "opt", "link", "llc", "as", "ld", "ldShared", "build", "patch", "scpatch",
          "response", "report", "run"}

-----------------------------------------------------------------------------
(* Where the tools are in the scripts                                      *)

(* Every script is a sequence of tools.                                    *)
LEMMA StepsAreSequences ==
  /\ \A s \in All : Steps(s) \in Seq([tool : Tools, checked : BOOLEAN])
  /\ Steps("none") = <<>>
<1>1. RunLlvmPatch \in Seq([tool : Tools, checked : BOOLEAN])
  <2>1. RunBinaryPatch \in Seq([tool : Tools, checked : BOOLEAN])
    BY DEF RunBinaryPatch, Do, Check, Tools
  <2>2. <<Do("removeOut"), Do("scpatch"), Do("build"), Do("run")>>
          \in Seq([tool : Tools, checked : BOOLEAN])
    BY DEF Do, Tools
  <2> QED BY <2>1, <2>2, ConcatProperties DEF RunLlvmPatch
<1>2. RunSc \in Seq([tool : Tools, checked : BOOLEAN])
  BY DEF RunSc, Do, Check, Tools
<1> QED BY <1>1, <1>2
       DEF All, Steps, RunBinaryPatch, RunScOhEval, RunScOhBinary, Do, Check, Tools

(* What is where in two sequences put together.                            *)
LEMMA Joined ==
  ASSUME NEW S, NEW a \in Seq(S), NEW b \in Seq(S)
  PROVE  /\ Len(a \o b) = Len(a) + Len(b)
         /\ \A i \in 1..(Len(a) + Len(b)) :
              (a \o b)[i] = IF i <= Len(a) THEN a[i] ELSE b[i - Len(a)]
BY ConcatProperties

(* run-llvm-patch.sh is run-binary-patch.sh with four more tools.          *)
LEMMA LlvmSteps ==
  /\ Len(RunLlvmPatch) = 12
  /\ \A i \in 1..8 : RunLlvmPatch[i] = RunBinaryPatch[i]
  /\ RunLlvmPatch[9] = Do("removeOut") /\ RunLlvmPatch[10] = Do("scpatch")
  /\ RunLlvmPatch[11] = Do("build") /\ RunLlvmPatch[12] = Do("run")
<1> DEFINE more == <<Do("removeOut"), Do("scpatch"), Do("build"), Do("run")>>
<1>1. RunBinaryPatch \in Seq([tool : Tools, checked : BOOLEAN]) /\ Len(RunBinaryPatch) = 8
  BY DEF RunBinaryPatch, Do, Check, Tools
<1>2. more \in Seq([tool : Tools, checked : BOOLEAN]) /\ Len(more) = 4
  BY DEF Do, Tools
<1>3. RunLlvmPatch = RunBinaryPatch \o more BY DEF RunLlvmPatch
<1>4. /\ more[1] = Do("removeOut") /\ more[2] = Do("scpatch")
      /\ more[3] = Do("build") /\ more[4] = Do("run")
  OBVIOUS
<1> HIDE DEF more
<1>5. /\ Len(RunLlvmPatch) = 12
      /\ \A i \in 1..12 : RunLlvmPatch[i] = IF i <= 8 THEN RunBinaryPatch[i] ELSE more[i - 8]
  <2> DEFINE S == [tool : Tools, checked : BOOLEAN]
  <2>1. RunBinaryPatch \in Seq(S) /\ more \in Seq(S) BY <1>1, <1>2
  <2> HIDE DEF S
  <2>2. Len(RunBinaryPatch) = 8 /\ Len(more) = 4 BY <1>1, <1>2
  <2>3. /\ Len(RunLlvmPatch) = Len(RunBinaryPatch) + Len(more)
        /\ \A i \in 1..(Len(RunBinaryPatch) + Len(more)) :
             RunLlvmPatch[i] = IF i <= Len(RunBinaryPatch)
                               THEN RunBinaryPatch[i] ELSE more[i - Len(RunBinaryPatch)]
    BY <2>1, <1>3, Joined
  <2>4. Len(RunBinaryPatch) + Len(more) = 12 BY <2>2
  <2> QED BY <2>2, <2>3, <2>4
<1> QED BY <1>4, <1>5

(* Where a script translates, assembles, links and patches; 0: nowhere.    *)
Llc(s)   == CASE s = "run-sc" -> 6 [] s = "run-sc-oh-eval" -> 6
              [] s = "run-sc-oh-binary" -> 5 [] OTHER -> 0
As(s)    == CASE s = "run-sc" -> 7 [] s = "run-sc-oh-eval" -> 7
              [] s = "run-sc-oh-binary" -> 6 [] OTHER -> 0
Out(s)   == CASE s = "run-sc" -> 8 [] s = "run-binary-patch" -> 6
              [] s = "run-sc-oh-eval" -> 9 [] s = "run-sc-oh-binary" -> 8 [] OTHER -> 0
Patched(s) == CASE s = "run-sc" -> 9 [] s = "run-binary-patch" -> 7
              [] s = "run-sc-oh-eval" -> 10 [] s = "run-sc-oh-binary" -> 9 [] OTHER -> 0

(* Every script compiles, removes the guide and calls the pass in this     *)
(* order, and all that concerns the binary comes after.                    *)
LEMMA ToolFacts ==
  ASSUME NEW s \in All, NEW i \in 1..Len(Steps(s))
  PROVE  /\ Len(Steps(s)) \in 8..12
         /\ Steps(s)[i].tool \in Tools
         /\ Steps(s)[i].tool = "opt" <=> i = 4
         /\ Steps(s)[i].tool \in {"compile", "compileLinked"} <=> i = 2
         /\ Steps(s)[i].tool \in {"clean", "cleanGuide"} <=> i = 3
         /\ Steps(s)[i].tool = "patch" => i > 4
         /\ Steps(s)[i].tool \in {"removeOut", "scpatch"} => i > 4
         /\ s # "run-llvm-patch" => Steps(s)[i].tool \notin {"removeOut", "scpatch"}
<1>1. CASE s = "run-sc" BY <1>1 DEF Steps, RunSc, Do, Check, Tools
<1>2. CASE s = "run-binary-patch" BY <1>2 DEF Steps, RunBinaryPatch, Do, Check, Tools
<1>3. CASE s = "run-llvm-patch"
  <2>1. Steps(s) = RunLlvmPatch BY <1>3 DEF Steps
  <2>2. CASE i \in 1..8 BY <2>1, <2>2, LlvmSteps DEF RunBinaryPatch, Do, Tools
  <2>3. CASE i \in 9..12 BY <1>3, <2>1, <2>3, LlvmSteps DEF Do, Tools
  <2> QED BY <2>1, <2>2, <2>3, LlvmSteps
<1>4. CASE s = "run-sc-oh-eval" BY <1>4 DEF Steps, RunScOhEval, Do, Check, Tools
<1>5. CASE s = "run-sc-oh-binary" BY <1>5 DEF Steps, RunScOhBinary, Do, Check, Tools
<1> QED BY <1>1, <1>2, <1>3, <1>4, <1>5 DEF All

(* The four scripts that end with the binary of the patcher make each file *)
(* before it is used.                                                      *)
LEMMA Places ==
  ASSUME NEW s \in All, s # "run-llvm-patch"
  PROVE  /\ Llc(s) \in 0..12 /\ As(s) \in 0..12 /\ Out(s) \in 0..12 /\ Patched(s) \in 0..12
         /\ 4 < Out(s) /\ Out(s) < Patched(s) /\ Patched(s) < Len(Steps(s))
         /\ s # "run-binary-patch" => 4 < Llc(s) /\ Llc(s) < As(s) /\ As(s) < Out(s)
         /\ s = "run-binary-patch" => Llc(s) = 0 /\ As(s) = 0
<1>1. CASE s = "run-sc" BY <1>1 DEF Steps, RunSc, Do, Check, Llc, As, Out, Patched
<1>2. CASE s = "run-binary-patch"
  BY <1>2 DEF Steps, RunBinaryPatch, Do, Check, Llc, As, Out, Patched
<1>3. CASE s = "run-sc-oh-eval"
  BY <1>3 DEF Steps, RunScOhEval, Do, Check, Llc, As, Out, Patched
<1>4. CASE s = "run-sc-oh-binary"
  BY <1>4 DEF Steps, RunScOhBinary, Do, Check, Llc, As, Out, Patched
<1> QED BY <1>1, <1>2, <1>3, <1>4 DEF All

(* Each tool is called in one place.                                       *)
LEMMA PlaceFacts ==
  ASSUME NEW s \in All, s # "run-llvm-patch", NEW i \in 1..Len(Steps(s))
  PROVE  /\ Steps(s)[i].tool = "llc" <=> i = Llc(s)
         /\ Steps(s)[i].tool = "as" <=> i = As(s)
         /\ Steps(s)[i].tool \in {"ld", "ldShared", "build"} <=> i = Out(s)
         /\ Steps(s)[i].tool = "patch" <=> i = Patched(s)
         /\ Steps(s)[i].tool = "link" => i = 5 /\ Llc(s) # 5
         /\ Steps(s)[i].tool = "build" <=> s = "run-binary-patch" /\ i = Out(s)
<1>1. CASE s = "run-sc" BY <1>1 DEF Steps, RunSc, Do, Check, Llc, As, Out, Patched
<1>2. CASE s = "run-binary-patch"
  BY <1>2 DEF Steps, RunBinaryPatch, Do, Check, Llc, As, Out, Patched
<1>3. CASE s = "run-sc-oh-eval"
  BY <1>3 DEF Steps, RunScOhEval, Do, Check, Llc, As, Out, Patched
<1>4. CASE s = "run-sc-oh-binary"
  BY <1>4 DEF Steps, RunScOhBinary, Do, Check, Llc, As, Out, Patched
<1> QED BY <1>1, <1>2, <1>3, <1>4 DEF All

(* run-sc-oh-eval.sh looks at the status of all its tools up to the        *)
(* patcher but two.                                                        *)
LEMMA EvalChecks ==
  ASSUME NEW i \in 1..10, i # 2, i # 3, i # 10
  PROVE  Steps("run-sc-oh-eval")[i].checked
BY DEF Steps, RunScOhEval, Do, Check

-----------------------------------------------------------------------------
(* The inductive invariant                                                 *)

Begun == script # "none" => job \in 1..MaxJobs

(* The script goes on or has come to its end.                              *)
Live == script # "none" /\ ~(Stopped /\ failed)

(* A script calls the pass once, with no guide left from before.           *)
Numbered ==
  /\ ~Stopped /\ step <= 4 => pass < job
  /\ ~Stopped /\ step = 4 => guide = <<>>
  /\ Live /\ step > 4 => \A i \in 1..Len(guide) : guide[i] = pass

(* What has failed so far leaves no file of an earlier script in use.      *)
Unbroken ==
  /\ script \notin {"none", "run-llvm-patch"}
  /\ ~failed \/ (script = "run-sc-oh-eval" /\ ~Stopped /\ step <= Patched(script))

(* The guards in a file are those of the guide, none of them patched.      *)
Fresh(n) ==
  /\ file[n] # NoFile
  /\ file[n].pass = pass
  /\ file[n].filled = [i \in 1..Len(guide) |-> Unpatched]
  /\ ~failed => file[n].job = job

(* What CleanRunProtects says of the binary.                               *)
Protected ==
  /\ file["out"] # NoFile
  /\ file["out"].job = job /\ file["out"].pass = pass
  /\ file["out"].filled # <<>> /\ Matched(file["out"])

Compiled == file["guarded.bc"] # NoFile /\ file["guarded.bc"].job = job

(* The files a script has made so far.                                     *)
Chain ==
  Unbroken =>
    /\ step > 2 /\ ~failed => Compiled
    /\ step > 4 => Fresh("out.bc")
    /\ script # "run-binary-patch" /\ step > Llc(script) => Fresh("out.s")
    /\ script # "run-binary-patch" /\ step > As(script) => Fresh("out.o")
    /\ step > Out(script) /\ step <= Patched(script) => Fresh("out")
    /\ step > Patched(script) => Protected

IInv == TypeOK /\ Begun /\ Numbered /\ Chain

-----------------------------------------------------------------------------
(* Steps of a script                                                       *)

(* A script that goes on is one of the five, at one of its tools.          *)
LEMMA Here ==
  ASSUME IInv, ~Stopped
  PROVE  /\ script \in All /\ Len(Steps(script)) \in 8..12
         /\ step \in 1..Len(Steps(script))
         /\ Steps(script)[step] \in [tool : Tools, checked : BOOLEAN]
<1>1. script \in All \cup {"none"}
  BY ScriptAssumption DEF IInv, TypeOK, All, ScriptAssumption
<1>2. script # "none" BY StepsAreSequences DEF IInv, TypeOK, Stopped
<1>3. script \in All BY <1>1, <1>2
<1>4. Steps(script) \in Seq([tool : Tools, checked : BOOLEAN])
  BY <1>3, StepsAreSequences
<1>5. Len(Steps(script)) \in Nat BY <1>4
<1>6. step \in 1..Len(Steps(script)) BY <1>5 DEF IInv, TypeOK, Stopped
<1>7. Len(Steps(script)) \in 8..12 BY <1>3, <1>6, ToolFacts
<1>8. Steps(script)[step] \in [tool : Tools, checked : BOOLEAN]
  BY <1>4, <1>6, ElementOfSeq
<1> QED BY <1>3, <1>6, <1>7, <1>8

(* A tool that fails ends run-sc-oh-eval.sh, unless it is the compiler     *)
(* (or the removal that cannot fail).                                      *)
LEMMA Onward ==
  ASSUME IInv, ~Stopped, Proceed \/ Fail
  PROVE  /\ job' = job /\ script' = script /\ failed' \in BOOLEAN
         /\ step' \in 1..(Len(Steps(script)) + 1)
         /\ Live' => step' = step + 1
         /\ Stopped' <=> step' > Len(Steps(script))
         /\ Unbroken' => /\ Unbroken /\ step' = step + 1
                         /\ Fail => step \in {2, 3}
         /\ Proceed => failed' = failed
         /\ Fail => failed' = TRUE
<1>1. /\ script \in All /\ Len(Steps(script)) \in 8..12 /\ step \in 1..Len(Steps(script))
      /\ Steps(script)[step] \in [tool : Tools, checked : BOOLEAN]
  BY Here
<1>2. job' = job /\ script' = script BY DEF Proceed, Fail
<1>3. Stopped' <=> step' > Len(Steps(script)) BY <1>2 DEF Stopped
<1>4. failed \in BOOLEAN BY DEF IInv, TypeOK
<1>5. Fail => failed' = TRUE BY DEF Fail
<1>6. Proceed => failed' = failed BY DEF Proceed
<1>7. ASSUME Unbroken', Fail PROVE Unbroken /\ step' = step + 1 /\ step \in {2, 3}
  <2>1. failed' = TRUE BY <1>7 DEF Fail
  <2>2. step' = step + 1 \/ step' = Len(Steps(script)) + 1 BY <1>7 DEF Fail
  <2>3. script = "run-sc-oh-eval" /\ ~Stopped' /\ step' <= Patched(script) /\ step' = step + 1
    BY <2>1, <2>2, <1>7, <1>1, <1>2, <1>3 DEF Unbroken
  <2>4. Patched(script) = 10 BY <2>3 DEF Patched
  <2>5. ~Steps(script)[step].checked BY <2>3, <1>1, <1>3, <1>7 DEF Fail
  <2>6. step \in {2, 3} BY <2>3, <2>4, <2>5, <1>1, EvalChecks
  <2>7. Unbroken BY <2>3, <2>4, <2>6 DEF Unbroken
  <2> QED BY <2>3, <2>6, <2>7
<1>8. CASE Proceed
  <2>1. step' = step + 1 /\ failed' = failed BY <1>8 DEF Proceed
  <2>2. Unbroken' => Unbroken
    <3>1. ~Stopped BY <1>8 DEF Proceed
    <3>2. CASE ~failed BY <3>2, <1>2 DEF Unbroken
    <3>3. CASE script = "run-sc-oh-eval"
      <4>1. Patched(script) = 10 BY <3>3 DEF Patched
      <4> QED BY <3>1, <3>3, <4>1, <1>1, <1>2, <2>1 DEF Unbroken
    <3> QED BY <3>2, <3>3, <1>2, <2>1 DEF Unbroken
  <2>3. step' \in 1..(Len(Steps(script)) + 1) BY <2>1, <1>1
  <2> QED BY <2>1, <2>2, <2>3, <1>2, <1>3, <1>4, <1>5, <1>6, <1>7
<1>9. CASE Fail
  <2>1. failed' = TRUE BY <1>9 DEF Fail
  <2>2. step' = step + 1 \/ step' = Len(Steps(script)) + 1 BY <1>9 DEF Fail
  <2>3. Live' => step' = step + 1 BY <2>1, <2>2, <1>1, <1>3 DEF Live
  <2>4. step' \in 1..(Len(Steps(script)) + 1) BY <2>2, <1>1
  <2> QED BY <2>1, <2>3, <2>4, <1>2, <1>3, <1>9, <1>5, <1>6, <1>7
<1> QED BY <1>8, <1>9

(* ToolFacts and PlaceFacts for the tool at hand.                          *)
LEMMA PlaceHere ==
  ASSUME IInv, ~Stopped, script # "run-llvm-patch"
  PROVE  /\ Llc(script) \in 0..12 /\ As(script) \in 0..12
         /\ Out(script) \in 0..12 /\ Patched(script) \in 0..12
         /\ 4 < Out(script) /\ Out(script) < Patched(script)
         /\ Patched(script) < Len(Steps(script))
         /\ script # "run-binary-patch" =>
              4 < Llc(script) /\ Llc(script) < As(script) /\ As(script) < Out(script)
         /\ script = "run-binary-patch" => Llc(script) = 0 /\ As(script) = 0
         /\ Tool = "llc" <=> step = Llc(script)
         /\ Tool = "as" <=> step = As(script)
         /\ Tool \in {"ld", "ldShared", "build"} <=> step = Out(script)
         /\ Tool = "patch" <=> step = Patched(script)
         /\ Tool = "link" => step = 5 /\ Llc(script) # 5
         /\ Tool = "build" <=> script = "run-binary-patch" /\ step = Out(script)
BY Here, Places, PlaceFacts DEF Tool

LEMMA ToolHere ==
  ASSUME IInv, ~Stopped
  PROVE  /\ Tool \in Tools
         /\ Tool = "opt" <=> step = 4
         /\ Tool \in {"compile", "compileLinked"} <=> step = 2
         /\ Tool \in {"clean", "cleanGuide"} <=> step = 3
         /\ Tool \in {"patch", "removeOut", "scpatch"} => step > 4
         /\ script # "run-llvm-patch" => Tool \notin {"removeOut", "scpatch"}
BY Here, ToolFacts DEF Tool

(* Only the removal and the pass write guide.txt.                          *)
LEMMA NumberedKept ==
  ASSUME IInv, ~Stopped, Proceed \/ Fail, UNCHANGED <<pass, guide>>, step \notin {3, 4}
  PROVE  Begun' /\ Numbered'
<1>1. /\ script \in All /\ step \in 1..Len(Steps(script))
  BY Here
<1>2. job' = job /\ script' = script /\ (Live' => step' = step + 1) BY Onward
<1>3. Live' <=> ~(Stopped' /\ failed') BY <1>1, <1>2 DEF Live, All
<1>4. Live BY <1>1 DEF Live, All
<1>5. Begun' BY <1>2 DEF IInv, Begun
<1>6. ~Stopped' => Live' BY <1>3
<1>7. Numbered' BY <1>1, <1>2, <1>4, <1>6 DEF IInv, Numbered
<1> QED BY <1>5, <1>7

(* The types of what every tool leaves alone.                              *)
LEMMA TypeKept ==
  ASSUME IInv, ~Stopped, Proceed \/ Fail, pass' \in 0..job,
         file' \in [FileNames -> Code \cup {NoFile}],
         guide' \in Seq(1..MaxJobs), patchGuide' \in Seq(1..MaxJobs)
  PROVE  TypeOK'
<1>1. /\ job' = job /\ script' = script /\ failed' \in BOOLEAN
      /\ step' \in 1..(Len(Steps(script)) + 1)
  BY Onward
<1> QED BY <1>1 DEF IInv, TypeOK

LEMMA LeftTyped ==
  ASSUME IInv, NEW n \in FileNames, Leaves(n)
  PROVE  file' \in [FileNames -> Code \cup {NoFile}]
BY DEF IInv, TypeOK, Leaves

-----------------------------------------------------------------------------
(* Each tool keeps the invariant: a tool makes its file of a file made     *)
(* before, and leaves the other files as they are.                         *)
LEMMA OtherStep == ASSUME IInv, Other PROVE IInv'
<1>1. /\ ~Stopped /\ (Proceed \/ Fail) /\ UNCHANGED <<pass, file, guide, patchGuide>>
      /\ Tool \in {"make", "response", "report", "run"}
  BY DEF Other
<1>2. step \notin {2, 3, 4} BY <1>1, ToolHere
<1>3. TypeOK' BY <1>1, TypeKept DEF IInv, TypeOK
<1>4. Begun' /\ Numbered' BY <1>1, <1>2, NumberedKept
<1>5. ASSUME Unbroken' PROVE Chain'
  <2>1. /\ Unbroken /\ step' = step + 1 /\ failed' = failed /\ script' = script /\ job' = job
    BY <1>1, <1>2, <1>5, Onward
  <2>2. script # "run-llvm-patch" BY <2>1 DEF Unbroken
  <2>3. step \in Nat BY <1>1, Here
  <2>4. \A n : Fresh(n) => Fresh(n)' BY <1>1, <2>1 DEF Fresh
  <2>5. Protected => Protected' BY <1>1, <2>1 DEF Protected, Matched
  <2>6. Compiled => Compiled' BY <1>1, <2>1 DEF Compiled
  <2>7. /\ step' > 2 => step > 2
        /\ step' > 4 => step > 4
        /\ script # "run-binary-patch" => /\ step' > Llc(script) => step > Llc(script)
                                          /\ step' > As(script) => step > As(script)
        /\ step' > Out(script) => step > Out(script)
        /\ step' <= Patched(script) => step <= Patched(script)
        /\ step' > Patched(script) => step > Patched(script)
    <3>1. step \notin {Llc(script), As(script), Out(script), Patched(script)}
      BY <1>1, <2>2, PlaceHere
    <3>2. /\ Llc(script) \in Nat /\ As(script) \in Nat
          /\ Out(script) \in Nat /\ Patched(script) \in Nat
      BY <1>1, <2>2, PlaceHere
    <3> QED BY <1>2, <2>1, <2>3, <3>1, <3>2
  <2> QED BY <2>1, <2>4, <2>5, <2>6, <2>7 DEF IInv, Chain
<1>6. Chain' BY <1>5 DEF Chain
<1> QED BY <1>3, <1>4, <1>6 DEF IInv

LEMMA CompileStep == ASSUME IInv, Compile PROVE IInv'
<1>1. /\ ~Stopped /\ (Proceed \/ Fail) /\ UNCHANGED <<pass, guide, patchGuide>>
      /\ Tool \in {"compile", "compileLinked"}
  BY DEF Compile
<1>2. step = 2 BY <1>1, ToolHere
<1> DEFINE new == [job |-> job, pass |-> 0, linked |-> Tool = "compileLinked", filled |-> <<>>]
<1>3. script \in All /\ job \in 1..MaxJobs BY <1>1, Here DEF IInv, Begun, All
<1>4. new \in Code
  <2>1. <<>> \in [1..0 -> Unpatched..Zero] OBVIOUS
  <2>2. 0 \in 0..MaxGuards BY BoundAssumption DEF BoundAssumption
  <2>3. <<>> \in UNION {[1..n -> Unpatched..Zero] : n \in 0..MaxGuards} BY <2>1, <2>2
  <2>4. 0 \in 0..MaxJobs BY BoundAssumption DEF BoundAssumption
  <2> QED BY <2>3, <2>4, <1>3 DEF Code
<1>5. new # NoFile BY <1>4, FileAssumption DEF FileAssumption
<1>6. file' = [file EXCEPT !["guarded.bc"] = new] \/ (Fail /\ Leaves("guarded.bc"))
  BY DEF Compile
<1>7. "guarded.bc" \in FileNames BY DEF FileNames
<1>8. file' \in [FileNames -> Code \cup {NoFile}]
  BY <1>4, <1>6, <1>7, LeftTyped DEF IInv, TypeOK
<1>9. TypeOK' BY <1>1, <1>8, TypeKept DEF IInv, TypeOK
<1>10. Begun' /\ Numbered' BY <1>1, <1>2, NumberedKept
<1>11. ASSUME Unbroken' PROVE Chain'
  <2>1. /\ Unbroken /\ step' = step + 1 /\ script' = script /\ job' = job
        /\ Fail => failed' = TRUE
    BY <1>1, <1>11, Onward
  <2>2. /\ Unbroken /\ step' = 3 /\ script' = script /\ job' = job
        /\ Fail => failed' = TRUE
    BY <1>2, <2>1
  <2>3. script # "run-llvm-patch" BY <2>2 DEF Unbroken
  <2>4. ~failed' => Compiled'
    BY <1>5, <1>6, <1>7, <2>2 DEF Compiled, IInv, TypeOK
  <2> QED BY <1>1, <2>2, <2>3, <2>4, PlaceHere DEF Chain
<1>12. Chain' BY <1>11 DEF Chain
<1> QED BY <1>9, <1>10, <1>12 DEF IInv

LEMMA RemoveStep == ASSUME IInv, Remove PROVE IInv'
<1>1. /\ ~Stopped /\ Proceed /\ UNCHANGED <<pass, patchGuide>>
      /\ Tool \in {"clean", "cleanGuide", "removeOut"}
      /\ guide' = IF Tool = "removeOut" THEN guide ELSE <<>>
  BY DEF Remove
<1>2. file' \in [FileNames -> Code \cup {NoFile}] /\ file'["guarded.bc"] = file["guarded.bc"]
  BY DEF Remove, IInv, TypeOK, FileNames
<1>3. /\ job' = job /\ script' = script /\ failed' = failed /\ (Live' => step' = step + 1)
      /\ Unbroken' => Unbroken /\ step' = step + 1
  BY <1>1, Onward
<1>4. /\ script \in All /\ step \in 1..Len(Steps(script)) /\ Len(Steps(script)) \in 8..12
  BY <1>1, Here
<1>5. <<>> \in Seq(1..MaxJobs) OBVIOUS
<1>6. guide' \in Seq(1..MaxJobs) BY <1>1, <1>5 DEF IInv, TypeOK
<1>7. TypeOK' BY <1>1, <1>2, <1>6, TypeKept DEF IInv, TypeOK
<1>8. Begun' BY <1>3 DEF IInv, Begun
<1>9. Numbered'
  <2>1. step' = step + 1 BY <1>1 DEF Proceed
  <2>2. CASE Tool = "removeOut"
    <3>1. step > 4 /\ guide' = guide BY <1>1, <2>2, ToolHere
    <3>2. Live BY <1>1, <1>4 DEF Live, All
    <3> QED BY <1>1, <1>3, <1>4, <2>1, <3>1, <3>2 DEF IInv, Numbered
  <2>3. CASE Tool # "removeOut"
    <3>1. step = 3 /\ guide' = <<>> BY <1>1, <2>3, ToolHere
    <3> QED BY <1>1, <1>3, <1>4, <2>1, <3>1 DEF IInv, Numbered
  <2> QED BY <2>2, <2>3
<1>10. ASSUME Unbroken' PROVE Chain'
  <2>1. Unbroken /\ step' = step + 1 BY <1>3, <1>10
  <2>2. script # "run-llvm-patch" BY <2>1 DEF Unbroken
  <2>3. step = 3 BY <1>1, <2>2, ToolHere
  <2>4. ~failed => Compiled BY <2>1, <2>3 DEF IInv, Chain
  <2>5. Compiled => Compiled' BY <1>2, <1>3 DEF Compiled
  <2> QED BY <1>1, <1>3, <2>1, <2>2, <2>3, <2>4, <2>5, PlaceHere DEF Chain
<1>11. Chain' BY <1>10 DEF Chain
<1> QED BY <1>7, <1>8, <1>9, <1>11 DEF IInv

LEMMA OptStep == ASSUME IInv, Opt PROVE IInv'
<1>1. /\ ~Stopped /\ (Proceed \/ Fail) /\ UNCHANGED patchGuide /\ pass' = pass + 1
      /\ Tool \in {"opt", "optInPlace"}
  BY DEF Opt
<1>2. Tool = "opt" /\ step = 4 BY <1>1, ToolHere DEF Tools
<1>3. PICK n \in 0..MaxGuards :
         /\ guide' = guide \o [i \in 1..n |-> pass + 1]
         /\ \/ /\ Proceed
               /\ file["guarded.bc"] # NoFile
               /\ file' = [file EXCEPT !["out.bc"] =
                    [file["guarded.bc"] EXCEPT !.pass = pass + 1,
                                               !.filled = [i \in 1..n |-> Unpatched]]]
            \/ Fail /\ Leaves("out.bc")
  BY <1>2 DEF Opt
<1> DEFINE lines == [i \in 1..n |-> pass + 1]
           new == [file["guarded.bc"] EXCEPT !.pass = pass + 1,
                                             !.filled = [i \in 1..n |-> Unpatched]]
<1>4. script \in All /\ job \in 1..MaxJobs /\ pass \in Nat /\ pass < job /\ guide = <<>> /\ n \in Nat
      /\ MaxJobs \in Nat /\ MaxGuards \in Nat
  BY <1>1, <1>2, <1>3, Here, BoundAssumption
  DEF IInv, Begun, Numbered, All, TypeOK, BoundAssumption
<1>5. lines \in Seq(1..MaxJobs) /\ Len(lines) = n BY <1>4
<1>6. guide' = lines
  <2>1. <<>> \o lines = lines BY <1>5, ConcatEmptySeq
  <2> QED BY <1>3, <1>4, <2>1
<1>7. file["guarded.bc"] # NoFile => new \in Code
  <2>1. [i \in 1..n |-> Unpatched] \in UNION {[1..m -> Unpatched..Zero] : m \in 0..MaxGuards}
    <3>1. [i \in 1..n |-> Unpatched] \in [1..n -> Unpatched..Zero]
      BY <1>4 DEF Unpatched, Zero
    <3> QED BY <3>1
  <2>2. pass + 1 \in 0..MaxJobs BY <1>4
  <2>3. file["guarded.bc"] # NoFile => file["guarded.bc"] \in Code
    BY DEF IInv, TypeOK, FileNames
  <2> QED BY <2>1, <2>2, <2>3 DEF Code
<1>8. "out.bc" \in FileNames BY DEF FileNames
<1>9. file' \in [FileNames -> Code \cup {NoFile}]
  BY <1>3, <1>7, <1>8, LeftTyped DEF IInv, TypeOK
<1>10. pass' \in 0..job BY <1>1, <1>4
<1>11. TypeOK' BY <1>1, <1>5, <1>6, <1>9, <1>10, TypeKept DEF IInv, TypeOK
<1>12. /\ job' = job /\ script' = script /\ (Live' => step' = step + 1)
       /\ Unbroken' => Unbroken /\ step' = step + 1 /\ (Fail => step \in {2, 3})
       /\ (Proceed => failed' = failed)
  BY <1>1, Onward
<1>13. Begun' BY <1>12 DEF IInv, Begun
<1>14. Numbered'
  <2>1. ~Stopped' => Live' BY <1>4, <1>12 DEF Live, All
  <2>2. \A i \in 1..Len(guide') : guide'[i] = pass' BY <1>1, <1>5, <1>6
  <2> QED BY <1>2, <1>12, <2>1, <2>2 DEF Numbered
<1>15. ASSUME Unbroken' PROVE Chain'
  <2>1. Unbroken /\ step' = 5 /\ ~Fail BY <1>2, <1>12, <1>15
  <2>2. Proceed /\ failed' = failed BY <1>1, <1>12, <2>1
  <2>3. file["guarded.bc"] # NoFile /\ file'["out.bc"] = new
        /\ file'["guarded.bc"] = file["guarded.bc"]
    BY <1>3, <1>8, <2>1 DEF IInv, TypeOK, FileNames
  <2>4. file["guarded.bc"] \in Code BY <2>3 DEF IInv, TypeOK, FileNames
  <2>5. new # NoFile BY <1>7, <2>3, FileAssumption DEF FileAssumption
  <2>6. ~failed => Compiled BY <1>2, <2>1 DEF IInv, Chain
  <2>7. ~failed' => Compiled' BY <1>12, <2>2, <2>3, <2>6 DEF Compiled
  <2>8. new.pass = pass + 1 /\ new.filled = [i \in 1..n |-> Unpatched]
        /\ new.job = file["guarded.bc"].job
    BY <2>4 DEF Code
  <2>9. Fresh("out.bc")'
    BY <1>1, <1>5, <1>6, <1>12, <2>2, <2>3, <2>5, <2>6, <2>8 DEF Fresh, Compiled
  <2>10. script # "run-llvm-patch" BY <2>1 DEF Unbroken
  <2>11. /\ 4 < Out(script) /\ 4 < Patched(script) /\ Out(script) \in Nat
         /\ Patched(script) \in Nat /\ Llc(script) \in Nat /\ As(script) \in Nat
         /\ script # "run-binary-patch" => 4 < Llc(script) /\ 4 < As(script)
    <3>1. /\ Llc(script) \in 0..12 /\ As(script) \in 0..12
          /\ Out(script) \in 0..12 /\ Patched(script) \in 0..12
          /\ 4 < Out(script) /\ Out(script) < Patched(script)
          /\ script # "run-binary-patch" => 4 < Llc(script) /\ Llc(script) < As(script)
      BY <1>1, <2>10, PlaceHere
    <3> QED BY <3>1
  <2>12. script' = script BY <1>12
  <2> QED BY <2>1, <2>7, <2>9, <2>11, <2>12 DEF Chain
<1>16. Chain' BY <1>15 DEF Chain
<1> QED BY <1>11, <1>13, <1>14, <1>16 DEF IInv

LEMMA TranslateStep == ASSUME IInv, Translate PROVE IInv'
<1>1. /\ ~Stopped /\ (Proceed \/ Fail) /\ UNCHANGED <<pass, guide, patchGuide>>
      /\ Tool \in {"link", "llc", "as", "ld", "ldShared", "build"}
  BY DEF Translate, From
<1> DEFINE source == file[From[Tool]]
           new == [source EXCEPT !.linked = @ \/ Tool = "link"]
<1>2. \/ Proceed /\ source # NoFile /\ file' = [file EXCEPT ![To[Tool]] = new]
      \/ Fail /\ Leaves(To[Tool])
  BY DEF Translate, Translatable
<1>3. From[Tool] \in FileNames /\ To[Tool] \in FileNames
  BY <1>1 DEF From, To, FileNames
<1>4. source # NoFile => source \in Code BY <1>3 DEF IInv, TypeOK
<1>5. source # NoFile => /\ new \in Code /\ new.pass = source.pass
                         /\ new.filled = source.filled /\ new.job = source.job
  BY <1>4 DEF Code
<1>6. file' \in [FileNames -> Code \cup {NoFile}]
  BY <1>2, <1>3, <1>5, LeftTyped DEF IInv, TypeOK
<1>7. TypeOK' BY <1>1, <1>6, TypeKept DEF IInv, TypeOK
<1>8. step \notin {2, 3, 4} BY <1>1, ToolHere
<1>9. Begun' /\ Numbered' BY <1>1, <1>8, NumberedKept
<1>10. ASSUME Unbroken' PROVE Chain'
  <2>1. /\ Unbroken /\ step' = step + 1 /\ ~Fail /\ script' = script /\ job' = job
        /\ Proceed => failed' = failed
    BY <1>1, <1>8, <1>10, Onward
  <2>2. /\ source # NoFile /\ file' = [file EXCEPT ![To[Tool]] = new] /\ failed' = failed
    BY <1>2, <2>1
  <2>3. new # NoFile BY <1>5, <2>2, FileAssumption DEF FileAssumption
  <2>4. file'[To[Tool]] = new /\ \A n \in FileNames \ {To[Tool]} : file'[n] = file[n]
    BY <1>3, <2>2 DEF IInv, TypeOK
  <2>5. \A n : n = To[Tool] /\ Fresh(From[Tool]) => Fresh(n)'
    BY <1>1, <1>5, <2>1, <2>2, <2>3, <2>4 DEF Fresh
  <2>6. \A n \in FileNames \ {To[Tool]} : Fresh(n) => Fresh(n)'
    BY <1>1, <2>1, <2>2, <2>4 DEF Fresh
  <2>7. Compiled => Compiled' BY <1>1, <2>1, <2>4 DEF Compiled, To, FileNames
  <2>8. script # "run-llvm-patch" BY <2>1 DEF Unbroken
  <2>9. step \in Nat \ {0} BY <1>1, Here
  <2>10. CASE Tool = "link"
    <3>1. Fresh("out.bc") => Fresh("out.bc")' BY <2>5, <2>10 DEF From, To
    <3>2. \A n \in {"out.s", "out.o", "out"} : Fresh(n) => Fresh(n)'
      BY <2>6, <2>10 DEF To, FileNames
    <3> QED BY <1>1, <1>8, <2>1, <2>2, <2>7, <2>8, <2>9, <2>10, <3>1, <3>2, PlaceHere
            DEF IInv, Chain
  <2>11. CASE Tool = "llc"
    <3>1. Fresh("out.bc") => Fresh("out.s")' BY <2>5, <2>11 DEF From, To
    <3>2. \A n \in {"out.bc", "out.o", "out"} : Fresh(n) => Fresh(n)'
      BY <2>6, <2>11 DEF To, FileNames
    <3>3. step = Llc(script) BY <1>1, <2>8, <2>11, PlaceHere
    <3>4. /\ Llc(script) \in Nat /\ As(script) \in Nat
          /\ Out(script) \in Nat /\ Patched(script) \in Nat
          /\ Out(script) < Patched(script)
          /\ script # "run-binary-patch" =>
               4 < Llc(script) /\ Llc(script) < As(script) /\ As(script) < Out(script)
          /\ script = "run-binary-patch" => Llc(script) = 0 /\ As(script) = 0
      BY <1>1, <2>8, PlaceHere
    <3>5. /\ step = Llc(script) /\ script # "run-binary-patch" /\ step > 4
          /\ step < Out(script) /\ step < Patched(script) /\ step <= As(script)
          /\ step < As(script)
      BY <2>9, <3>3, <3>4
    <3>6. (~failed => Compiled) /\ Fresh("out.bc") BY <2>1, <2>9, <3>5 DEF IInv, Chain
    <3> QED BY <2>1, <2>2, <2>7, <2>9, <3>1, <3>2, <3>5, <3>6, <3>4 DEF Chain
  <2>12. CASE Tool = "as"
    <3>1. Fresh("out.s") => Fresh("out.o")' BY <2>5, <2>12 DEF From, To
    <3>2. \A n \in {"out.bc", "out.s", "out"} : Fresh(n) => Fresh(n)'
      BY <2>6, <2>12 DEF To, FileNames
    <3>3. step = As(script) BY <1>1, <2>8, <2>12, PlaceHere
    <3>4. /\ Llc(script) \in Nat /\ As(script) \in Nat
          /\ Out(script) \in Nat /\ Patched(script) \in Nat
          /\ Out(script) < Patched(script)
          /\ script # "run-binary-patch" =>
               4 < Llc(script) /\ Llc(script) < As(script) /\ As(script) < Out(script)
          /\ script = "run-binary-patch" => Llc(script) = 0 /\ As(script) = 0
      BY <1>1, <2>8, PlaceHere
    <3>5. /\ step = As(script) /\ script # "run-binary-patch" /\ step > 4
          /\ step < Out(script) /\ step < Patched(script) /\ step <= As(script)
          /\ step > Llc(script)
      BY <2>9, <3>3, <3>4
    <3>6. (~failed => Compiled) /\ Fresh("out.bc") /\ Fresh("out.s")
      BY <2>1, <2>9, <3>5, <3>4 DEF IInv, Chain
    <3> QED BY <2>1, <2>2, <2>7, <2>9, <3>1, <3>2, <3>5, <3>6, <3>4 DEF Chain
  <2>13. CASE Tool \in {"ld", "ldShared", "build"}
    <3>1. step = Out(script) BY <1>1, <2>8, <2>13, PlaceHere
    <3>2. Fresh(From[Tool])
      <4>1. CASE Tool = "build"
        BY <1>1, <2>1, <2>8, <3>1, <4>1, PlaceHere DEF IInv, Chain, From
      <4>2. CASE Tool # "build"
        <5>1. script # "run-binary-patch" BY <1>1, <2>8, <3>1, <4>2, PlaceHere
        <5>2. Fresh("out.o")
          BY <1>1, <2>1, <2>8, <3>1, <5>1, PlaceHere DEF IInv, Chain
        <5> QED BY <2>13, <4>2, <5>2 DEF From
      <4> QED BY <4>1, <4>2
    <3>3. Fresh("out")' BY <2>5, <2>13, <3>2 DEF To
    <3>4. \A n \in {"out.bc", "out.s", "out.o"} : Fresh(n) => Fresh(n)'
      BY <2>6, <2>13 DEF To, FileNames
    <3> QED BY <1>1, <1>8, <2>1, <2>2, <2>7, <2>8, <2>9, <3>1, <3>3, <3>4, PlaceHere
            DEF IInv, Chain
  <2> QED BY <1>1, <2>10, <2>11, <2>12, <2>13
<1>11. Chain' BY <1>10 DEF Chain
<1> QED BY <1>7, <1>9, <1>11 DEF IInv

-----------------------------------------------------------------------------
(* The patcher                                                             *)

(* In a guide of one execution the number of a line is its place.          *)
LEMMA NumberIs ==
  ASSUME guide \in Seq(1..MaxJobs), \A i \in 1..Len(guide) : guide[i] = pass,
         NEW i \in 1..Len(guide)
  PROVE  Number(i) = i
<1>1. {j \in 1..i : guide[j] = guide[i]} = 1..i OBVIOUS
<1>2. Cardinality(1..i) = i BY FS_Interval
<1> QED BY <1>1, <1>2 DEF Number

(* So that a guard is patched from the one line with its number.           *)
LEMMA FilledIs ==
  ASSUME guide \in Seq(1..MaxJobs), \A i \in 1..Len(guide) : guide[i] = pass,
         NEW n \in 0..Len(guide), NEW k
  PROVE  FilledBy(k, n) = IF k \in 1..n THEN guide[k] ELSE file["out"].filled[k]
<1> DEFINE lines == {i \in 1..n : Number(i) = k}
<1>1. lines = IF k \in 1..n THEN {k} ELSE {} BY NumberIs
<1>2. CASE k \in 1..n
  <2>1. (CHOOSE i \in lines : \A j \in lines : j <= i) = k BY <1>1, <1>2
  <2>2. lines # {} BY <1>1, <1>2
  <2>3. FilledBy(k, n) = guide[CHOOSE i \in lines : \A j \in lines : j <= i]
    BY <2>2 DEF FilledBy
  <2> QED BY <1>2, <2>1, <2>3
<1>3. CASE k \notin 1..n BY <1>1, <1>3 DEF FilledBy
<1> QED BY <1>2, <1>3

(* At the patcher the guide is of the last execution.                      *)
LEMMA LinesOfPass ==
  ASSUME IInv, ~Stopped, Tool = "patch"
  PROVE  \A i \in 1..Len(guide) : guide[i] = pass
<1>1. step > 4 BY ToolHere
<1>2. Live BY Here DEF Live, All
<1> QED BY <1>1, <1>2 DEF IInv, Numbered

(* The binary, patched with the first n lines.                             *)
LEMMA PatchedTyped ==
  ASSUME IInv, ~Stopped, Tool = "patch", file["out"] # NoFile, NEW n \in 0..Len(guide)
  PROVE  /\ PatchedOut(n) \in Code /\ PatchedOut(n).job = file["out"].job
         /\ PatchedOut(n).pass = file["out"].pass
         /\ DOMAIN PatchedOut(n).filled = DOMAIN file["out"].filled
         /\ \A k \in DOMAIN file["out"].filled :
              PatchedOut(n).filled[k] =
                IF k \in 1..n THEN guide[k] ELSE file["out"].filled[k]
<1> DEFINE old == file["out"].filled
           new == [k \in DOMAIN old |-> FilledBy(k, n)]
<1>1. file["out"] \in Code BY DEF IInv, TypeOK, FileNames
<1>2. PICK m \in 0..MaxGuards : old \in [1..m -> Unpatched..Zero] BY <1>1 DEF Code
<1>3. guide \in Seq(1..MaxJobs) BY DEF IInv, TypeOK
<1>4. \A i \in 1..Len(guide) : guide[i] = pass BY LinesOfPass
<1>5. \A k : FilledBy(k, n) = IF k \in 1..n THEN guide[k] ELSE old[k]
  BY <1>3, <1>4, FilledIs
<1>6. \A k \in 1..n : guide[k] \in Unpatched..Zero
  <2>1. \A k \in 1..n : k \in 1..Len(guide) BY <1>3
  <2>2. \A k \in 1..n : guide[k] \in 1..MaxJobs BY <1>3, <2>1, ElementOfSeq
  <2>3. MaxJobs \in Nat BY BoundAssumption DEF BoundAssumption
  <2> QED BY <2>2, <2>3 DEF Unpatched, Zero
<1>7. new \in [1..m -> Unpatched..Zero] BY <1>2, <1>5, <1>6
<1>8. new \in UNION {[1..l -> Unpatched..Zero] : l \in 0..MaxGuards} BY <1>7
<1>9. PatchedOut(n) = [file["out"] EXCEPT !.filled = new] BY DEF PatchedOut
<1> HIDE DEF new
<1>10. PatchedOut(n) \in Code /\ PatchedOut(n).filled = new
       /\ PatchedOut(n).job = file["out"].job /\ PatchedOut(n).pass = file["out"].pass
  BY <1>1, <1>8, <1>9 DEF Code
<1>11. /\ DOMAIN new = DOMAIN old
       /\ \A k \in DOMAIN old : new[k] = IF k \in 1..n THEN guide[k] ELSE old[k]
  BY <1>5 DEF new
<1> QED BY <1>10, <1>11

LEMMA PatchStep == ASSUME IInv, Patch PROVE IInv'
<1>1. /\ ~Stopped /\ (Proceed \/ Fail) /\ UNCHANGED <<pass, guide>>
      /\ Tool = "patch"
  BY DEF Patch
<1>2. \/ /\ Proceed /\ GuideFits
         /\ file' = [file EXCEPT !["out"] = PatchedOut(Len(guide))]
         /\ patchGuide' = guide
      \/ /\ Fail /\ GuideFits
         /\ \E n \in 0..Len(guide) : file' = [file EXCEPT !["out"] = PatchedOut(n)]
         /\ UNCHANGED patchGuide
      \/ Fail /\ UNCHANGED <<file, patchGuide>>
  BY DEF Patch
<1>3. step > 4 /\ step \in Nat BY <1>1, ToolHere, Here
<1>4. step \notin {2, 3} BY <1>3
<1>5. GuideFits => file["out"] # NoFile /\ guide # <<>> BY DEF GuideFits
<1>6. guide \in Seq(1..MaxJobs) /\ Len(guide) \in 0..Len(guide) BY DEF IInv, TypeOK
<1>7. "out" \in FileNames BY DEF FileNames
<1>8. file' \in [FileNames -> Code \cup {NoFile}]
  BY <1>1, <1>2, <1>5, <1>6, <1>7, PatchedTyped DEF IInv, TypeOK
<1>9. patchGuide' \in Seq(1..MaxJobs) BY <1>2 DEF IInv, TypeOK
<1>10. TypeOK' BY <1>1, <1>8, <1>9, TypeKept DEF IInv, TypeOK
<1>11. Begun' /\ Numbered' BY <1>1, <1>3, NumberedKept
<1>12. ASSUME Unbroken' PROVE Chain'
  <2>1. /\ Unbroken /\ step' = step + 1 /\ ~Fail /\ script' = script /\ job' = job
        /\ Proceed => failed' = failed
    BY <1>1, <1>4, <1>12, Onward
  <2>2. script # "run-llvm-patch" BY <2>1 DEF Unbroken
  <2>3. /\ file' = [file EXCEPT !["out"] = PatchedOut(Len(guide))] /\ failed' = failed
        /\ file["out"] # NoFile /\ guide # <<>>
    BY <1>2, <1>5, <2>1
  <2>4. step = Patched(script) /\ step > Out(script) /\ step < Len(Steps(script))
    BY <1>1, <2>2, PlaceHere
  <2>5. Fresh("out") BY <1>3, <2>1, <2>4 DEF IInv, Chain
  <2>6. ~failed'
    <3>1. script = "run-sc-oh-eval" => step' > Patched(script)' BY <1>3, <2>1, <2>4
    <3>2. Patched(script) \in 0..12 BY <1>1, <2>2, PlaceHere
    <3> QED BY <1>3, <1>12, <2>1, <2>4, <3>1, <3>2 DEF Unbroken
  <2>7. file["out"].job = job BY <2>3, <2>5, <2>6 DEF Fresh
  <2>8. file'["out"] = PatchedOut(Len(guide))
        /\ \A n \in FileNames \ {"out"} : file'[n] = file[n]
    BY <1>7, <2>3 DEF IInv, TypeOK
  <2>9. file["out"].filled = [i \in 1..Len(guide) |-> Unpatched] /\ file["out"].pass = pass
    BY <2>5 DEF Fresh
  <2>10. Protected'
    <3> DEFINE out == PatchedOut(Len(guide))
    <3>1. out \in Code /\ out.job = job /\ out.pass = pass
      BY <1>1, <1>6, <2>3, <2>7, <2>9, PatchedTyped
    <3>2. /\ DOMAIN out.filled = 1..Len(guide)
          /\ \A k \in 1..Len(guide) : out.filled[k] = guide[k]
      BY <1>1, <1>6, <2>3, <2>9, PatchedTyped
    <3>3. \A k \in 1..Len(guide) : out.filled[k] = pass BY <1>1, <3>2, LinesOfPass
    <3>4. out.filled # <<>>
      <4>1. Len(guide) # 0 BY <1>6, <2>3, EmptySeq
      <4>2. DOMAIN <<>> = 1..0 OBVIOUS
      <4> QED BY <1>6, <3>2, <4>1, <4>2
    <3>5. out # NoFile BY <3>1, FileAssumption DEF FileAssumption
    <3> HIDE DEF out
    <3>6. file'["out"] = out BY <2>8 DEF out
    <3> QED BY <1>1, <2>1, <3>1, <3>2, <3>3, <3>4, <3>5, <3>6 DEF Protected, Matched
  <2>11. \A n \in {"out.bc", "out.s", "out.o"} : Fresh(n) => Fresh(n)'
    BY <1>1, <2>1, <2>3, <2>8 DEF Fresh, FileNames
  <2>12. Compiled => Compiled' BY <2>1, <2>8 DEF Compiled, FileNames
  <2> QED BY <1>1, <1>3, <2>1, <2>2, <2>3, <2>4, <2>10, <2>11, <2>12, PlaceHere
         DEF IInv, Chain
<1>13. Chain' BY <1>12 DEF Chain
<1> QED BY <1>10, <1>11, <1>13 DEF IInv

-----------------------------------------------------------------------------
(* The rest of the steps.                                                  *)
LEMMA ScPatchStep == ASSUME IInv, ScPatch PROVE IInv'
<1>1. /\ ~Stopped /\ (Proceed \/ Fail) /\ UNCHANGED <<pass, guide, patchGuide>>
      /\ Tool = "scpatch"
  BY DEF ScPatch
<1>2. \/ file' = [file EXCEPT !["out.bc"] = file["out.bc"]]
      \/ Leaves("out.bc")
  BY DEF ScPatch, ScPatched, StoreMarks
<1>3. step > 4 /\ script = "run-llvm-patch" BY <1>1, ToolHere
<1>4. step \notin {3, 4} BY <1>1, <1>3, Here
<1>5. "out.bc" \in FileNames BY DEF FileNames
<1>6. file' \in [FileNames -> Code \cup {NoFile}]
  BY <1>2, <1>5, LeftTyped DEF IInv, TypeOK
<1>7. TypeOK' BY <1>1, <1>6, TypeKept DEF IInv, TypeOK
<1>8. Begun' /\ Numbered' BY <1>1, <1>4, NumberedKept
<1>9. script' = script BY <1>1, Onward
<1>10. Chain' BY <1>3, <1>9 DEF Chain, Unbroken
<1> QED BY <1>7, <1>8, <1>10 DEF IInv

LEMMA InterruptStep == ASSUME IInv, Interrupt PROVE IInv'
<1>1. /\ ~Stopped /\ step' = Len(Steps(script)) + 1 /\ failed' = TRUE
      /\ UNCHANGED <<job, script, pass, file, guide, patchGuide>>
  BY DEF Interrupt
<1>2. Len(Steps(script)) \in 8..12 BY <1>1, Here
<1>3. Stopped' BY <1>1, <1>2 DEF Stopped
<1>4. TypeOK' BY <1>1, <1>2 DEF IInv, TypeOK
<1>5. Begun' BY <1>1 DEF IInv, Begun
<1>6. Numbered' BY <1>1, <1>3 DEF Numbered, Live
<1>7. Chain' BY <1>1, <1>3 DEF Chain, Unbroken
<1> QED BY <1>4, <1>5, <1>6, <1>7 DEF IInv

LEMMA BeginStep ==
  ASSUME IInv, NEW s \in Scripts, Begin(s) PROVE IInv'
<1>1. /\ job < MaxJobs /\ job' = job + 1 /\ script' = s /\ step' = 1 /\ failed' = FALSE
      /\ UNCHANGED <<pass, file, guide, patchGuide>>
  BY DEF Begin
<1>2. job \in Nat /\ MaxJobs \in Nat /\ pass \in 0..job
  BY BoundAssumption DEF IInv, TypeOK, BoundAssumption
<1>3. s \in All BY ScriptAssumption DEF ScriptAssumption, All
<1>4. Len(Steps(s)) \in Nat BY <1>3, StepsAreSequences
<1>5. TypeOK'
  <2>1. job' \in 0..MaxJobs /\ pass' \in 0..job' BY <1>1, <1>2
  <2>2. step' \in 1..(Len(Steps(script')) + 1) BY <1>1, <1>4
  <2> QED BY <1>1, <2>1, <2>2 DEF IInv, TypeOK
<1>6. Begun' BY <1>1, <1>2 DEF Begun
<1>7. Numbered' BY <1>1, <1>2 DEF Numbered
<1>8. Chain'
  <2>1. CASE s = "run-llvm-patch" BY <1>1, <2>1 DEF Chain, Unbroken
  <2>2. CASE s # "run-llvm-patch" BY <1>1, <1>3, <2>2, Places DEF Chain
  <2> QED BY <2>1, <2>2
<1> QED BY <1>5, <1>6, <1>7, <1>8 DEF IInv

-----------------------------------------------------------------------------
(* The invariant is inductive.                                             *)
LEMMA Inductive == IInv /\ [Next]_vars => IInv'
<1> SUFFICES ASSUME IInv, [Next]_vars PROVE IInv' OBVIOUS
<1>1. CASE \E s \in Scripts : Begin(s) BY <1>1, BeginStep
<1>2. CASE Other BY <1>2, OtherStep
<1>3. CASE Compile BY <1>3, CompileStep
<1>4. CASE Remove BY <1>4, RemoveStep
<1>5. CASE Opt BY <1>5, OptStep
<1>6. CASE Translate BY <1>6, TranslateStep
<1>7. CASE Patch BY <1>7, PatchStep
<1>8. CASE ScPatch BY <1>8, ScPatchStep
<1>9. CASE Interrupt BY <1>9, InterruptStep
<1>10. CASE UNCHANGED vars
  <2>1. TypeOK' BY <1>10 DEF IInv, TypeOK, vars
  <2>2. Begun' BY <1>10 DEF IInv, Begun, vars
  <2>3. Numbered' BY <1>10 DEF IInv, Numbered, Live, Stopped, vars
  <2>4. Chain'
    BY <1>10 DEF IInv, Chain, Unbroken, Compiled, Fresh, Protected, Matched, Stopped, vars
  <2> QED BY <2>1, <2>2, <2>3, <2>4 DEF IInv
<1> QED BY <1>1, <1>2, <1>3, <1>4, <1>5, <1>6, <1>7, <1>8, <1>9, <1>10 DEF Next

LEMMA Initial == Init => IInv
<1> SUFFICES ASSUME Init PROVE IInv OBVIOUS
<1>1. TypeOK
  <2>1. Steps("none") = <<>> BY StepsAreSequences
  <2>2. step \in 1..(Len(Steps(script)) + 1) BY <2>1 DEF Init
  <2>3. 0 \in 0..MaxJobs BY BoundAssumption DEF BoundAssumption
  <2>4. <<>> \in Seq(1..MaxJobs) OBVIOUS
  <2>5. file \in [FileNames -> Code \cup {NoFile}] BY DEF Init
  <2>6. pass \in 0..job BY DEF Init
  <2> QED BY <2>2, <2>3, <2>4, <2>5, <2>6 DEF Init, TypeOK
<1>2. Stopped BY StepsAreSequences DEF Init, Stopped
<1>3. Begun BY DEF Init, Begun
<1>4. Numbered BY <1>2 DEF Init, Numbered, Live
<1>5. Chain BY DEF Init, Chain, Unbroken
<1> QED BY <1>1, <1>3, <1>4, <1>5 DEF IInv

LEMMA Always == Spec => []IInv
BY Initial, Inductive, PTL DEF Spec

-----------------------------------------------------------------------------
(* The variables stay within their types; in particular the pass is never  *)
(* executed more often than scripts are called.                            *)
THEOREM ToolchainTypeCorrect == Spec => []TypeOK
<1>1. IInv => TypeOK BY DEF IInv
<1> QED BY <1>1, Always, PTL

(* The patcher never reads a line of an earlier execution of the pass.     *)
THEOREM GuidesAreFresh == Spec => []GuideOfOneExecution
<1>1. IInv => GuideOfOneExecution
  BY LinesOfPass DEF GuideOfOneExecution, Patching
<1> QED BY <1>1, Always, PTL

(* A script of which no tool has failed leaves the program it was called   *)
(* with, each guard patched from its own line, whatever files it found.    *)
THEOREM CleanRunsProtect == Spec => []CleanRunProtects
<1>1. ASSUME IInv, Stopped, ~failed, script \notin {"none", "run-llvm-patch"}
      PROVE  Protected
  <2>1. Unbroken BY <1>1 DEF Unbroken
  <2>2. script \in All BY <1>1, ScriptAssumption DEF IInv, TypeOK, All, ScriptAssumption
  <2>3. step > Patched(script)
    <3>1. Len(Steps(script)) \in Nat BY <2>2, StepsAreSequences
    <3>2. step \in Nat /\ step > Len(Steps(script))
      BY <1>1, <3>1 DEF Stopped, IInv, TypeOK
    <3> QED BY <1>1, <2>2, <3>1, <3>2, Places
  <2> QED BY <1>1, <2>1, <2>3 DEF IInv, Chain
<1>2. IInv => CleanRunProtects BY <1>1 DEF CleanRunProtects, Protected
<1> QED BY <1>2, Always, PTL

(* run-sc-oh-eval.sh hands the patcher a binary and a guide that belong    *)
(* together, whatever has failed before.                                   *)
THEOREM CheckedScriptsMatch == Spec => []CheckedScriptMatches
<1>1. ASSUME IInv, Patching, script = "run-sc-oh-eval"
      PROVE  CheckedScriptMatches
  <2>1. ~Stopped /\ Tool = "patch" BY <1>1 DEF Patching
  <2>2. step = Patched(script) /\ step > Out(script) /\ step \in Nat
    BY <1>1, <2>1, PlaceHere, Here
  <2>3. Unbroken BY <1>1, <2>1, <2>2 DEF Unbroken
  <2>4. Fresh("out") BY <1>1, <2>2, <2>3 DEF IInv, Chain
  <2>5. guide \in Seq(1..MaxJobs) BY <1>1 DEF IInv, TypeOK
  <2>6. file["out"] \in Code BY <1>1, <2>4 DEF IInv, TypeOK, Fresh, FileNames
  <2>7. file["out"].pass = pass /\ Len(file["out"].filled) = Len(guide)
    BY <2>4, <2>5 DEF Fresh
  <2>8. Matched([file["out"] EXCEPT !.filled = guide])
    <3> DEFINE out == [file["out"] EXCEPT !.filled = guide]
    <3>1. out.filled = guide /\ out.pass = pass BY <2>6, <2>7 DEF Code
    <3>2. \A k \in DOMAIN guide : guide[k] = pass BY <1>1, <2>1, <2>5, LinesOfPass
    <3> QED BY <3>1, <3>2 DEF Matched
  <2> QED BY <2>4, <2>7, <2>8 DEF CheckedScriptMatches, Fresh
<1>2. IInv => CheckedScriptMatches BY <1>1 DEF CheckedScriptMatches
<1> QED BY <1>2, Always, PTL
=============================================================================
