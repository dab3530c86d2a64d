----------------------------- MODULE StatsProofs -----------------------------
(***************************************************************************)
(* The proof that the statistics are about the guards of the run: the sum  *)
(* Stats.cpp takes over the sensitive functions counts every guard.        *)
(*                                                                         *)
(* The sum is a fold over a set, which is a recursive function.  That the  *)
(* recursion has a solution is proved first, by induction on the size of   *)
(* the set; then what the sum is of a function that is 0 everywhere, and   *)
(* how it grows when a function grows by 1 in one place.                   *)
(***************************************************************************)
EXTENDS SCPassProofs

-----------------------------------------------------------------------------
(* Sums over a set                                                         *)

Total(f, S) == FoldFunctionOnSet(+, 0, f, S)

(* The fold takes the element chosen and goes on with the rest.            *)
Chosen(s)       == CHOOSE x \in s : TRUE
Rest(s)         == s \ {Chosen(s)}
Turn(f, sum, s) == IF s = {} THEN 0 ELSE f[Chosen(s)] + sum[Rest(s)]
Sums(f, S)      == CHOOSE sum : sum = [s \in SUBSET S |-> Turn(f, sum, s)]

LEMMA TotalIsSum ==
  ASSUME NEW f, NEW S
  PROVE  Total(f, S) = Sums(f, S)[S]
BY DEF Total, FoldFunctionOnSet, MapThenFoldSet, Sums, Turn, Rest, Chosen

(* A set of naturals with 0 and each successor is the set of all.          *)
LEMMA Induction ==
  ASSUME NEW P \in SUBSET Nat, 0 \in P, \A n \in P : n + 1 \in P
  PROVE  P = Nat
<1> SUFFICES ASSUME Nat \ P # {} PROVE FALSE
  OBVIOUS
<1>1. PICK m \in Nat \ P : \A n \in Nat \ P : ~(<<n, m>> \in OpToRel(<, Nat))
  BY NatLessThanWellFounded, WFMin
<1>2. m \in Nat /\ m \notin P /\ \A n \in Nat \ P : ~(n < m)
  BY <1>1 DEF OpToRel
<1>3. m # 0 /\ m - 1 \in Nat /\ m - 1 < m /\ m - 1 + 1 = m
  BY <1>2
<1>4. m - 1 \in P
  BY <1>2, <1>3
<1> QED
  BY <1>2, <1>3, <1>4

(* The rest of a finite set that has a member is smaller by one.           *)
LEMMA RestFacts ==
  ASSUME NEW S, IsFiniteSet(S), NEW s \in SUBSET S
  PROVE  /\ IsFiniteSet(s) /\ Cardinality(s) \in Nat
         /\ Cardinality(s) = 0 <=> s = {}
         /\ s # {} => /\ Chosen(s) \in s /\ Chosen(s) \in S
                      /\ Rest(s) \in SUBSET S
                      /\ Cardinality(Rest(s)) = Cardinality(s) - 1
<1>1. IsFiniteSet(s)
  BY FS_Subset
<1>2. Cardinality(s) \in Nat /\ (Cardinality(s) = 0 <=> s = {})
  BY <1>1, FS_CardinalityType, FS_EmptySet
<1>3. s # {} => Chosen(s) \in s
  BY DEF Chosen
<1> QED
  BY <1>1, <1>2, <1>3, FS_RemoveElement DEF Rest

(* The sums of all subsets of at most n elements exist, by induction on n: *)
(* those of one element more are a turn away.                              *)
SumsUpTo(f, S, n, sum) ==
  /\ sum \in [SUBSET S -> Int]
  /\ \A s \in SUBSET S : Cardinality(s) <= n => sum[s] = Turn(f, sum, s)

LEMMA SumsExist ==
  ASSUME NEW S, IsFiniteSet(S), NEW f, \A x \in S : f[x] \in Int
  PROVE  \A n \in Nat : \E sum : SumsUpTo(f, S, n, sum)
<1> DEFINE P == {n \in Nat : \E sum : SumsUpTo(f, S, n, sum)}
<1>1. 0 \in P
  <2> DEFINE sum == [s \in SUBSET S |-> 0]
  <2>1. sum \in [SUBSET S -> Int]
    OBVIOUS
  <2>2. \A s \in SUBSET S : Cardinality(s) <= 0 => s = {}
    BY RestFacts
  <2>3. SumsUpTo(f, S, 0, sum)
    BY <2>1, <2>2 DEF SumsUpTo, Turn
  <2> QED
    BY <2>3
<1>2. ASSUME NEW n \in P
      PROVE  n + 1 \in P
  <2>1. PICK sum : SumsUpTo(f, S, n, sum)
    OBVIOUS
  <2> DEFINE more == [s \in SUBSET S |->
                        IF Cardinality(s) <= n THEN sum[s] ELSE Turn(f, sum, s)]
  <2>2. \A s \in SUBSET S : Turn(f, sum, s) \in Int /\ more[s] \in Int
    BY <2>1, RestFacts DEF SumsUpTo, Turn
  <2>3. more \in [SUBSET S -> Int]
    BY <2>2
  <2>4. ASSUME NEW s \in SUBSET S, Cardinality(s) <= n + 1
        PROVE  more[s] = Turn(f, more, s)
    <3>1. more[s] = Turn(f, sum, s)
      BY <2>1 DEF SumsUpTo
    <3>2. CASE s = {}
      BY <3>1, <3>2 DEF Turn
    <3>3. CASE s # {}
      <4>1. Rest(s) \in SUBSET S /\ Cardinality(Rest(s)) <= n
        BY <2>4, <3>3, RestFacts
      <4>2. more[Rest(s)] = sum[Rest(s)]
        BY <4>1
      <4> HIDE DEF more
      <4> QED
        BY <3>1, <3>3, <4>2 DEF Turn
    <3> QED
      BY <3>2, <3>3
  <2> HIDE DEF more
  <2>5. SumsUpTo(f, S, n + 1, more)
    BY <2>3, <2>4 DEF SumsUpTo
  <2> QED
    BY <2>5
<1>3. P = Nat
  <2> HIDE DEF P
  <2>1. P \in SUBSET Nat
    BY DEF P
  <2> QED
    BY <1>1, <1>2, <2>1, Induction
<1> QED
  BY <1>3

(* So the recursion has a solution: the sums of all subsets.               *)
LEMMA SumsSolve ==
  ASSUME NEW S, IsFiniteSet(S), NEW f, \A x \in S : f[x] \in Int
  PROVE  /\ Sums(f, S) = [s \in SUBSET S |-> Turn(f, Sums(f, S), s)]
         /\ \A s \in SUBSET S : Sums(f, S)[s] = Turn(f, Sums(f, S), s)
<1>1. Cardinality(S) \in Nat
  BY FS_CardinalityType
<1>2. PICK sum : SumsUpTo(f, S, Cardinality(S), sum)
  BY <1>1, SumsExist
<1>3. \A s \in SUBSET S : sum[s] = Turn(f, sum, s)
  BY <1>2, FS_Subset DEF SumsUpTo
<1>4. sum = [s \in SUBSET S |-> Turn(f, sum, s)]
  BY <1>2, <1>3 DEF SumsUpTo
<1>5. Sums(f, S) = [s \in SUBSET S |-> Turn(f, Sums(f, S), s)]
  BY <1>4, Zenon DEF Sums
<1>6. \A s \in SUBSET S : Sums(f, S)[s] = Turn(f, Sums(f, S), s)
  BY <1>5, Zenon
<1> QED
  BY <1>5, <1>6

(* The sum of a function that is 0 everywhere is 0.                        *)
LEMMA ZeroTotal ==
  ASSUME NEW S, IsFiniteSet(S), NEW f, \A x \in S : f[x] = 0
  PROVE  Total(f, S) = 0
<1> DEFINE sum == Sums(f, S)
           P == {n \in Nat : \A s \in SUBSET S : Cardinality(s) = n => sum[s] = 0}
<1>1. \A s \in SUBSET S : sum[s] = Turn(f, sum, s)
  <2>1. \A x \in S : f[x] \in Int
    OBVIOUS
  <2> QED
    BY <2>1, SumsSolve
<1> HIDE DEF sum
<1>2. 0 \in P
  BY <1>1, RestFacts DEF Turn
<1>3. ASSUME NEW n \in P
      PROVE  n + 1 \in P
  <2> SUFFICES ASSUME NEW s \in SUBSET S, Cardinality(s) = n + 1
               PROVE  sum[s] = 0
    OBVIOUS
  <2>1. s # {}
    BY RestFacts
  <2>2. /\ Chosen(s) \in S /\ Rest(s) \in SUBSET S
        /\ Cardinality(Rest(s)) = n
    BY <2>1, RestFacts
  <2>3. sum[Rest(s)] = 0 /\ f[Chosen(s)] = 0
    BY <2>2
  <2> QED
    BY <1>1, <2>1, <2>3 DEF Turn
<1>4. P = Nat
  <2> HIDE DEF P
  <2>1. P \in SUBSET Nat
    BY DEF P
  <2> QED
    BY <1>2, <1>3, <2>1, Induction
<1>5. Cardinality(S) \in P
  BY <1>4, FS_CardinalityType
<1>6. sum[S] = 0
  BY <1>5
<1> QED
  BY <1>6, TotalIsSum DEF sum

(* A function that grows by 1 in one place has a sum that grows by 1.      *)
LEMMA TotalGrows ==
  ASSUME NEW S, IsFiniteSet(S), NEW f, \A x \in S : f[x] \in Int, NEW y \in S,
         NEW g, g[y] = f[y] + 1, \A x \in S : x # y => g[x] = f[x]
  PROVE  Total(g, S) = Total(f, S) + 1
<1> DEFINE was == Sums(f, S)
           is == Sums(g, S)
           grown(s) == IF y \in s THEN 1 ELSE 0
           P == {n \in Nat : \A s \in SUBSET S : Cardinality(s) = n =>
                               was[s] \in Int /\ is[s] = was[s] + grown(s)}
<1>1. \A x \in S : g[x] \in Int
  OBVIOUS
<1>2. \A s \in SUBSET S : was[s] = Turn(f, was, s) /\ is[s] = Turn(g, is, s)
  <2>1. \A s \in SUBSET S : was[s] = Turn(f, was, s)
    BY SumsSolve
  <2>2. \A s \in SUBSET S : is[s] = Turn(g, is, s)
    BY <1>1, SumsSolve
  <2> QED
    BY <2>1, <2>2
<1> HIDE DEF was, is
<1>3. 0 \in P
  BY <1>2, RestFacts DEF Turn
<1>4. ASSUME NEW n \in P
      PROVE  n + 1 \in P
  <2> SUFFICES ASSUME NEW s \in SUBSET S, Cardinality(s) = n + 1
               PROVE  was[s] \in Int /\ is[s] = was[s] + grown(s)
    OBVIOUS
  <2>1. s # {}
    BY RestFacts
  <2>2. /\ Chosen(s) \in s /\ Chosen(s) \in S /\ Rest(s) \in SUBSET S
        /\ Cardinality(Rest(s)) = n
    BY <2>1, RestFacts
  <2>3. /\ was[Rest(s)] \in Int
        /\ is[Rest(s)] = was[Rest(s)] + grown(Rest(s))
    BY <2>2
  <2>4. /\ was[s] = f[Chosen(s)] + was[Rest(s)]
        /\ is[s] = g[Chosen(s)] + is[Rest(s)]
    BY <1>2, <2>1 DEF Turn
  <2>5. y \in Rest(s) <=> y \in s /\ y # Chosen(s)
    BY DEF Rest
  <2>6. f[Chosen(s)] \in Int
    BY <2>2
  <2>7. CASE Chosen(s) = y
    <3>1. grown(s) = 1 /\ grown(Rest(s)) = 0 /\ g[Chosen(s)] = f[Chosen(s)] + 1
      BY <2>2, <2>5, <2>7
    <3> HIDE DEF grown
    <3> QED
      BY <2>3, <2>4, <2>6, <3>1
  <2>8. CASE Chosen(s) # y
    <3>1. /\ grown(s) = grown(Rest(s)) /\ grown(s) \in Int
          /\ g[Chosen(s)] = f[Chosen(s)]
      BY <2>2, <2>5, <2>8
    <3> HIDE DEF grown
    <3> QED
      BY <2>3, <2>4, <2>6, <3>1
  <2> QED
    BY <2>7, <2>8
<1>5. P = Nat
  <2> HIDE DEF P
  <2>1. P \in SUBSET Nat
    BY DEF P
  <2> QED
    BY <1>3, <1>4, <2>1, Induction
<1>6. Cardinality(S) \in P
  BY <1>5, FS_CardinalityType
<1>7. is[S] = was[S] + 1
  BY <1>6
<1> QED
  BY <1>7, TotalIsSum DEF was, is

-----------------------------------------------------------------------------
(* The counts of the pass                                                  *)

GuardsOn(f) == {i \in 1..Len(guards) : guards[i].checkee = f}

(* Each sensitive function counts its guards, and in a run that constructs *)
(* its network the sum is over all guards.  A run that loads one does not  *)
(* get as far when it is asked for statistics.                             *)
Counted ==
  /\ stage \notin {"inject", "done", "crash"} => protectedFuncs = [f \in Func |-> 0]
  /\ \A f \in Sensitive : protectedFuncs[f] = Cardinality(GuardsOn(f))
  /\ ~option.load => Total(protectedFuncs, Sensitive) = Len(guards)
  /\ option.load /\ option.stat => stage \notin {"built", "inject", "done"}

(* The sensitive functions are finitely many functions.                    *)
LEMMA SensitiveFacts ==
  ASSUME TypeOK
  PROVE  /\ Sensitive \subseteq Func /\ IsFiniteSet(Sensitive)
         /\ guards \in Seq([host : present, checkee : InModule]) /\ Len(guards) \in Nat
         /\ protectedFuncs \in [Func -> Nat]
<1>1. sensitiveFunctions \in Seq(present) /\ present \subseteq Func
  BY DEF TypeOK
<1>2. Sensitive \subseteq Func
  BY <1>1, ElementOfSeq DEF Sensitive, RangeOf
<1> QED
  BY <1>2, FuncAssumption, FS_Subset, LenProperties DEF TypeOK

(* As long as there are no guards all counts are 0.                        *)
NoneYet ==
  /\ guards = <<>> /\ protectedFuncs = [f \in Func |-> 0]
  /\ option.load /\ option.stat => stage \notin {"built", "inject", "done"}

LEMMA NoneCounted == TypeOK /\ NoneYet => Counted
<1> SUFFICES ASSUME TypeOK, NoneYet PROVE Counted
  OBVIOUS
<1>1. Len(guards) = 0 /\ \A f : GuardsOn(f) = {}
  BY EmptySeq DEF NoneYet, GuardsOn
<1>2. Total(protectedFuncs, Sensitive) = 0
  BY SensitiveFacts, ZeroTotal DEF NoneYet
<1>3. Cardinality({}) = 0
  BY FS_EmptySet
<1> QED
  BY <1>1, <1>2, <1>3, SensitiveFacts DEF Counted, NoneYet

(* So it is in every step up to the network, and in a new run.             *)
LEMMA EarlyCounts ==
  ASSUME IInv, TypeOK', Counted,
         \/ FilterFunctions \/ Classify \/ CallConstruct \/ NetworkStep \/ NetworkReturns
         \/ LoadJson \/ RunAgain
  PROVE  Counted'
<1>1. NoneYet'
  <2>1. CASE RunAgain
    BY <2>1 DEF RunAgain, NoneYet
  <2>2. CASE ~RunAgain
    <3>1. /\ stage \in {"start", "filtered", "classified", "constructing"}
          /\ UNCHANGED <<option, injectVars>>
      BY <2>2 DEF FilterFunctions, Classify, CallConstruct, NetworkStep, NetworkReturns,
         LoadJson, inputVars
    <3>2. guards' = <<>> /\ protectedFuncs' = [f \in Func |-> 0]
      BY <3>1 DEF IInv, NotYet, Counted, injectVars
    <3>3. option.load /\ option.stat => stage' \notin {"built", "inject", "done"}
      BY <2>2 DEF FilterFunctions, Classify, CallConstruct, NetworkStep, NetworkReturns,
         LoadJson, IInv, Handed
    <3> QED
      BY <3>1, <3>2, <3>3 DEF NoneYet
  <2> QED
    BY <2>1, <2>2
<1> QED
  BY <1>1, NoneCounted, PTL

(* The steps that inject nothing later on change no count.                 *)
LEMMA QuietCounts ==
  ASSUME Counted, DumpJson \/ DereferenceNull \/ NextHost \/ Return \/ UNCHANGED vars
  PROVE  Counted'
<1>1. UNCHANGED <<guards, protectedFuncs, sensitiveFunctions, option>>
  BY DEF DumpJson, DereferenceNull, NextHost, Return, vars, inputVars, rosterVars, injectVars
<1>2. /\ stage' \notin {"inject", "done", "crash"} => stage \notin {"inject", "done", "crash"}
      /\ stage' \in {"built", "inject", "done"} => stage \in {"built", "inject", "done"}
  BY DEF DumpJson, DereferenceNull, NextHost, Return, vars
<1>3. Sensitive' = Sensitive /\ \A f : GuardsOn(f)' = GuardsOn(f)
  BY <1>1 DEF Sensitive, RangeOf, GuardsOn
<1> QED
  BY <1>1, <1>2, <1>3 DEF Counted

(* A guard on a sensitive function adds 1 to its count and so to the sum;  *)
(* in a run that constructs its network, all checkees are sensitive.       *)
LEMMA InjectCounts ==
  ASSUME IInv, Counted, InjectGuard
  PROVE  Counted'
<1> DEFINE n == Len(guards) + 1
<1>1. PICK checkee :
        /\ stage = "inject" /\ turn <= Len(topologicalSortFuncs)
        /\ slot <= Len(checkerFuncMap[Host]) /\ Host \in present
        /\ checkee = checkerFuncMap[Host][slot]
        /\ guards' = Append(guards, [host |-> Host, checkee |-> checkee])
        /\ protectedFuncs' = IF checkee \in Sensitive
                             THEN [protectedFuncs EXCEPT ![checkee] = @ + 1]
                             ELSE protectedFuncs
        /\ UNCHANGED <<stage, inputVars, rosterVars>>
  BY DEF InjectGuard, GuardsWith, Sensitive
<1>2. /\ Sensitive \subseteq Func /\ IsFiniteSet(Sensitive) /\ Len(guards) \in Nat
      /\ protectedFuncs \in [Func -> Nat]
      /\ stage = "inject" /\ stage' = "inject" /\ option' = option
      /\ Sensitive' = Sensitive
  BY <1>1, SensitiveFacts DEF IInv, inputVars, rosterVars, Sensitive, RangeOf
<1>3. /\ Len(guards') = n /\ guards'[n].checkee = checkee
      /\ \A i \in 1..Len(guards) : guards'[i] = guards[i]
  <2> DEFINE new == [host |-> Host, checkee |-> checkee]
             G   == {guards[i] : i \in 1..Len(guards)} \cup {new}
  <2>1. guards \in Seq(G) /\ new \in G
    <3>1. guards \in Seq([host : present, checkee : InModule])
      BY SensitiveFacts DEF IInv
    <3> QED
      BY <3>1, OverSmallerSet
  <2> QED
    BY <1>1, <2>1, AppendFacts
<1>4. ASSUME NEW f \in Sensitive
      PROVE  protectedFuncs'[f] = Cardinality(GuardsOn(f))'
  <2>1. 1..n = 1..Len(guards) \cup {n} /\ n \notin 1..Len(guards)
    BY <1>2
  <2>2. GuardsOn(f)' = {i \in 1..n : guards'[i].checkee = f}
    BY <1>3 DEF GuardsOn
  <2> HIDE DEF n
  <2>3. CASE f = checkee
    <3>1. GuardsOn(f)' = GuardsOn(f) \cup {n} /\ n \notin GuardsOn(f)
      BY <1>3, <2>1, <2>2, <2>3 DEF GuardsOn
    <3>2. IsFiniteSet(GuardsOn(f))
      <4>1. IsFiniteSet(1..Len(guards)) /\ GuardsOn(f) \in SUBSET (1..Len(guards))
        BY <1>2, FS_Interval DEF GuardsOn
      <4> QED
        BY <4>1, FS_Subset
    <3>3. Cardinality(GuardsOn(f)') = Cardinality(GuardsOn(f)) + 1
      BY <3>1, <3>2, FS_AddElement
    <3>4. protectedFuncs'[f] = protectedFuncs[f] + 1
      BY <1>1, <1>2, <2>3
    <3> QED
      BY <3>3, <3>4 DEF Counted
  <2>4. CASE f # checkee
    <3>1. GuardsOn(f)' = GuardsOn(f)
      BY <1>3, <2>1, <2>2, <2>4 DEF GuardsOn
    <3>2. protectedFuncs'[f] = protectedFuncs[f]
      BY <1>1, <1>2, <2>4
    <3> QED
      BY <3>1, <3>2 DEF Counted
  <2> QED
    BY <2>3, <2>4
<1>5. ASSUME ~option.load
      PROVE  Total(protectedFuncs', Sensitive) = Len(guards')
  <2>1. checkee \in Sensitive
    <3>1. Host \in Func /\ Host \in Pointer
      BY <1>1 DEF IInv, TypeOK, Pointer
    <3>2. checkerFuncMap[Host] \in Seq(Pointer) /\ slot \in Nat \ {0}
      BY <3>1 DEF IInv, TypeOK
    <3>3. slot \in 1..Len(checkerFuncMap[Host])
      BY <1>1, <3>2, LenProperties
    <3>4. checkee \in RangeOf(checkerFuncMap[Host])
      BY <1>1, <3>3 DEF RangeOf
    <3> QED
      BY <1>5, <3>1, <3>4 DEF IInv, Mapped, Sensitive
  <2>2. /\ protectedFuncs'[checkee] = protectedFuncs[checkee] + 1
        /\ \A f \in Sensitive : f # checkee => protectedFuncs'[f] = protectedFuncs[f]
        /\ \A f \in Sensitive : protectedFuncs[f] \in Int
    BY <1>1, <1>2, <2>1
  <2>3. Total(protectedFuncs', Sensitive) = Total(protectedFuncs, Sensitive) + 1
    BY <1>2, <2>1, <2>2, TotalGrows
  <2> QED
    BY <1>3, <1>5, <2>3 DEF Counted
<1> QED
  BY <1>2, <1>4, <1>5 DEF Counted

(* Each step keeps the counts.                                             *)
LEMMA CountedNext == IInv /\ Counted /\ [Next]_vars => Counted'
<1> SUFFICES ASSUME IInv, Counted, [Next]_vars PROVE Counted'
  OBVIOUS
<1>1. TypeOK'
  BY InvNext DEF IInv
<1> QED
  BY <1>1, EarlyCounts, QuietCounts, InjectCounts DEF Next, Pass

LEMMA CountedInvariance == Spec => [](IInv /\ Counted)
<1>1. Init => IInv /\ Counted
  <2>1. Init => TypeOK /\ NoneYet
    BY InvInit DEF Init, NoneYet, IInv
  <2> QED
    BY <2>1, InvInit, NoneCounted
<1>2. IInv /\ Counted /\ [Next]_vars => (IInv /\ Counted)'
  BY InvNext, CountedNext
<1> QED
  BY <1>1, <1>2, PTL DEF Spec

(* What the statistics of a run that has ended say is true of the guards   *)
(* it has injected, for any functions, any network and whichever order the *)
(* sum is taken in: ProtectedFuncs and numberOfGuards are counted apart,   *)
(* and agree because a constructed network has sensitive checkees only.    *)
THEOREM StatsTrue == Spec => []StatsCountGuards
<1>1. IInv /\ Counted => StatsCountGuards
  <2> SUFFICES ASSUME IInv, Counted, stage = "done", option.stat
               PROVE  /\ Stats.avgConnectivity[1] = Stats.numberOfGuards
                      /\ Stats.numberOfGuards > 0 => Stats.avgConnectivity[2] > 0
                      /\ Checkees \subseteq Sensitive
                      /\ \A f \in Sensitive :
                           protectedFuncs[f] =
                             Cardinality({i \in 1..Len(guards) : guards[i].checkee = f})
    BY DEF StatsCountGuards
  <2>1. ~option.load
    BY DEF Counted, IInv, TypeOK
  <2>2. /\ Stats.avgConnectivity[1] = Total(protectedFuncs, Sensitive)
        /\ Stats.avgConnectivity[2] = Cardinality(Sensitive)
        /\ Stats.numberOfGuards = Len(guards)
    BY DEF Stats, Total
  <2>3. Stats.avgConnectivity[1] = Stats.numberOfGuards
    BY <2>1, <2>2 DEF Counted
  <2>4. Checkees \subseteq Sensitive
    <3> SUFFICES ASSUME NEW i \in 1..Len(guards)
                 PROVE  guards[i].checkee \in Sensitive
      BY DEF Checkees
    <3>1. guards[i].host \in Func
      <4>1. guards \in Seq([host : present, checkee : InModule]) /\ present \subseteq Func
        BY SensitiveFacts DEF IInv, TypeOK
      <4>2. guards[i] \in [host : present, checkee : InModule]
        BY <4>1, ElementOfSeq
      <4> QED
        BY <4>1, <4>2
    <3> QED
      BY <2>1, <3>1 DEF IInv, Injected, Mapped, Sensitive
  <2>5. Len(guards) > 0 => Cardinality(Sensitive) > 0
    <3>1. Len(guards) > 0 => Sensitive # {}
      <4>1. Len(guards) > 0 => 1 \in 1..Len(guards)
        BY SensitiveFacts DEF IInv
      <4> QED
        BY <2>4, <4>1 DEF Checkees
    <3> QED
      BY <3>1, SensitiveFacts, FS_CardinalityType, FS_EmptySet DEF IInv
  <2> QED
    BY <2>2, <2>3, <2>4, <2>5 DEF Counted, GuardsOn
<1> QED
  BY <1>1, CountedInvariance, PTL

=============================================================================
