---------------------- MODULE DAGCheckersNetworkProofs ----------------------
(***************************************************************************)
(* Proofs about DAGCheckersNetwork, for every set of functions and every   *)
(* level of connectivity.                                                  *)
(*                                                                         *)
(* The argument rests on the order in which constructProtectionNetwork     *)
(* takes the sensitive functions: a checker of the k-th of them is none of *)
(* the first k.  Along a chain of checks the place in that order goes down,*)
(* which rules out cycles, and with them a call of topologicalSortUtil     *)
(* that finds a function of a call in progress: a visited checker it meets *)
(* has been listed.                                                        *)
(***************************************************************************)
EXTENDS DAGCheckersNetwork, SequenceTheorems, FiniteSetTheorems,
        WellFoundedInduction, TLAPS

-----------------------------------------------------------------------------
(* The inductive invariant                                                 *)

(* f is sensitive, and c is not among the sensitive functions up to f.     *)
Below(c, f) ==
  \E k \in 1..Len(sensitive) :
    f = sensitive[k] /\ \A j \in 1..k : sensitive[j] # c

(* Nothing is stored before the call that stores it.                       *)
Unused ==
  /\ phase = "idle" => /\ pos = 1
                       /\ \A f \in Func : checkeeChecker[f] = {}
  /\ phase \in {"idle", "select"} => \A f \in Func : ~IsChecker(f)
  /\ phase \notin {"sort", "done"} => visited = {} /\ stack = <<>> /\ list = <<>>
  /\ phase = "done" => stack = <<>> /\ AllFunctions \subseteq visited

(* The functions taken so far are no candidates any more; each entry of    *)
(* checkeeChecker is one of them and holds candidates of its turn.         *)
Selection ==
  /\ pos <= Len(sensitive) + 1
  /\ available \subseteq checkers
  /\ \A j \in 1..(pos - 1) : sensitive[j] \notin available
  /\ \A f \in Func : \A c \in checkeeChecker[f] :
       /\ c \in checkers
       /\ Below(c, f)
       /\ \E i \in 1..(pos - 1) : sensitive[i] = f

Inversion == \A c, f \in Func : Checks(c, f) => c \in checkeeChecker[f]

(* The caller hands over each sensitive function once, and what has left   *)
(* pending is in both maps.                                                *)
Inverted ==
  /\ Distinct(sensitive)
  /\ phase \in {"invert", "built", "sort", "done"} =>
       \A f \in Func \ pending : \A c \in checkeeChecker[f] : Checks(c, f)
  /\ phase \in {"built", "sort", "done"} => pending = {}

Listed(f)  == f \in RangeOf(list)
Stacked(f) == f \in RangeOf(stack)

(* The functions of calls in progress are a chain of checks.               *)
Chain ==
  \A p, q \in 1..Len(stack) : p < q => Below(stack[p], stack[q])

(* A visited checker is listed or its call is in progress, never both.     *)
Visits ==
  /\ \A f \in Func : Listed(f) \/ Stacked(f) => f \in visited /\ IsChecker(f)
  /\ \A f \in visited : IsChecker(f) => Listed(f) \/ Stacked(f)
  /\ \A f \in Func : ~(Listed(f) /\ Stacked(f))
  /\ \A f \in Func \ visited : cursor[f] = 0

(* The checkees a call has looked at are listed, but the one it waits for. *)
Looked ==
  \A p \in 1..Len(stack) :
    /\ cursor[stack[p]] <= Len(checkerCheckee[stack[p]])
    /\ \A m \in 1..cursor[stack[p]] :
         LET g == checkerCheckee[stack[p]][m]
         IN  IsChecker(g) => \/ Listed(g)
                             \/ p < Len(stack) /\ stack[p + 1] = g

NetInv  == Unused /\ Selection /\ Inversion /\ Inverted
SortInv == Chain /\ Visits /\ Looked /\ Distinct(list) /\ CheckeesFirst

IInv == TypeOK /\ NetInv /\ SortInv

-----------------------------------------------------------------------------
(* Lemmas on sequences                                                     *)

(* Facts on the last element of a sequence and on what is before it.       *)
LEMMA FrontProperties ==
  ASSUME NEW S, NEW s \in Seq(S), s # <<>>
  PROVE  /\ Len(s) \in Nat \ {0}
         /\ Top(s) \in S
         /\ SubSeq(s, 1, Len(s) - 1) \in Seq(S)
         /\ Len(SubSeq(s, 1, Len(s) - 1)) = Len(s) - 1
         /\ \A i \in 1..(Len(s) - 1) : SubSeq(s, 1, Len(s) - 1)[i] = s[i]
<1>1. Len(s) \in Nat \ {0}
  BY EmptySeq
<1>2. \A i \in 1..Len(s) : s[i] \in S
  BY ElementOfSeq
<1> DEFINE t == SubSeq(s, 1, Len(s) - 1)
<1>3. /\ t \in Seq(S)
      /\ Len(t) = IF 1 <= Len(s) - 1 THEN Len(s) - 1 - 1 + 1 ELSE 0
      /\ \A i \in 1..(Len(s) - 1 - 1 + 1) : t[i] = s[1 + i - 1]
  BY <1>1, <1>2, SubSeqProperties
<1>4. Len(t) = Len(s) - 1
  <2> DEFINE k == Len(s)
  <2>1. k \in Nat \ {0} /\ Len(t) = IF 1 <= k - 1 THEN k - 1 - 1 + 1 ELSE 0
    BY <1>1, <1>3
  <2> HIDE DEF k, t
  <2>2. Len(t) = k - 1
    BY <2>1
  <2> QED
    BY <2>2 DEF k
<1>5. \A i \in 1..(Len(s) - 1) : t[i] = s[i]
  <2> SUFFICES ASSUME NEW i \in 1..(Len(s) - 1) PROVE t[i] = s[i]
    OBVIOUS
  <2>1. Len(s) - 1 - 1 + 1 = Len(s) - 1 /\ 1 + i - 1 = i
    BY <1>1
  <2> QED
    BY <1>3, <2>1
<1>6. Top(s) \in S
  BY <1>1, <1>2 DEF Top
<1> QED
  BY <1>1, <1>3, <1>4, <1>5, <1>6

(* Type, length and elements of a sequence with one more element.          *)
LEMMA AppendFacts ==
  ASSUME NEW S, NEW s \in Seq(S), NEW e \in S
  PROVE  /\ Append(s, e) \in Seq(S)
         /\ Len(Append(s, e)) = Len(s) + 1
         /\ Append(s, e) # <<>>
         /\ \A i \in 1..Len(s) : Append(s, e)[i] = s[i]
         /\ Append(s, e)[Len(s) + 1] = e
<1>1. Len(s) \in Nat /\ Len(<<>>) = 0
  BY LenProperties
<1> QED
  BY <1>1

(* A sequence with one more element has one more member.                   *)
LEMMA AppendRange ==
  ASSUME NEW S, NEW s \in Seq(S), NEW e \in S
  PROVE  RangeOf(Append(s, e)) = RangeOf(s) \cup {e}
<1>1. /\ Len(s) \in Nat
      /\ Len(Append(s, e)) = Len(s) + 1
      /\ \A i \in 1..Len(s) : Append(s, e)[i] = s[i]
      /\ Append(s, e)[Len(s) + 1] = e
  BY AppendFacts, LenProperties
<1>2. 1..(Len(s) + 1) = 1..Len(s) \cup {Len(s) + 1}
  BY <1>1
<1> QED
  BY <1>1, <1>2 DEF RangeOf

-----------------------------------------------------------------------------
(* Type correctness                                                        *)

(* The initial state has the right types.                                  *)
LEMMA TypeInit == Init => TypeOK
<1> SUFFICES ASSUME Init PROVE TypeOK
  OBVIOUS
<1>1. <<>> \in Seq(Func)
  BY EmptySeq
<1>2. [f \in Func |-> <<>>] \in [Func -> Seq(Func)]
  BY <1>1
<1>3. acceptLower \in BOOLEAN
  BY Zenon DEF Init
<1> QED
  BY <1>1, <1>2, <1>3 DEF Init, TypeOK

(* Entering topologicalSortUtil keeps the types of its state.              *)
LEMMA EnterType ==
  ASSUME NEW f \in Func, TypeOK, Enter(f)
  PROVE  visited' \subseteq Func /\ stack' \in Seq(Func)
BY AppendFacts DEF TypeOK, Enter

(* Each action keeps the types.                                            *)
LEMMA TypeNext == TypeOK /\ [Next]_vars => TypeOK'
<1> SUFFICES ASSUME TypeOK, [Next]_vars PROVE TypeOK'
  OBVIOUS
<1> USE DEF TypeOK
<1>1. ASSUME NEW value \in BOOLEAN, SetLowerConnectivityAcceptance(value)
      PROVE  TypeOK'
  BY <1>1 DEF SetLowerConnectivityAcceptance, networkVars, sortVars
<1>2. ASSUME NEW order \in Orders, NEW candidates \in SUBSET Func,
             NEW level \in Connectivities,
             ConstructProtectionNetwork(order, candidates, level)
      PROVE  TypeOK'
  <2>1. order \in Seq(Func) /\ level \in Int
    <3>1. PICK n \in 0..Cardinality(Func) : order \in [1..n -> Func]
      BY DEF Orders
    <3>2. n \in Nat
      BY FuncAssumption, FS_CardinalityType
    <3> QED
      BY ConnectivityAssumption, <3>1, <3>2
  <2> QED
    BY <1>2, <2>1 DEF ConstructProtectionNetwork, sortVars
<1>3. CASE GetReverseTopologicalSort
  BY <1>3 DEF GetReverseTopologicalSort, inputVars, networkVars
<1>4. CASE SelectCheckers
  BY <1>4 DEF SelectCheckers, Remaining, RandomComb, inputVars, sortVars
<1>5. CASE EndSelection
  BY <1>5 DEF EndSelection, inputVars, sortVars
<1>6. ASSUME NEW f \in Func, InvertEntry(f)
      PROVE  TypeOK'
  <2>1. \A c \in Func : Append(checkerCheckee[c], f) \in Seq(Func)
    OBVIOUS
  <2> QED
    BY <1>6, <2>1 DEF InvertEntry, inputVars, sortVars
<1>7. ASSUME NEW f \in Func, RejectLevel(f)
      PROVE  TypeOK'
  BY <1>7 DEF RejectLevel, inputVars, networkVars, sortVars
<1>8. CASE ReturnNetwork
  BY <1>8 DEF ReturnNetwork, inputVars, networkVars, sortVars
<1>9. ASSUME NEW f \in Func, SortFrom(f)
      PROVE  TypeOK'
  <2>1. visited' \subseteq Func /\ stack' \in Seq(Func)
    BY <1>9, EnterType DEF SortFrom
  <2> QED
    BY <1>9, <2>1 DEF SortFrom, inputVars, networkVars
<1>10. CASE VisitCheckee
  <2> DEFINE caller == Top(stack)
             next   == cursor[caller] + 1
             g      == checkerCheckee[caller][next]
  <2>1. caller \in Func
    BY <1>10, FrontProperties DEF VisitCheckee
  <2>2. /\ next <= Len(checkerCheckee[caller]) /\ cursor' = [cursor EXCEPT ![caller] = next]
        /\ IF g \in visited THEN UNCHANGED <<visited, stack>> ELSE Enter(g)
    BY <1>10 DEF VisitCheckee
  <2>3. checkerCheckee[caller] \in Seq(Func) /\ next \in Nat \ {0}
    BY <2>1
  <2>4. g \in Func
    <3> HIDE DEF caller, next, TypeOK
    <3>1. next \in 1..Len(checkerCheckee[caller])
      BY <2>2, <2>3, LenProperties
    <3> QED
      BY <2>3, <3>1, ElementOfSeq
  <2>5. visited' \subseteq Func /\ stack' \in Seq(Func)
    BY <2>2, <2>4, EnterType
  <2>6. cursor' \in [Func -> Nat]
    BY <2>1, <2>2, <2>3
  <2> QED
    BY <1>10, <2>5, <2>6 DEF VisitCheckee, inputVars, networkVars
<1>11. CASE ListFunction
  <2>1. Top(stack) \in Func /\ SubSeq(stack, 1, Len(stack) - 1) \in Seq(Func)
    BY <1>11, FrontProperties DEF ListFunction
  <2> QED
    BY <1>11, <2>1 DEF ListFunction, inputVars, networkVars
<1>12. CASE ReturnSort
  BY <1>12 DEF ReturnSort, inputVars, networkVars, sortVars
<1>13. CASE UNCHANGED vars
  BY <1>13 DEF vars, inputVars, networkVars, sortVars
<1> QED
  BY <1>1, <1>2, <1>3, <1>4, <1>5, <1>6, <1>7, <1>8, <1>9, <1>10, <1>11,
     <1>12, <1>13 DEF Next, Call, Construct, Sort

(* Every variable keeps its type, whatever functions the module has and    *)
(* whatever level is asked for: no step of the construction or of the sort *)
(* reads outside a vector or stores anything but functions.                *)
THEOREM TypeCorrect == Spec => []TypeOK
BY TypeInit, TypeNext, PTL DEF Spec

-----------------------------------------------------------------------------
(* Below is a strict order                                                 *)

(* No function is below itself: it leaves the candidates first.            *)
LEMMA BelowIrreflexive == TypeOK => \A f \in Func : ~Below(f, f)
BY LenProperties DEF TypeOK, Below

(* A checker of a checker of f is below f too.                             *)
LEMMA BelowTransitive ==
  TypeOK => \A a, b, c \in Func : Below(a, b) /\ Below(b, c) => Below(a, c)
<1> SUFFICES ASSUME TypeOK, NEW a \in Func, NEW b \in Func, NEW c \in Func,
                    Below(a, b), Below(b, c)
             PROVE  Below(a, c)
  OBVIOUS
<1>1. Len(sensitive) \in Nat
  BY LenProperties DEF TypeOK
<1>2. PICK k \in 1..Len(sensitive) :
        b = sensitive[k] /\ \A j \in 1..k : sensitive[j] # a
  BY DEF Below
<1>3. PICK l \in 1..Len(sensitive) :
        c = sensitive[l] /\ \A j \in 1..l : sensitive[j] # b
  BY DEF Below
<1>4. l < k
  BY <1>1, <1>2, <1>3
<1>5. \A j \in 1..l : sensitive[j] # a
  BY <1>1, <1>2, <1>4
<1> QED
  BY <1>3, <1>5 DEF Below

(* Whatever checks f is below f in the shuffled order.                     *)
LEMMA ChecksBelow ==
  TypeOK /\ NetInv => \A c, f \in Func : Checks(c, f) => Below(c, f)
BY DEF NetInv, Inversion, Selection

(* No function has two calls of topologicalSortUtil in progress.           *)
LEMMA StackDistinct ==
  TypeOK /\ Chain => \A p, q \in 1..Len(stack) : p # q => stack[p] # stack[q]
<1> SUFFICES ASSUME TypeOK, Chain, NEW p \in 1..Len(stack), NEW q \in 1..Len(stack),
                    p # q, stack[p] = stack[q]
             PROVE  FALSE
  OBVIOUS
<1>1. Len(stack) \in Nat /\ stack[p] \in Func
  BY LenProperties, ElementOfSeq DEF TypeOK
<1>2. p < q \/ q < p
  BY <1>1
<1> QED
  BY <1>1, <1>2, BelowIrreflexive DEF Chain

-----------------------------------------------------------------------------
(* The construction preserves the invariant                                *)

NoSortYet ==
  /\ visited = {} /\ stack = <<>> /\ list = <<>>
  /\ \A f \in Func : cursor[f] = 0

(* Before the sort begins its part of the invariant holds vacuously.       *)
LEMMA NothingSorted == NoSortYet => SortInv
<1> SUFFICES ASSUME NoSortYet PROVE SortInv
  OBVIOUS
<1>1. 1..Len(stack) = {} /\ 1..Len(list) = {}
  BY EmptySeq DEF NoSortYet
<1>2. RangeOf(stack) = {} /\ RangeOf(list) = {}
  BY <1>1 DEF RangeOf
<1> QED
  BY <1>1, <1>2 DEF NoSortYet, SortInv, Chain, Visits, Looked, Listed, Stacked,
     Distinct, CheckeesFirst

(* Without checkers there are no checks.                                   *)
LEMMA NothingChecked ==
  ASSUME \A f \in Func : ~IsChecker(f)
  PROVE  \A c, f \in Func : ~Checks(c, f)
<1>1. \A c \in Func : checkerCheckee[c] = <<>>
  BY DEF IsChecker
<1>2. 1..Len(<<>>) = {}
  BY EmptySeq
<1> QED
  BY <1>1, <1>2 DEF Checks, RangeOf

(* A turn of the selection loop chooses among the remaining candidates.    *)
LEMMA ConstructSelects ==
  ASSUME TypeOK, NetInv, SelectCheckers
  PROVE  Selection' /\ Inversion'
<1> DEFINE s == sensitive[pos]
<1> USE DEF TypeOK
<1>1. Len(sensitive) \in Nat /\ pos \in 1..Len(sensitive) /\ s \in Func
  BY LenProperties, ElementOfSeq DEF SelectCheckers
<1>2. /\ available' = available \ {s} /\ pos' = pos + 1
      /\ sensitive' = sensitive /\ checkers' = checkers
      /\ checkerCheckee' = checkerCheckee
  BY DEF SelectCheckers, Remaining, inputVars
<1>3. PICK chosen \in SUBSET (available \ {s}) :
        checkeeChecker' = [checkeeChecker EXCEPT ![s] = chosen]
  BY DEF SelectCheckers, Remaining, RandomComb
<1>4. \A j \in 1..pos : sensitive[j] \notin available'
  BY <1>1, <1>2 DEF NetInv, Selection
<1>5. \A f \in Func : f # s => checkeeChecker'[f] = checkeeChecker[f]
  BY <1>3
<1>6. checkeeChecker'[s] = chosen
  BY <1>1, <1>3
<1>7. \A c \in chosen : c \in checkers /\ Below(c, s)
  <2> SUFFICES ASSUME NEW c \in chosen PROVE c \in checkers /\ Below(c, s)
    OBVIOUS
  <2>1. c \in available'
    BY <1>2
  <2>2. \A j \in 1..pos : sensitive[j] # c
    BY <1>4, <2>1
  <2> QED
    BY <1>1, <2>2 DEF NetInv, Selection, Below
<1>8. \A c, f \in Func : Below(c, f)' <=> Below(c, f)
  BY <1>2 DEF Below
<1>9. Selection'
  <2>1. pos' <= Len(sensitive') + 1 /\ available' \subseteq checkers'
    BY <1>1, <1>2 DEF NetInv, Selection
  <2>2. \A j \in 1..(pos' - 1) : sensitive'[j] \notin available'
    BY <1>1, <1>2, <1>4
  <2>3. ASSUME NEW f \in Func, NEW c \in checkeeChecker'[f]
        PROVE  /\ c \in checkers'
               /\ Below(c, f)'
               /\ \E i \in 1..(pos' - 1) : sensitive'[i] = f
    <3>1. CASE f = s
      BY <1>1, <1>2, <1>3, <1>6, <1>7, <1>8, <2>3, <3>1
    <3>2. CASE f # s
      <4>1. c \in checkeeChecker[f]
        BY <1>5, <2>3, <3>2
      <4>2. /\ c \in checkers /\ Below(c, f)
            /\ \E i \in 1..(pos - 1) : sensitive[i] = f
        BY <4>1 DEF NetInv, Selection
      <4> QED
        BY <1>1, <1>2, <1>8, <4>2
    <3> QED
      BY <3>1, <3>2
  <2> QED
    BY <2>1, <2>2, <2>3 DEF Selection
<1>10. Inversion'
  <2>1. \A c, f \in Func : ~Checks(c, f)
    BY NothingChecked DEF SelectCheckers, NetInv, Unused
  <2> QED
    BY <1>2, <2>1 DEF Inversion, Checks
<1> QED
  BY <1>9, <1>10

(* Pushing an entry adds the checks of that entry and no others.           *)
LEMMA InvertEntryInverts ==
  ASSUME TypeOK, NetInv, NEW f \in Func, InvertEntry(f)
  PROVE  Selection' /\ Inversion'
<1> USE DEF TypeOK
<1>1. /\ UNCHANGED <<sensitive, checkers, pos, available, checkeeChecker>>
      /\ checkerCheckee' = [c \in Func |-> IF c \in checkeeChecker[f]
                                           THEN Append(checkerCheckee[c], f)
                                           ELSE checkerCheckee[c]]
  BY DEF InvertEntry, inputVars
<1>2. Selection'
  <2>1. Selection
    BY DEF NetInv
  <2> QED
    BY <1>1, <2>1 DEF Selection, Below
<1>3. ASSUME NEW c \in Func, NEW g \in Func, Checks(c, g)'
      PROVE  c \in checkeeChecker[g]
  <2>1. CASE c \in checkeeChecker[f]
    <3>1. checkerCheckee'[c] = Append(checkerCheckee[c], f)
      BY <1>1, <2>1
    <3>2. RangeOf(checkerCheckee'[c]) = RangeOf(checkerCheckee[c]) \cup {f}
      BY <3>1, AppendRange
    <3>3. g = f \/ Checks(c, g)
      BY <1>3, <3>2 DEF Checks
    <3> QED
      BY <2>1, <3>3 DEF NetInv, Inversion
  <2>2. CASE c \notin checkeeChecker[f]
    <3>1. checkerCheckee'[c] = checkerCheckee[c]
      BY <1>1, <2>2
    <3> QED
      BY <1>3, <3>1 DEF Checks, NetInv, Inversion
  <2> QED
    BY <2>1, <2>2
<1> QED
  BY <1>1, <1>2, <1>3 DEF Inversion

(* What has left pending is in both maps.                                  *)
LEMMA ConstructInverts ==
  ASSUME TypeOK, NetInv, Construct
  PROVE  Inverted'
<1> USE DEF TypeOK
<1>1. UNCHANGED sensitive
  BY DEF Construct, SelectCheckers, EndSelection, InvertEntry, RejectLevel,
     ReturnNetwork, inputVars
<1>2. CASE SelectCheckers
  BY <1>1, <1>2 DEF SelectCheckers, NetInv, Inverted
<1>3. CASE EndSelection
  BY <1>1, <1>3 DEF EndSelection, NetInv, Inverted
<1>4. ASSUME NEW f \in Func, InvertEntry(f)
      PROVE  Inverted'
  <2>1. /\ phase = "invert" /\ phase' = "invert"
        /\ pending' = pending \ {f} /\ UNCHANGED checkeeChecker
        /\ checkerCheckee' = [c \in Func |-> IF c \in checkeeChecker[f]
                                             THEN Append(checkerCheckee[c], f)
                                             ELSE checkerCheckee[c]]
    BY <1>4 DEF InvertEntry
  <2>2. ASSUME NEW g \in Func \ pending', NEW c \in checkeeChecker[g]
        PROVE  g \in RangeOf(checkerCheckee'[c])
    <3>1. g = f \/ g \in RangeOf(checkerCheckee[c])
      BY <2>1, <2>2 DEF NetInv, Inverted, Checks
    <3>2. CASE c \in checkeeChecker[f]
      <4>1. checkerCheckee'[c] = Append(checkerCheckee[c], f)
        BY <2>1, <3>2
      <4>2. RangeOf(checkerCheckee'[c]) = RangeOf(checkerCheckee[c]) \cup {f}
        BY <3>2, <4>1, AppendRange
      <4> QED
        BY <3>1, <4>2
    <3>3. CASE c \notin checkeeChecker[f]
      BY <2>1, <2>2, <3>1, <3>3
    <3> QED
      BY <3>2, <3>3
  <2> QED
    BY <1>1, <2>1, <2>2 DEF NetInv, Inverted, Checks
<1>5. ASSUME NEW f \in Func, RejectLevel(f)
      PROVE  Inverted'
  BY <1>1, <1>5 DEF RejectLevel, NetInv, Inverted
<1>6. CASE ReturnNetwork
  BY <1>1, <1>6 DEF ReturnNetwork, networkVars, NetInv, Inverted, Checks
<1> QED
  BY <1>2, <1>3, <1>4, <1>5, <1>6 DEF Construct

(* The calls of the public operations preserve the invariant.              *)
LEMMA CallPreserves ==
  ASSUME IInv, TypeOK', Call
  PROVE  NetInv' /\ SortInv'
<1> USE DEF IInv
<1>1. ASSUME NEW value \in BOOLEAN, SetLowerConnectivityAcceptance(value)
      PROVE  NetInv' /\ SortInv'
  <2>1. UNCHANGED <<phase, sensitive, checkers, connectivity, networkVars, sortVars>>
    BY <1>1 DEF SetLowerConnectivityAcceptance
  <2>2. NetInv'
    BY <2>1 DEF networkVars, sortVars, NetInv, Unused, Selection, Inversion,
       Inverted, IsChecker, Checks, AllFunctions, Below
  <2>3. SortInv'
    BY <2>1 DEF networkVars, sortVars, SortInv, Chain, Visits, Looked, Distinct,
       CheckeesFirst, IsChecker, Checks, Listed, Stacked, Below
  <2> QED
    BY <2>2, <2>3
<1>2. ASSUME NEW order \in Orders, NEW candidates \in SUBSET Func,
             NEW level \in Connectivities,
             ConstructProtectionNetwork(order, candidates, level)
      PROVE  NetInv' /\ SortInv'
  <2>1. /\ phase = "idle" /\ phase' = "select" /\ sensitive' = order
        /\ checkers' = candidates /\ available' = candidates
        /\ UNCHANGED <<pos, checkeeChecker, checkerCheckee, visited, stack, list, cursor>>
    BY <1>2 DEF ConstructProtectionNetwork, sortVars
  <2>2. pos = 1 /\ \A f \in Func : checkeeChecker[f] = {}
    BY <2>1 DEF NetInv, Unused
  <2>3. Len(sensitive') \in Nat
    BY LenProperties DEF TypeOK
  <2>4. Unused' /\ Inversion'
    BY <2>1, NothingChecked DEF NetInv, Unused, Inversion, IsChecker, Checks
  <2>5. Selection'
    BY <2>1, <2>2, <2>3 DEF Selection
  <2>6. visited = {} /\ stack = <<>> /\ list = <<>>
    BY <2>1 DEF NetInv, Unused
  <2>7. \A f \in Func : cursor[f] = 0
    BY <2>6 DEF SortInv, Visits
  <2>8. NoSortYet'
    BY <2>1, <2>6, <2>7 DEF NoSortYet
  <2>9. SortInv'
    BY <2>8, NothingSorted, PTL
  <2>10. Inverted'
    BY <2>1 DEF Orders, Inverted
  <2> QED
    BY <2>4, <2>5, <2>9, <2>10 DEF NetInv
<1>3. CASE GetReverseTopologicalSort
  <2>1. /\ phase' = "sort"
        /\ visited' = {} /\ stack' = <<>> /\ list' = <<>>
        /\ cursor' = [f \in Func |-> 0]
        /\ UNCHANGED <<inputVars, networkVars>>
    BY <1>3 DEF GetReverseTopologicalSort
  <2>2. NetInv'
    BY <1>3, <2>1 DEF GetReverseTopologicalSort, inputVars, networkVars, NetInv,
       Unused, Selection, Inversion, Inverted, IsChecker, Checks, Below
  <2>3. NoSortYet'
    BY <2>1 DEF NoSortYet
  <2>4. SortInv'
    BY <2>3, NothingSorted, PTL
  <2> QED
    BY <2>2, <2>4
<1> QED
  BY <1>1, <1>2, <1>3 DEF Call

(* The construction preserves the invariant.                               *)
LEMMA ConstructPreserves ==
  ASSUME IInv, TypeOK', Construct
  PROVE  NetInv' /\ SortInv'
<1> USE DEF IInv
<1>1. /\ UNCHANGED sortVars
      /\ phase \notin {"sort", "done"} /\ phase' \notin {"sort", "done", "idle"}
      /\ phase' = "select" => phase = "select" /\ UNCHANGED checkerCheckee
  BY DEF Construct, SelectCheckers, EndSelection, InvertEntry, RejectLevel, ReturnNetwork
<1>2. visited = {} /\ stack = <<>> /\ list = <<>>
  BY <1>1 DEF NetInv, Unused
<1>3. \A f \in Func : cursor[f] = 0
  BY <1>2 DEF SortInv, Visits
<1>4. SortInv'
  <2>1. NoSortYet'
    BY <1>1, <1>2, <1>3 DEF NoSortYet, sortVars
  <2> QED
    BY <2>1, NothingSorted, PTL
<1>5. Unused'
  BY <1>1, <1>2 DEF sortVars, NetInv, Unused, IsChecker
<1>6. Selection' /\ Inversion'
  <2>1. CASE SelectCheckers
    BY <2>1, ConstructSelects
  <2>2. CASE EndSelection
    <3>1. /\ UNCHANGED <<sensitive, checkers, pos, checkeeChecker, checkerCheckee>>
          /\ available' \subseteq available
      BY <2>2 DEF EndSelection, inputVars
    <3> QED
      BY <3>1 DEF NetInv, Selection, Inversion, Below, Checks
  <2>3. ASSUME NEW f \in Func, InvertEntry(f)
        PROVE  Selection' /\ Inversion'
    BY <2>3, InvertEntryInverts
  <2>4. ASSUME NEW f \in Func, RejectLevel(f)
        PROVE  Selection' /\ Inversion'
    BY <2>4 DEF RejectLevel, inputVars, networkVars, NetInv, Selection, Inversion,
       Below, Checks
  <2>5. CASE ReturnNetwork
    BY <2>5 DEF ReturnNetwork, inputVars, networkVars, NetInv, Selection, Inversion,
       Below, Checks
  <2> QED
    BY <2>1, <2>2, <2>3, <2>4, <2>5 DEF Construct
<1>7. Inverted'
  BY ConstructInverts DEF IInv
<1> QED
  BY <1>4, <1>5, <1>6, <1>7 DEF NetInv

-----------------------------------------------------------------------------
(* The sort preserves the invariant                                        *)

(* The sort does not touch the network.                                    *)
LEMMA SortKeepsNetwork ==
  ASSUME NetInv, phase = "sort", UNCHANGED <<inputVars, networkVars>>
  PROVE  /\ Selection' /\ Inversion' /\ Inverted'
         /\ \A f \in Func : IsChecker(f)' <=> IsChecker(f)
         /\ \A c, f \in Func : Checks(c, f)' <=> Checks(c, f)
         /\ \A c, f \in Func : Below(c, f)' <=> Below(c, f)
         /\ UNCHANGED <<sensitive, checkerCheckee>>
         /\ phase' = "sort" => Unused'
BY DEF inputVars, networkVars, NetInv, Unused, Selection, Inversion, Inverted,
   IsChecker, Checks, Below

(* A call from the outer loop of the sort preserves the invariant.         *)
LEMMA SortFromPreserves ==
  ASSUME IInv, NEW f \in Func, SortFrom(f)
  PROVE  NetInv' /\ SortInv'
<1> USE DEF IInv
<1>1. /\ phase = "sort" /\ phase' = "sort" /\ stack = <<>>
      /\ f \notin visited /\ visited' = visited \cup {f}
      /\ stack' = IF IsChecker(f) THEN Append(stack, f) ELSE stack
      /\ UNCHANGED <<cursor, list, inputVars, networkVars>>
  BY DEF SortFrom, Enter
<1>2. /\ NetInv'
      /\ \A g \in Func : IsChecker(g)' <=> IsChecker(g)
      /\ UNCHANGED <<sensitive, checkerCheckee>>
  BY <1>1, SortKeepsNetwork DEF NetInv
<1>3. Len(stack) = 0 /\ 1..Len(stack) = {}
  BY <1>1, EmptySeq
<1>4. ASSUME IsChecker(f)
      PROVE  /\ Len(stack') = 1 /\ stack'[1] = f
             /\ RangeOf(stack') = RangeOf(stack) \cup {f}
  <2>1. stack' = Append(stack, f) /\ stack \in Seq(Func)
    BY <1>1, <1>4 DEF TypeOK
  <2>2. /\ Len(stack') = Len(stack) + 1
        /\ stack'[Len(stack) + 1] = f
        /\ RangeOf(stack') = RangeOf(stack) \cup {f}
    BY <2>1, AppendFacts, AppendRange
  <2> QED
    BY <1>3, <2>2
<1>5. RangeOf(stack) = {}
  BY <1>3 DEF RangeOf
<1>6. Visits'
  <2>1. CASE IsChecker(f)
    <3>1. RangeOf(stack') = {f} /\ RangeOf(list') = RangeOf(list)
      BY <1>1, <1>4, <1>5, <2>1
    <3> QED
      BY <1>1, <1>2, <1>5, <2>1, <3>1
         DEF SortInv, Visits, Listed, Stacked, IsChecker
  <2>2. CASE ~IsChecker(f)
    <3>1. RangeOf(stack') = RangeOf(stack) /\ RangeOf(list') = RangeOf(list)
      BY <1>1, <2>2
    <3> QED
      BY <1>1, <1>2, <2>2, <3>1 DEF SortInv, Visits, Listed, Stacked, IsChecker
  <2> QED
    BY <2>1, <2>2
<1>7. Chain' /\ Looked'
  <2>1. CASE IsChecker(f)
    <3>1. cursor'[f] = 0
      BY <1>1 DEF SortInv, Visits
    <3>2. \A p \in 1..Len(stack') : p = 1 /\ stack'[p] = f
      <4>1. Len(stack') = 1 /\ stack'[1] = f
        BY <1>4, <2>1
      <4> QED
        BY <4>1
    <3>3. Len(checkerCheckee'[f]) \in Nat
      BY <1>2, LenProperties DEF TypeOK
    <3>4. Looked'
      <4>1. \A p \in 1..Len(stack') : cursor'[stack'[p]] = 0
        BY <3>1, <3>2
      <4>2. \A p \in 1..Len(stack') : cursor'[stack'[p]] <= Len(checkerCheckee'[stack'[p]])
        BY <3>1, <3>2, <3>3
      <4>3. 1..0 = {}
        OBVIOUS
      <4> QED
        BY <4>1, <4>2, <4>3 DEF Looked
    <3>5. Chain'
      BY <3>2 DEF Chain
    <3> QED
      BY <3>4, <3>5
  <2>2. CASE ~IsChecker(f)
    BY <1>1, <1>3, <2>2 DEF Chain, Looked
  <2> QED
    BY <2>1, <2>2
<1>8. Distinct(list)' /\ CheckeesFirst'
  BY <1>1, <1>2 DEF SortInv, Distinct, CheckeesFirst, Checks, IsChecker
<1> QED
  BY <1>2, <1>6, <1>7, <1>8 DEF SortInv

(* What the calls in progress have looked at once the innermost has moved  *)
(* on to g, in terms of the stack of before.                               *)
MovedOnTo(g) ==
  \A p \in 1..Len(stack) :
    /\ cursor'[stack[p]] <= Len(checkerCheckee[stack[p]])
    /\ \A m \in 1..cursor'[stack[p]] :
         LET h == checkerCheckee[stack[p]][m]
         IN  IsChecker(h) => \/ Listed(h)
                             \/ p < Len(stack) /\ stack[p + 1] = h
                             \/ p = Len(stack) /\ h = g /\ g \notin visited

(* A call that looks at its next checkee keeps Looked.                     *)
LEMMA VisitLooks ==
  ASSUME IInv, NEW caller, NEW g,
         stack # <<>>, caller = Top(stack), g = checkerCheckee[caller][cursor[caller] + 1],
         cursor[caller] + 1 \in 1..Len(checkerCheckee[caller]),
         cursor' = [cursor EXCEPT ![caller] = cursor[caller] + 1]
  PROVE  /\ g \in Func /\ Below(caller, g) /\ ~Stacked(g)
         /\ MovedOnTo(g)
<1> USE DEF IInv
<1>1. /\ Len(stack) \in Nat \ {0}
      /\ caller \in Func /\ caller = stack[Len(stack)]
      /\ \A p \in 1..Len(stack) : stack[p] \in Func
  BY FrontProperties, ElementOfSeq DEF TypeOK, Top
<1>2. cursor[caller] \in Nat /\ checkerCheckee[caller] \in Seq(Func)
  BY <1>1 DEF TypeOK
<1>3. g \in Func
  BY <1>2, ElementOfSeq
<1>4. Below(caller, g)
  <2>1. Checks(caller, g)
    BY DEF Checks, RangeOf
  <2> QED
    BY <1>1, <1>3, <2>1, ChecksBelow
<1>5. ~Stacked(g)
  <2> SUFFICES ASSUME NEW q \in 1..Len(stack), g = stack[q] PROVE FALSE
    BY DEF Stacked, RangeOf
  <2>1. CASE q = Len(stack)
    BY <1>1, <1>4, <2>1, BelowIrreflexive
  <2>2. CASE q < Len(stack)
    <3>1. Below(g, caller)
      BY <1>1, <2>2 DEF SortInv, Chain
    <3> QED
      BY <1>1, <1>3, <1>4, <3>1, BelowTransitive, BelowIrreflexive
  <2> QED
    BY <1>1, <2>1, <2>2
<1>6. ASSUME NEW p \in 1..Len(stack)
      PROVE  /\ cursor'[stack[p]] <= Len(checkerCheckee[stack[p]])
             /\ \A m \in 1..cursor'[stack[p]] :
                  LET h == checkerCheckee[stack[p]][m]
                  IN  IsChecker(h) => \/ Listed(h)
                                      \/ p < Len(stack) /\ stack[p + 1] = h
                                      \/ p = Len(stack) /\ h = g /\ g \notin visited
  <2>1. CASE p < Len(stack)
    <3>1. stack[p] # caller
      BY <1>1, <2>1, StackDistinct DEF SortInv
    <3>2. cursor'[stack[p]] = cursor[stack[p]]
      BY <1>1, <3>1 DEF TypeOK
    <3> QED
      BY <2>1, <3>2 DEF SortInv, Looked
  <2>2. CASE p = Len(stack)
    <3>1. cursor'[caller] = cursor[caller] + 1
      BY <1>1 DEF TypeOK
    <3>2. IsChecker(g) /\ g \in visited => Listed(g)
      BY <1>5 DEF SortInv, Visits
    <3>3. ASSUME NEW m \in 1..(cursor[caller] + 1), IsChecker(checkerCheckee[caller][m])
          PROVE  \/ Listed(checkerCheckee[caller][m])
                 \/ checkerCheckee[caller][m] = g /\ g \notin visited
      <4>1. CASE m = cursor[caller] + 1
        BY <3>2, <3>3, <4>1
      <4>2. CASE m \in 1..cursor[caller]
        <5>1. p \in 1..Len(stack) /\ ~(p < Len(stack)) /\ stack[p] = caller
          BY <1>1, <2>2
        <5> QED
          BY <3>3, <4>2, <5>1 DEF SortInv, Looked
      <4> QED
        BY <1>2, <4>1, <4>2
    <3> QED
      BY <1>1, <2>2, <3>1, <3>3
  <2> QED
    BY <1>1, <2>1, <2>2
<1> QED
  BY <1>3, <1>4, <1>5, <1>6 DEF MovedOnTo

(* Looking at a checkee, with or without a call, preserves the invariant.  *)
LEMMA VisitPreserves ==
  ASSUME IInv, VisitCheckee
  PROVE  NetInv' /\ SortInv'
<1> USE DEF IInv
<1>1. PICK caller, g :
        /\ stack # <<>> /\ caller = Top(stack)
        /\ g = checkerCheckee[caller][cursor[caller] + 1]
        /\ cursor[caller] + 1 <= Len(checkerCheckee[caller])
        /\ cursor' = [cursor EXCEPT ![caller] = cursor[caller] + 1]
        /\ g \in visited => UNCHANGED <<visited, stack>>
        /\ g \notin visited => Enter(g)
  BY DEF VisitCheckee
<1>2. /\ phase = "sort" /\ phase' = "sort"
      /\ UNCHANGED <<list, inputVars, networkVars>>
  BY DEF VisitCheckee
<1>3. /\ Len(stack) \in Nat \ {0}
      /\ caller \in Func /\ caller = stack[Len(stack)]
      /\ \A p \in 1..Len(stack) : stack[p] \in Func
  BY <1>1, FrontProperties, ElementOfSeq DEF TypeOK, Top
<1>4. cursor[caller] + 1 \in 1..Len(checkerCheckee[caller])
  <2>1. cursor[caller] \in Nat /\ checkerCheckee[caller] \in Seq(Func)
    BY <1>3 DEF TypeOK
  <2>2. Len(checkerCheckee[caller]) \in Nat
    BY <2>1, LenProperties
  <2> QED
    BY <1>1, <2>1, <2>2
<1>5. g \in Func /\ Below(caller, g) /\ ~Stacked(g) /\ MovedOnTo(g)
  BY <1>1, <1>4, VisitLooks
<1>6. ASSUME NEW p \in 1..Len(stack)
      PROVE  /\ cursor'[stack[p]] <= Len(checkerCheckee[stack[p]])
             /\ \A m \in 1..cursor'[stack[p]] :
                  LET h == checkerCheckee[stack[p]][m]
                  IN  IsChecker(h) => \/ Listed(h)
                                      \/ p < Len(stack) /\ stack[p + 1] = h
                                      \/ p = Len(stack) /\ h = g /\ g \notin visited
  BY <1>5 DEF MovedOnTo
<1>7. /\ NetInv'
      /\ \A f \in Func : IsChecker(f)' <=> IsChecker(f)
      /\ UNCHANGED <<sensitive, checkerCheckee>>
  BY <1>2, SortKeepsNetwork DEF NetInv
<1>8. Distinct(list)' /\ CheckeesFirst'
  BY <1>2, <1>7 DEF SortInv, Distinct, CheckeesFirst, Checks, IsChecker
<1>9. caller \in visited
  BY <1>3 DEF SortInv, Visits, Stacked, RangeOf
<1>10. \A f \in Func : f # caller => cursor'[f] = cursor[f]
  BY <1>1, <1>3 DEF TypeOK
<1>11. CASE g \in visited \/ ~IsChecker(g)
  <2>1. /\ UNCHANGED <<stack, list>>
        /\ visited' = visited \cup {g}
    BY <1>1, <1>2, <1>11 DEF Enter
  <2>2. Chain'
    BY <1>7, <2>1 DEF SortInv, Chain, Below
  <2>3. Visits'
    BY <1>5, <1>7, <1>9, <1>10, <1>11, <2>1
       DEF SortInv, Visits, Listed, Stacked, IsChecker
  <2>4. Looked'
    BY <1>6, <1>7, <1>11, <2>1 DEF Looked, IsChecker, Listed
  <2> QED
    BY <1>7, <1>8, <2>2, <2>3, <2>4 DEF SortInv
<1>12. CASE g \notin visited /\ IsChecker(g)
  <2>1. /\ visited' = visited \cup {g} /\ stack' = Append(stack, g)
        /\ list' = list
    BY <1>1, <1>2, <1>12 DEF Enter
  <2>2. /\ Len(stack') = Len(stack) + 1 /\ stack'[Len(stack) + 1] = g
        /\ \A p \in 1..Len(stack) : stack'[p] = stack[p]
        /\ RangeOf(stack') = RangeOf(stack) \cup {g}
    BY <1>5, <2>1, AppendFacts, AppendRange DEF TypeOK
  <2>3. \A p, q \in 1..(Len(stack) + 1) : p < q => Below(stack'[p], stack'[q])
    <3> SUFFICES ASSUME NEW p \in 1..(Len(stack) + 1), NEW q \in 1..(Len(stack) + 1),
                        p < q
                 PROVE  Below(stack'[p], stack'[q])
      OBVIOUS
    <3>1. p \in 1..Len(stack) /\ stack'[p] = stack[p]
      BY <1>3, <2>2
    <3>2. CASE q \in 1..Len(stack)
      BY <2>2, <3>1, <3>2 DEF SortInv, Chain
    <3>3. CASE q = Len(stack) + 1
      <4>1. CASE p = Len(stack)
        BY <1>3, <1>5, <2>2, <3>1, <3>3, <4>1
      <4>2. CASE p < Len(stack)
        <5>1. Below(stack[p], caller)
          BY <1>3, <3>1, <4>2 DEF SortInv, Chain
        <5> QED
          BY <1>3, <1>5, <2>2, <3>1, <3>3, <5>1, BelowTransitive
      <4> QED
        BY <1>3, <3>1, <4>1, <4>2
    <3> QED
      BY <1>3, <3>2, <3>3
  <2>4. Chain'
    <3>1. \A p, q \in 1..Len(stack') : p < q => Below(stack'[p], stack'[q])
      BY <2>2, <2>3
    <3> QED
      BY <1>7, <3>1 DEF Chain, Below
  <2>5. Visits'
    <3>1. RangeOf(list') = RangeOf(list)
      BY <2>1
    <3>2. \A f \in Func : /\ Listed(f)' <=> f \in RangeOf(list)
                          /\ Stacked(f)' <=> f \in RangeOf(stack) \/ f = g
      BY <2>2, <3>1 DEF Listed, Stacked
    <3> QED
      BY <1>5, <1>7, <1>9, <1>10, <1>12, <2>1, <2>2, <3>1
         DEF SortInv, Visits, Listed, Stacked, IsChecker
  <2>6. ASSUME NEW p \in 1..(Len(stack) + 1)
        PROVE  /\ cursor'[stack'[p]] <= Len(checkerCheckee[stack'[p]])
               /\ \A m \in 1..cursor'[stack'[p]] :
                    LET h == checkerCheckee[stack'[p]][m]
                    IN  IsChecker(h) => \/ Listed(h)
                                        \/ p < Len(stack) + 1 /\ stack'[p + 1] = h
    <3>1. CASE p \in 1..Len(stack)
      <4>1. stack'[p] = stack[p]
        BY <2>2, <3>1
      <4>2. p < Len(stack) => stack'[p + 1] = stack[p + 1]
        BY <1>3, <2>2, <3>1
      <4>3. p = Len(stack) => stack'[p + 1] = g
        BY <2>2
      <4>4. p < Len(stack) + 1
        BY <1>3, <3>1
      <4> QED
        BY <1>6, <3>1, <4>1, <4>2, <4>3, <4>4
    <3>2. CASE p = Len(stack) + 1
      <4>1. stack'[p] = g /\ cursor'[g] = 0
        BY <1>5, <1>9, <1>10, <1>12, <2>2, <3>2 DEF SortInv, Visits
      <4>2. Len(checkerCheckee[g]) \in Nat
        BY <1>5, LenProperties DEF TypeOK
      <4> QED
        BY <4>1, <4>2
    <3> QED
      BY <1>3, <3>1, <3>2
  <2>7. Looked'
    BY <1>7, <2>1, <2>2, <2>6 DEF Looked, IsChecker, Listed
  <2> QED
    BY <1>7, <1>8, <2>4, <2>5, <2>7 DEF SortInv
<1> QED
  BY <1>11, <1>12

(* A call that lists its function and returns preserves the invariant.     *)
LEMMA ListPreserves ==
  ASSUME IInv, ListFunction
  PROVE  NetInv' /\ SortInv'
<1> USE DEF IInv
<1>1. PICK t : /\ stack # <<>> /\ t = Top(stack)
               /\ cursor[t] >= Len(checkerCheckee[t])
               /\ list' = Append(list, t)
               /\ stack' = SubSeq(stack, 1, Len(stack) - 1)
  BY DEF ListFunction
<1>2. /\ phase = "sort" /\ phase' = "sort"
      /\ UNCHANGED <<visited, cursor, inputVars, networkVars>>
  BY DEF ListFunction
<1>3. /\ Len(stack) \in Nat \ {0}
      /\ t \in Func /\ t = stack[Len(stack)]
      /\ \A p \in 1..Len(stack) : stack[p] \in Func
      /\ stack' \in Seq(Func) /\ Len(stack') = Len(stack) - 1
      /\ \A p \in 1..(Len(stack) - 1) : stack'[p] = stack[p]
  BY <1>1, FrontProperties, ElementOfSeq DEF TypeOK, Top
<1>4. /\ Len(list) \in Nat
      /\ Len(list') = Len(list) + 1 /\ list'[Len(list) + 1] = t
      /\ \A i \in 1..Len(list) : list'[i] = list[i]
      /\ RangeOf(list') = RangeOf(list) \cup {t}
  <2>1. list \in Seq(Func) /\ list' = Append(list, t)
    BY <1>1 DEF TypeOK
  <2> QED
    BY <1>3, <2>1, AppendFacts, AppendRange, LenProperties
<1>5. /\ NetInv' /\ UNCHANGED <<sensitive, checkerCheckee>>
  BY <1>2, SortKeepsNetwork DEF NetInv
<1>6. Stacked(t) /\ ~Listed(t) /\ t \in visited /\ IsChecker(t)
  <2>1. Stacked(t)
    BY <1>3 DEF Stacked, RangeOf
  <2> QED
    BY <1>3, <2>1 DEF SortInv, Visits
<1>7. RangeOf(stack') = RangeOf(stack) \ {t}
  <2>1. \A p \in 1..Len(stack) : p = Len(stack) \/ p \in 1..(Len(stack) - 1)
    BY <1>3
  <2>2. \A p \in 1..(Len(stack) - 1) : p \in 1..Len(stack) /\ stack[p] # t
    BY <1>3, StackDistinct DEF SortInv
  <2> QED
    BY <1>3, <2>1, <2>2 DEF RangeOf
<1>8. \A f \in Func : Checks(t, f) /\ IsChecker(f) => Listed(f)
  <2> SUFFICES ASSUME NEW m \in 1..Len(checkerCheckee[t]), IsChecker(checkerCheckee[t][m])
               PROVE  Listed(checkerCheckee[t][m])
    BY DEF Checks, RangeOf
  <2>1. m \in 1..cursor[t]
    <3>1. cursor[t] \in Nat /\ checkerCheckee[t] \in Seq(Func)
      BY <1>3 DEF TypeOK
    <3>2. Len(checkerCheckee[t]) \in Nat
      BY <3>1, LenProperties
    <3> QED
      BY <1>1, <3>1, <3>2
  <2>2. Len(stack) \in 1..Len(stack) /\ ~(Len(stack) < Len(stack))
    BY <1>3
  <2> QED
    BY <1>3, <2>1, <2>2 DEF SortInv, Looked
<1>9. Chain'
  <2>1. \A p \in 1..(Len(stack) - 1) : p \in 1..Len(stack)
    BY <1>3
  <2>2. \A p \in 1..Len(stack') : p \in 1..Len(stack) /\ stack'[p] = stack[p]
    BY <1>3, <2>1
  <2>3. Chain
    BY DEF SortInv
  <2>4. \A p, q \in 1..Len(stack') : p < q => Below(stack'[p], stack'[q])
    BY <2>2, <2>3 DEF Chain
  <2> QED
    BY <1>5, <2>4 DEF Chain, Below
<1>10. Visits'
  BY <1>2, <1>4, <1>5, <1>6, <1>7 DEF SortInv, Visits, Listed, Stacked, IsChecker
<1>11. Looked'
  <2>1. ASSUME NEW p \in 1..(Len(stack) - 1)
        PROVE  /\ cursor[stack[p]] <= Len(checkerCheckee[stack[p]])
               /\ \A m \in 1..cursor[stack[p]] :
                    LET h == checkerCheckee[stack[p]][m]
                    IN  IsChecker(h) => \/ h \in RangeOf(list')
                                        \/ p < Len(stack) - 1 /\ stack'[p + 1] = h
    <3>1. /\ p \in 1..Len(stack) /\ p < Len(stack)
          /\ p < Len(stack) - 1 => stack'[p + 1] = stack[p + 1]
          /\ p = Len(stack) - 1 => stack[p + 1] = t
      BY <1>3
    <3>2. \A h : Listed(h) \/ h = t => h \in RangeOf(list')
      BY <1>4 DEF Listed
    <3>3. p < Len(stack) - 1 \/ p = Len(stack) - 1
      BY <1>3
    <3> QED
      BY <3>1, <3>2, <3>3 DEF SortInv, Looked
  <2>2. \A p \in 1..(Len(stack) - 1) : stack'[p] = stack[p]
    BY <1>3
  <2> QED
    BY <1>2, <1>3, <1>5, <2>1, <2>2 DEF Looked, IsChecker, Listed
<1>12. Distinct(list)'
  <2>1. \A i \in 1..Len(list) : list[i] # t
    BY <1>6 DEF Listed, RangeOf
  <2>2. \A i \in 1..(Len(list) + 1) : i \in 1..Len(list) \/ i = Len(list) + 1
    BY <1>4
  <2> QED
    BY <1>4, <2>1, <2>2 DEF SortInv, Distinct
<1>13. CheckeesFirst'
  <2> SUFFICES ASSUME NEW i \in 1..(Len(list) + 1), NEW f \in Func,
                      Checks(list'[i], f), IsChecker(f)
               PROVE  \E j \in 1..(i - 1) : list'[j] = f
    BY <1>4, <1>5 DEF CheckeesFirst, Checks, IsChecker
  <2>1. CASE i \in 1..Len(list)
    <3>1. PICK j \in 1..(i - 1) : list[j] = f
      BY <1>4, <2>1 DEF SortInv, CheckeesFirst
    <3>2. j \in 1..Len(list)
      BY <1>4, <2>1
    <3> QED
      BY <1>4, <3>1, <3>2
  <2>2. CASE i = Len(list) + 1
    <3>1. PICK j \in 1..Len(list) : list[j] = f
      BY <1>4, <1>8, <2>2 DEF Listed, RangeOf
    <3> QED
      BY <1>4, <2>2, <3>1
  <2> QED
    BY <1>4, <2>1, <2>2
<1> QED
  BY <1>5, <1>9, <1>10, <1>11, <1>12, <1>13 DEF SortInv

(* The return of the sort preserves the invariant.                         *)
LEMMA ReturnPreserves ==
  ASSUME IInv, ReturnSort
  PROVE  NetInv' /\ SortInv'
<1> USE DEF IInv
<1>1. /\ phase = "sort" /\ phase' = "done" /\ stack = <<>>
      /\ AllFunctions \subseteq visited
      /\ UNCHANGED <<inputVars, networkVars, sortVars>>
  BY DEF ReturnSort
<1>2. Selection' /\ Inversion' /\ Inverted' /\ UNCHANGED <<sensitive, checkerCheckee>>
  BY <1>1, SortKeepsNetwork
<1>3. Unused'
  BY <1>1, <1>2 DEF Unused, AllFunctions, IsChecker, Checks, sortVars
<1>4. SortInv'
  BY <1>1, <1>2 DEF sortVars, SortInv, Chain, Visits, Looked, Distinct,
     CheckeesFirst, IsChecker, Checks, Listed, Stacked, Below
<1> QED
  BY <1>2, <1>3, <1>4 DEF NetInv

-----------------------------------------------------------------------------
(* The invariant and what it implies                                       *)

(* The invariant holds initially.                                          *)
LEMMA InvInit == Init => IInv
<1> SUFFICES ASSUME Init PROVE IInv
  OBVIOUS
<1>1. NoSortYet
  BY DEF Init, NoSortYet
<1>2. Unused
  BY DEF Init, Unused, IsChecker
<1>3. Inversion
  BY <1>2, NothingChecked DEF Init, Unused, Inversion
<1>4. Selection /\ Inverted
  <2>1. Len(sensitive) = 0
    BY EmptySeq DEF Init
  <2> QED
    BY <2>1 DEF Init, Selection, Inverted, Distinct
<1> QED
  BY <1>1, <1>2, <1>3, <1>4, TypeInit, NothingSorted DEF IInv, NetInv

(* Each action preserves the invariant.                                    *)
LEMMA InvNext == IInv /\ [Next]_vars => IInv'
<1> SUFFICES ASSUME IInv, [Next]_vars PROVE IInv'
  OBVIOUS
<1>1. TypeOK'
  BY TypeNext DEF IInv
<1>2. CASE Call
  BY <1>1, <1>2, CallPreserves DEF IInv
<1>3. CASE Construct
  BY <1>1, <1>3, ConstructPreserves DEF IInv
<1>4. ASSUME NEW f \in Func, SortFrom(f)
      PROVE  IInv'
  BY <1>1, <1>4, SortFromPreserves DEF IInv
<1>5. CASE VisitCheckee
  BY <1>1, <1>5, VisitPreserves DEF IInv
<1>6. CASE ListFunction
  BY <1>1, <1>6, ListPreserves DEF IInv
<1>7. CASE ReturnSort
  BY <1>1, <1>7, ReturnPreserves DEF IInv
<1>8. CASE UNCHANGED vars
  <2>1. NetInv'
    BY <1>8 DEF IInv, vars, inputVars, networkVars, sortVars, NetInv, Unused,
       Selection, Inversion, Inverted, AllFunctions, IsChecker, Checks, Below
  <2>2. SortInv'
    BY <1>8 DEF IInv, vars, inputVars, networkVars, sortVars, SortInv, Chain,
       Visits, Looked, Distinct, CheckeesFirst, IsChecker, Checks, Listed,
       Stacked, Below
  <2> QED
    BY <1>1, <2>1, <2>2 DEF IInv
<1> QED
  BY <1>2, <1>3, <1>4, <1>5, <1>6, <1>7, <1>8 DEF Next, Sort

(* The inductive invariant holds throughout.                               *)
THEOREM Invariance == Spec => []IInv
BY InvInit, InvNext, PTL DEF Spec

(* A checker is listed after the checkers it checks, in every network the  *)
(* construction can build and whatever order std::map iterates in.         *)
THEOREM ListedCheckeesFirst == Spec => []CheckeesFirst
<1>1. IInv => CheckeesFirst
  BY DEF IInv, SortInv
<1> QED
  BY <1>1, Invariance, PTL

(* When the sort has returned, the list is a permutation of the checkers.   *)
LEMMA SortComplete == IInv => ListsEveryChecker
<1> SUFFICES ASSUME IInv, phase = "done"
             PROVE  RangeOf(list) = {f \in Func : IsChecker(f)}
  BY DEF IInv, SortInv, ListsEveryChecker
<1>1. RangeOf(list) \subseteq Func
  BY ElementOfSeq DEF IInv, TypeOK, RangeOf
<1>2. \A f \in Func : ~Stacked(f)
  BY EmptySeq DEF IInv, NetInv, Unused, Stacked, RangeOf
<1>3. \A f \in Func : Listed(f) => IsChecker(f)
  BY DEF IInv, SortInv, Visits
<1>4. \A f \in Func : IsChecker(f) => Listed(f)
  BY <1>2 DEF IInv, NetInv, Unused, AllFunctions, SortInv, Visits
<1> QED
  BY <1>1, <1>3, <1>4 DEF Listed

(* The finished list is a permutation of the checkers, in every network:   *)
(* no checker goes without its guards or is given them twice.              *)
THEOREM ListedOnce == Spec => []ListsEveryChecker
BY SortComplete, Invariance, PTL

(* No set of functions checks itself round a cycle: of its sensitive       *)
(* functions, the one taken first checks none of the set.                  *)
LEMMA BelowHasMinimum ==
  ASSUME TypeOK, NEW S \in SUBSET Func, S # {}
  PROVE  \E c \in S : \A f \in S : ~Below(c, f)
<1> DEFINE Places == {k \in 1..Len(sensitive) : sensitive[k] \in S}
<1>1. Len(sensitive) \in Nat
  BY LenProperties DEF TypeOK
<1>2. CASE Places = {}
  BY <1>2 DEF Below
<1>3. CASE Places # {}
  <2>1. Places \subseteq Nat
    BY <1>1
  <2>2. PICK k \in Places : \A l \in Places : ~(<<l, k>> \in OpToRel(<, Nat))
    BY <1>3, <2>1, NatLessThanWellFounded, WFMin
  <2>3. \A l \in Places : ~(l < k)
    BY <2>1, <2>2 DEF OpToRel
  <2>4. \A f \in S : ~Below(sensitive[k], f)
    <3> SUFFICES ASSUME NEW f \in S, NEW l \in 1..Len(sensitive), f = sensitive[l],
                        \A j \in 1..l : sensitive[j] # sensitive[k]
                 PROVE  FALSE
      BY DEF Below
    <3>1. ~(l < k)
      BY <2>3
    <3>2. k \in 1..l
      BY <1>1, <3>1
    <3> QED
      BY <3>2
  <2> QED
    BY <2>4
<1> QED
  BY <1>2, <1>3

(* No network has a cycle of checks, whatever functions are handed over.   *)
THEOREM Acyclicity == Spec => []NoCheckingCycle
<1>1. IInv => NoCheckingCycle
  BY ChecksBelow, BelowHasMinimum DEF IInv, NoCheckingCycle
<1> QED
  BY <1>1, Invariance, PTL

(* A checker of a function was a candidate when that function was taken.   *)
LEMMA RolesOfChecks == IInv => RolesRespected
<1> SUFFICES ASSUME IInv, NEW c \in Func, NEW f \in Func, Checks(c, f)
             PROVE  c \in checkers /\ f \in RangeOf(sensitive)
  BY DEF RolesRespected
<1>1. c \in checkeeChecker[f]
  BY DEF IInv, NetInv, Inversion
<1>2. c \in checkers /\ Below(c, f)
  BY <1>1 DEF IInv, NetInv, Selection
<1> QED
  BY <1>2 DEF Below, RangeOf

(* Only candidates check and only sensitive functions are checked.         *)
THEOREM RolesKept == Spec => []RolesRespected
BY RolesOfChecks, Invariance, PTL

-----------------------------------------------------------------------------
(* Each checkee is pushed once, and given the checkers asked for           *)

(* A checkee that is still pending has not been pushed to any checker.     *)
PushedOnce ==
  /\ \A c \in Func : Distinct(checkerCheckee[c])
  /\ \A c \in Func : \A f \in pending : ~Checks(c, f)

(* The functions taken so far have the level their turn allowed; after the *)
(* break there are no candidates for those that were not taken.            *)
Level(i) == CombSize(connectivity, Cardinality(CandidatesFor(i)))

Levels ==
  /\ phase = "select" => available = CandidatesFor(pos - 1)
  /\ \A i \in 1..(pos - 1) : Cardinality(checkeeChecker[sensitive[i]]) = Level(i)
  /\ phase \in {"invert", "built", "sort", "done"} =>
       \A i \in pos..Len(sensitive) : CandidatesFor(i) = {}

LInv == PushedOnce /\ Levels

LEMMA LevelsInit == Init => LInv
<1> SUFFICES ASSUME Init PROVE LInv
  OBVIOUS
<1>1. Len(<<>>) = 0
  BY EmptySeq
<1> QED
  BY <1>1 DEF Init, LInv, PushedOnce, Levels, Distinct

(* A sequence without repetition keeps that when a new element is added.   *)
LEMMA AppendDistinct ==
  ASSUME NEW S, NEW s \in Seq(S), NEW e \in S, Distinct(s), e \notin RangeOf(s)
  PROVE  Distinct(Append(s, e))
<1>1. /\ Len(s) \in Nat /\ Len(Append(s, e)) = Len(s) + 1
      /\ \A i \in 1..Len(s) : Append(s, e)[i] = s[i]
      /\ Append(s, e)[Len(s) + 1] = e
  BY AppendFacts, LenProperties
<1>2. \A i \in 1..(Len(s) + 1) : i # Len(s) + 1 => i \in 1..Len(s)
  BY <1>1
<1> QED
  BY <1>1, <1>2 DEF Distinct, RangeOf

(* A pending checkee is pushed to its checkers and leaves pending.         *)
LEMMA InvertPushesOnce ==
  ASSUME IInv, PushedOnce, NEW f \in Func, InvertEntry(f)
  PROVE  PushedOnce'
<1>1. /\ f \in pending /\ pending' = pending \ {f}
      /\ checkerCheckee' = [c \in Func |-> IF c \in checkeeChecker[f]
                                           THEN Append(checkerCheckee[c], f)
                                           ELSE checkerCheckee[c]]
  BY DEF InvertEntry
<1>2. ASSUME NEW c \in Func
      PROVE  /\ Distinct(checkerCheckee'[c])
             /\ \A g \in pending' : g \notin RangeOf(checkerCheckee'[c])
  <2>1. checkerCheckee[c] \in Seq(Func) /\ Distinct(checkerCheckee[c])
    BY DEF IInv, TypeOK, PushedOnce
  <2>2. \A g \in pending : g \notin RangeOf(checkerCheckee[c])
    BY DEF PushedOnce, Checks
  <2>3. CASE c \in checkeeChecker[f]
    <3>1. checkerCheckee'[c] = Append(checkerCheckee[c], f)
      BY <1>1, <2>3
    <3>2. RangeOf(checkerCheckee'[c]) = RangeOf(checkerCheckee[c]) \cup {f}
      BY <2>1, <3>1, AppendRange
    <3> QED
      BY <1>1, <2>1, <2>2, <3>1, <3>2, AppendDistinct
  <2>4. CASE c \notin checkeeChecker[f]
    BY <1>1, <2>1, <2>2, <2>4
  <2> QED
    BY <2>3, <2>4
<1> QED
  BY <1>2 DEF PushedOnce, Checks

(* All other steps leave the lists of checkees alone, or begin with none.  *)
LEMMA PushedNext == IInv /\ PushedOnce /\ [Next]_vars => PushedOnce'
<1> SUFFICES ASSUME IInv, PushedOnce, [Next]_vars PROVE PushedOnce'
  OBVIOUS
<1>1. CASE UNCHANGED <<pending, checkerCheckee>>
  BY <1>1 DEF PushedOnce, Distinct, Checks, RangeOf
<1>2. CASE EndSelection
  <2>1. checkerCheckee' = checkerCheckee /\ \A c \in Func : checkerCheckee[c] = <<>>
    BY <1>2 DEF EndSelection, IInv, NetInv, Unused, IsChecker
  <2> QED
    BY <2>1, EmptySeq DEF PushedOnce, Distinct, Checks, RangeOf
<1>3. ASSUME NEW f \in Func, InvertEntry(f)
      PROVE  PushedOnce'
  BY <1>3, InvertPushesOnce
<1>4. CASE Call \/ Sort \/ UNCHANGED vars
  BY <1>1, <1>4 DEF Call, SetLowerConnectivityAcceptance, ConstructProtectionNetwork,
     GetReverseTopologicalSort, Sort, SortFrom, VisitCheckee, ListFunction, ReturnSort,
     vars, networkVars
<1>5. CASE Construct
  BY <1>1, <1>2, <1>3, <1>5 DEF Construct, SelectCheckers, RejectLevel, ReturnNetwork, networkVars
<1> QED
  BY <1>4, <1>5 DEF Next

(* The function whose turn it is is given checkers among the candidates    *)
(* the functions before it, and itself, have left.                         *)
LEMMA SelectLevels ==
  ASSUME IInv, Levels, SelectCheckers
  PROVE  Levels'
<1> DEFINE f == sensitive[pos]
<1>1. /\ phase = "select" /\ phase' = "select" /\ pos <= Len(sensitive)
      /\ available' = Remaining /\ pos' = pos + 1
      /\ UNCHANGED <<sensitive, checkers, connectivity>>
  BY DEF SelectCheckers, inputVars
<1>2. PICK chosen \in RandomComb(connectivity, Remaining) :
        checkeeChecker' = [checkeeChecker EXCEPT ![f] = chosen]
  BY DEF SelectCheckers
<1>3. /\ pos \in Nat \ {0} /\ Len(sensitive) \in Nat /\ pos \in 1..Len(sensitive)
      /\ checkeeChecker \in [Func -> SUBSET Func] /\ f \in Func
  <2>1. sensitive \in Seq(Func) /\ pos \in Nat \ {0}
    BY DEF IInv, TypeOK
  <2>2. Len(sensitive) \in Nat
    BY <2>1, LenProperties
  <2>3. pos \in 1..Len(sensitive)
    BY <1>1, <2>1, <2>2
  <2> QED
    BY <2>1, <2>2, <2>3, ElementOfSeq DEF IInv, TypeOK
<1>4. Remaining = CandidatesFor(pos)
  <2>1. \A j \in Nat : j \in 1..pos <=> j \in 1..(pos - 1) \/ j = pos
    BY <1>3
  <2>2. {sensitive[j] : j \in 1..pos} = {sensitive[j] : j \in 1..(pos - 1)} \cup {f}
    BY <1>3, <2>1
  <2> QED
    BY <1>1, <2>2 DEF Levels, Remaining, CandidatesFor
<1>5. \A i \in 1..(pos' - 1) : Cardinality(checkeeChecker'[sensitive[i]]) = Level(i)
  <2> SUFFICES ASSUME NEW i \in 1..pos
               PROVE  Cardinality(checkeeChecker'[sensitive[i]]) = Level(i)
    BY <1>1, <1>3
  <2>1. CASE i = pos
    BY <1>2, <1>3, <1>4, <2>1 DEF RandomComb, Level
  <2>2. CASE i # pos
    <3>1. i \in 1..(pos - 1) /\ i \in 1..Len(sensitive) /\ sensitive[i] # f
      BY <1>3, <2>2 DEF IInv, NetInv, Inverted, Distinct
    <3> QED
      BY <1>2, <1>3, <3>1 DEF Levels
  <2> QED
    BY <2>1, <2>2
<1>6. available' = CandidatesFor(pos' - 1)
  <2>1. pos' - 1 = pos
    BY <1>1, <1>3
  <2> QED
    BY <1>1, <1>4, <2>1
<1>7. \A i \in 1..(pos' - 1) : Cardinality(checkeeChecker'[sensitive'[i]]) = Level(i)'
  BY <1>1, <1>5 DEF Level, CandidatesFor
<1>8. available' = CandidatesFor(pos - 1)'
  BY <1>1, <1>6 DEF CandidatesFor
<1> QED
  BY <1>1, <1>7, <1>8 DEF Levels

(* At the break there is no candidate left, for this function or a later   *)
(* one.                                                                    *)
LEMMA EndLevels ==
  ASSUME IInv, Levels, EndSelection
  PROVE  Levels'
<1>1. /\ phase = "select" /\ phase' = "invert"
      /\ UNCHANGED <<sensitive, checkers, connectivity, pos, checkeeChecker>>
      /\ pos > Len(sensitive) \/ (pos <= Len(sensitive) /\ Remaining = {})
  BY DEF EndSelection, inputVars
<1>2. pos \in Nat \ {0} /\ Len(sensitive) \in Nat
  BY LenProperties DEF IInv, TypeOK
<1>3. ASSUME NEW i \in pos..Len(sensitive)
      PROVE  CandidatesFor(i) = {}
  <2>1. Remaining = {} /\ available = CandidatesFor(pos - 1)
    BY <1>1, <1>2, <1>3 DEF Levels
  <2>2. \A j \in 1..(pos - 1) : j \in 1..i
    BY <1>2, <1>3
  <2>3. pos \in 1..i
    BY <1>2, <1>3
  <2> QED
    BY <2>1, <2>2, <2>3 DEF CandidatesFor, Remaining
<1> QED
  BY <1>1, <1>3 DEF Levels, Level, CandidatesFor

LEMMA LevelsNext == IInv /\ Levels /\ [Next]_vars => Levels'
<1> SUFFICES ASSUME IInv, Levels, [Next]_vars PROVE Levels'
  OBVIOUS
<1>1. CASE /\ UNCHANGED <<sensitive, checkers, connectivity, pos, checkeeChecker>>
           /\ phase' # "select"
           /\ phase' \in {"invert", "built", "sort", "done"} =>
                phase \in {"invert", "built", "sort", "done"}
  BY <1>1 DEF Levels, Level, CandidatesFor
<1>2. CASE Construct
  <2>1. ASSUME NEW f \in Func, InvertEntry(f)
        PROVE  Levels'
    BY <1>1, <2>1 DEF InvertEntry, inputVars
  <2>2. ASSUME NEW f \in Func, RejectLevel(f)
        PROVE  Levels'
    BY <1>1, <2>2 DEF RejectLevel, inputVars, networkVars
  <2>3. CASE ReturnNetwork
    BY <1>1, <2>3 DEF ReturnNetwork, inputVars, networkVars
  <2> QED
    BY <1>2, <2>1, <2>2, <2>3, SelectLevels, EndLevels DEF Construct
<1>3. ASSUME NEW value \in BOOLEAN, SetLowerConnectivityAcceptance(value)
      PROVE  Levels'
  BY <1>1, <1>3 DEF SetLowerConnectivityAcceptance, networkVars
<1>4. ASSUME NEW order \in Orders, NEW candidates \in SUBSET Func, NEW level \in Connectivities,
             ConstructProtectionNetwork(order, candidates, level)
      PROVE  Levels'
  <2>1. /\ phase' = "select" /\ pos = 1 /\ pos' = 1
        /\ available' = candidates /\ checkers' = candidates
    BY <1>4 DEF ConstructProtectionNetwork, IInv, NetInv, Unused
  <2> QED
    BY <2>1 DEF Levels, CandidatesFor
<1>5. CASE GetReverseTopologicalSort
  BY <1>1, <1>5 DEF GetReverseTopologicalSort, inputVars, networkVars
<1>6. CASE Sort
  BY <1>1, <1>6 DEF Sort, SortFrom, VisitCheckee, ListFunction, ReturnSort, inputVars, networkVars
<1>7. CASE UNCHANGED vars
  BY <1>7 DEF vars, inputVars, networkVars, Levels, Level, CandidatesFor
<1> QED
  BY <1>2, <1>3, <1>4, <1>5, <1>6, <1>7 DEF Next, Call

(* Both hold throughout.                                                   *)
LEMMA LevelsInvariance == Spec => [](IInv /\ LInv)
<1>1. Init => LInv
  BY LevelsInit
<1>2. IInv /\ LInv /\ [Next]_vars => LInv'
  BY PushedNext, LevelsNext DEF LInv
<1> QED
  BY <1>1, <1>2, InvInit, InvNext, PTL DEF Spec

(* In every finished network a sensitive function has the connectivity     *)
(* asked for, or all the checkers its turn has left it, and no guard on it *)
(* twice in one checker.                                                   *)
THEOREM LevelsReached == Spec => []ConnectivityReached
<1>1. IInv /\ LInv => ConnectivityReached
  <2> SUFFICES ASSUME IInv, LInv, phase \in {"built", "sort", "done"},
                      NEW i \in 1..Len(sensitive)
               PROVE  LET guarding == {c \in Func : Checks(c, sensitive[i])}
                      IN  /\ guarding = checkeeChecker[sensitive[i]]
                          /\ guarding \subseteq CandidatesFor(i)
                          /\ \/ Cardinality(guarding) = connectivity
                             \/ /\ guarding = CandidatesFor(i)
                                /\ connectivity < 0 \/ Cardinality(guarding) < connectivity
                          /\ \A c \in guarding : Distinct(checkerCheckee[c])
    BY DEF ConnectivityReached
  <2> DEFINE f == sensitive[i]
             guarding == {c \in Func : Checks(c, f)}
  <2>1. /\ f \in Func /\ checkeeChecker[f] \subseteq Func
        /\ pos \in Nat \ {0} /\ Len(sensitive) \in Nat
    BY ElementOfSeq, LenProperties DEF IInv, TypeOK
  <2>2. guarding = checkeeChecker[f]
    BY <2>1 DEF IInv, NetInv, Inversion, Inverted
  <2>3. ASSUME NEW c \in checkeeChecker[f]
        PROVE  c \in CandidatesFor(i)
    <3>1. c \in checkers /\ Below(c, f)
      BY <2>1, <2>3 DEF IInv, NetInv, Selection
    <3>2. PICK k \in 1..Len(sensitive) : f = sensitive[k] /\ \A j \in 1..k : sensitive[j] # c
      BY <3>1 DEF Below
    <3>3. k = i
      BY <3>2 DEF IInv, NetInv, Inverted, Distinct
    <3> QED
      BY <3>1, <3>2, <3>3 DEF CandidatesFor
  <2>4. Cardinality(checkeeChecker[f]) = Level(i)
    <3>1. CASE i \in 1..(pos - 1)
      BY <3>1 DEF LInv, Levels
    <3>2. CASE i \notin 1..(pos - 1)
      <4>1. CandidatesFor(i) = {}
        BY <2>1, <3>2 DEF LInv, Levels
      <4>2. checkeeChecker[f] = {}
        BY <2>3, <4>1
      <4>3. Cardinality({}) = 0 /\ connectivity \in Int
        BY FS_EmptySet DEF IInv, TypeOK
      <4> QED
        BY <4>1, <4>2, <4>3 DEF Level, CombSize
    <3> QED
      BY <3>1, <3>2
  <2>5. /\ IsFiniteSet(CandidatesFor(i)) /\ Cardinality(CandidatesFor(i)) \in Nat
        /\ connectivity \in Int
    <3>1. CandidatesFor(i) \subseteq Func
      BY DEF CandidatesFor, IInv, TypeOK
    <3> QED
      BY <3>1, FuncAssumption, FS_Subset, FS_CardinalityType DEF IInv, TypeOK
  <2>6. \/ Cardinality(checkeeChecker[f]) = connectivity
        \/ /\ checkeeChecker[f] = CandidatesFor(i)
           /\ connectivity < 0 \/ Cardinality(checkeeChecker[f]) < connectivity
    <3>1. CASE Cardinality(checkeeChecker[f]) = Cardinality(CandidatesFor(i))
      <4>1. checkeeChecker[f] = CandidatesFor(i)
        BY <2>3, <2>5, <3>1, FS_Subset
      <4> QED
        BY <2>4, <2>5, <4>1 DEF Level, CombSize
    <3>2. CASE Cardinality(checkeeChecker[f]) # Cardinality(CandidatesFor(i))
      BY <2>4, <3>2 DEF Level, CombSize
    <3> QED
      BY <3>1, <3>2
  <2> QED
    BY <2>2, <2>3, <2>6 DEF LInv, PushedOnce
<1> QED
  BY <1>1, LevelsInvariance, PTL

-----------------------------------------------------------------------------
(* The network of checkers implements CheckerGraph                         *)

(* The pairs of the abstract graph follow the order as well.               *)
LEMMA EdgesBelow ==
  ASSUME TypeOK, NetInv
  PROVE  \A c, f \in Func : <<c, f>> \in CheckedPairs => Below(c, f)
BY DEF CheckedPairs, NetInv, Selection

(* A relation that follows the order is acyclic.                           *)
LEMMA BelowAcyclic ==
  ASSUME TypeOK, NEW R, \A c, f \in Func : <<c, f>> \in R => Below(c, f)
  PROVE  Graph!Acyclic(R)
BY BelowHasMinimum DEF Graph!Acyclic

(* A turn of the selection loop is a step Protect of CheckerGraph.         *)
LEMMA SelectProtects ==
  ASSUME IInv, SelectCheckers
  PROVE  \E f \in Func, S \in SUBSET Func : Graph!Protect(f, S)
<1> DEFINE s == sensitive[pos]
<1> USE DEF IInv
<1>1. /\ Len(sensitive) \in Nat /\ pos \in 1..Len(sensitive) /\ s \in Func
      /\ phase = "select"
  BY LenProperties, ElementOfSeq DEF SelectCheckers, TypeOK
<1>2. PICK chosen \in SUBSET Func :
        checkeeChecker' = [checkeeChecker EXCEPT ![s] = chosen]
  BY DEF SelectCheckers, Remaining, RandomComb, TypeOK
<1>3. checkeeChecker[s] = {}
  <2> SUFFICES ASSUME NEW c \in checkeeChecker[s] PROVE FALSE
    OBVIOUS
  <2>1. PICK i \in 1..(pos - 1) : sensitive[i] = s
    BY <1>1 DEF NetInv, Selection
  <2>2. i \in 1..Len(sensitive) /\ i # pos
    BY <1>1
  <2> QED
    BY <1>1, <2>1, <2>2 DEF NetInv, Inverted, Distinct
<1>4. /\ checkeeChecker'[s] = chosen
      /\ \A f \in Func : f # s => checkeeChecker'[f] = checkeeChecker[f]
  BY <1>1, <1>2 DEF TypeOK
<1>5. \A e \in Func \X Func :
        e \in CheckedPairs' <=> e \in CheckedPairs \/ e \in chosen \X {s}
  BY <1>1, <1>3, <1>4 DEF CheckedPairs
<1>6. CheckedPairs' = CheckedPairs \cup (chosen \X {s})
  <2>1. /\ CheckedPairs \subseteq Func \X Func /\ CheckedPairs' \subseteq Func \X Func
        /\ chosen \X {s} \subseteq Func \X Func
    BY <1>1 DEF CheckedPairs
  <2> QED
    BY <1>5, <2>1
<1>7. list = <<>> /\ list' = list
  BY <1>1 DEF SelectCheckers, sortVars, NetInv, Unused
<1>8. \A c \in Func : <<c, s>> \notin CheckedPairs
  BY <1>3 DEF CheckedPairs
<1>9. Graph!Acyclic(CheckedPairs')
  <2>1. Selection' /\ sensitive' = sensitive
    BY ConstructSelects DEF SelectCheckers, inputVars
  <2>2. \A c, f \in Func : <<c, f>> \in CheckedPairs' => Below(c, f)
    BY <2>1 DEF CheckedPairs, Selection, Below
  <2> QED
    BY <2>2, BelowAcyclic
<1>10. Graph!Protect(s, chosen)
  BY <1>6, <1>7, <1>8, <1>9 DEF Graph!Protect
<1> QED
  BY <1>1, <1>10

(* Listing a function is a step Schedule of CheckerGraph.                  *)
LEMMA ListSchedules ==
  ASSUME IInv, ListFunction
  PROVE  \E c \in Func : Graph!Schedule(c)
<1> DEFINE t == Top(stack)
<1> USE DEF IInv
<1>1. /\ phase = "sort" /\ stack # <<>> /\ list' = Append(list, t)
      /\ UNCHANGED checkeeChecker
  BY DEF ListFunction, networkVars
<1>2. /\ Len(stack) \in Nat \ {0} /\ t \in Func
      /\ t = stack[Len(stack)] /\ Stacked(t)
  BY <1>1, FrontProperties DEF TypeOK, Top, Stacked, RangeOf
<1>3. \A c, f \in Func : <<c, f>> \in CheckedPairs <=> Checks(c, f)
  BY <1>1 DEF CheckedPairs, NetInv, Inversion, Inverted, TypeOK
<1>4. \A c \in Func : c \in Graph!CheckerSet <=> IsChecker(c)
  <2> SUFFICES ASSUME NEW c \in Func
               PROVE  (\E f \in Func : Checks(c, f)) <=> IsChecker(c)
    BY <1>3 DEF Graph!CheckerSet, Graph!Checkees
  <2>1. ASSUME NEW f \in Func, Checks(c, f)
        PROVE  IsChecker(c)
    BY <2>1, EmptySeq DEF Checks, RangeOf, IsChecker
  <2>2. ASSUME IsChecker(c)
        PROVE  \E f \in Func : Checks(c, f)
    <3>1. checkerCheckee[c] \in Seq(Func) /\ checkerCheckee[c] # <<>>
      BY <2>2 DEF IsChecker, TypeOK
    <3>2. 1 \in 1..Len(checkerCheckee[c])
      BY <3>1, EmptySeq
    <3>3. checkerCheckee[c][1] \in Func
      BY <3>1, <3>2, ElementOfSeq
    <3> QED
      BY <3>2, <3>3 DEF Checks, RangeOf
  <2> QED
    BY <2>1, <2>2
<1>5. Graph!Scheduled = RangeOf(list)
  BY DEF Graph!Scheduled, RangeOf
<1>6. t \in Graph!CheckerSet \ Graph!Scheduled
  BY <1>2, <1>4, <1>5 DEF SortInv, Visits, Listed
<1>7. CheckeesFirst'
  BY ListPreserves DEF SortInv
<1>8. ASSUME NEW f \in Func, Checks(t, f), IsChecker(f)
      PROVE  f \in RangeOf(list)
  <2>1. /\ Len(list) \in Nat
        /\ Len(list') = Len(list) + 1 /\ list'[Len(list) + 1] = t
        /\ \A i \in 1..Len(list) : list'[i] = list[i]
    BY <1>1, <1>2, AppendFacts, LenProperties DEF TypeOK
  <2>2. UNCHANGED checkerCheckee
    BY DEF ListFunction, networkVars
  <2>3. \A i \in 1..Len(list') :
          Checks(list'[i], f) /\ IsChecker(f) => \E j \in 1..(i - 1) : list'[j] = f
    BY <1>7, <2>2 DEF CheckeesFirst, Checks, IsChecker
  <2>4. Len(list) + 1 \in 1..Len(list')
    BY <2>1
  <2>5. PICK j \in 1..(Len(list) + 1 - 1) : list'[j] = f
    BY <1>8, <2>1, <2>3, <2>4
  <2> QED
    BY <2>1, <2>5 DEF RangeOf
<1>9. Graph!Checkees(t) \cap Graph!CheckerSet \subseteq Graph!Scheduled
  BY <1>2, <1>3, <1>4, <1>5, <1>8 DEF Graph!Checkees
<1>10. Graph!Schedule(t)
  BY <1>1, <1>6, <1>9 DEF Graph!Schedule, CheckedPairs
<1> QED
  BY <1>2, <1>10

(* An initial state is one of CheckerGraph.                                *)
LEMMA GraphInit == Init => Graph!Init
<1> SUFFICES ASSUME Init PROVE CheckedPairs = {} /\ list = <<>>
  BY DEF Graph!Init
<1> QED
  BY DEF Init, CheckedPairs

(* Each step is one of CheckerGraph, or changes neither edges nor order.   *)
LEMMA GraphNext == IInv /\ [Next]_vars => [Graph!Next]_<<CheckedPairs, list>>
<1> SUFFICES ASSUME IInv, [Next]_vars
             PROVE  Graph!Next \/ UNCHANGED <<CheckedPairs, list>>
  OBVIOUS
<1>1. CASE UNCHANGED <<checkeeChecker, list>>
  BY <1>1 DEF CheckedPairs
<1>2. CASE SelectCheckers
  BY <1>2, SelectProtects DEF Graph!Next
<1>3. CASE ListFunction
  BY <1>3, ListSchedules DEF Graph!Next
<1>4. CASE GetReverseTopologicalSort
  <2>1. UNCHANGED <<checkeeChecker, list>>
    BY <1>4 DEF GetReverseTopologicalSort, networkVars, IInv, NetInv, Unused
  <2> QED
    BY <1>1, <2>1
<1>5. CASE (Call /\ ~GetReverseTopologicalSort) \/ UNCHANGED vars
  BY <1>1, <1>5 DEF Call, SetLowerConnectivityAcceptance, ConstructProtectionNetwork,
     vars, networkVars, sortVars
<1>6. CASE Construct /\ ~SelectCheckers
  BY <1>1, <1>6 DEF Construct, EndSelection, InvertEntry, RejectLevel, ReturnNetwork,
     networkVars, sortVars
<1>7. CASE Sort /\ ~ListFunction
  BY <1>1, <1>7 DEF Sort, SortFrom, VisitCheckee, ReturnSort, networkVars, sortVars
<1> QED
  BY <1>2, <1>3, <1>4, <1>5, <1>6, <1>7 DEF Next

(* The class keeps the promise of CheckerGraph: each function is given its *)
(* checkers without closing a cycle, and each checker is scheduled once,   *)
(* after the checkers it checks.                                           *)
THEOREM Refinement == Spec => ImplementsGraph
<1>1. Spec => Graph!Init /\ [][Graph!Next]_<<CheckedPairs, list>>
  BY GraphInit, GraphNext, Invariance, PTL DEF Spec
<1> QED
  BY <1>1 DEF ImplementsGraph, Graph!Spec, Graph!gvars


-----------------------------------------------------------------------------
(* A call gets on                                                          *)

(* Ahead gets less where it first changes.                                 *)
LEMMA NearerAt ==
  ASSUME NEW i \in 1..4, Ahead'[i] \in 0..(Ahead[i] - 1),
         \A k \in 1..(i - 1) : Ahead'[k] = Ahead[k]
  PROVE  Nearer(Ahead', Ahead)
<1>1. Len(Ahead) = 4
  BY DEF Ahead
<1> QED
  BY <1>1 DEF Nearer

(* A step into the next loop, or out of the call.                          *)
LEMMA NextLoop ==
  ASSUME LoopsAhead' \in 0..(LoopsAhead - 1) PROVE Nearer(Ahead', Ahead)
<1>1. Ahead'[1] \in 0..(Ahead[1] - 1)
  BY DEF Ahead
<1> QED
  BY <1>1, NearerAt

(* A turn of the loop that is running.                                     *)
LEMMA NextTurn ==
  ASSUME UNCHANGED phase, TurnsAhead' \in 0..(TurnsAhead - 1)
  PROVE  Nearer(Ahead', Ahead)
<1>1. Ahead'[2] \in 0..(Ahead[2] - 1) /\ Ahead'[1] = Ahead[1]
  BY DEF Ahead, LoopsAhead
<1> QED
  BY <1>1, NearerAt

(* A set that has lost a member is smaller.                                *)
LEMMA FewerLeft ==
  ASSUME NEW S, NEW T \in SUBSET S, NEW f \in S, f \notin T, IsFiniteSet(S)
  PROVE  Cardinality(T) \in 0..(Cardinality(S) - 1)
<1>1. T # S
  OBVIOUS
<1>2. Cardinality(T) \in Nat /\ Cardinality(S) \in Nat /\ Cardinality(T) < Cardinality(S)
  BY <1>1, FS_Subset, FS_CardinalityType
<1> QED
  BY <1>2

(* A function entered for the first time is one less to visit.             *)
LEMMA EnterShortens ==
  ASSUME TypeOK, phase = "sort", UNCHANGED phase, NEW f \in Func \ visited, Enter(f)
  PROVE  Nearer(Ahead', Ahead)
<1>1. TurnsAhead = Cardinality(Func \ visited) /\ TurnsAhead' = Cardinality(Func \ visited')
  BY DEF TurnsAhead
<1>2. Func \ visited' \subseteq Func \ visited /\ f \notin Func \ visited'
  BY DEF Enter
<1>3. IsFiniteSet(Func \ visited)
  BY FuncAssumption, FS_Subset
<1>4. TurnsAhead' \in 0..(TurnsAhead - 1)
  BY <1>1, <1>2, <1>3, FewerLeft
<1> QED
  BY <1>4, NextTurn

(* The loops of constructProtectionNetwork.                                *)
LEMMA ConstructShortens == TypeOK /\ Construct => Nearer(Ahead', Ahead)
<1> SUFFICES ASSUME TypeOK, Construct PROVE Nearer(Ahead', Ahead)
  OBVIOUS
<1>1. CASE SelectCheckers
  <2>1. /\ phase = "select" /\ phase' = "select" /\ pos' = pos + 1
        /\ sensitive' = sensitive /\ pos <= Len(sensitive)
    BY <1>1 DEF SelectCheckers, inputVars
  <2>2. pos \in Nat \ {0} /\ Len(sensitive) \in Nat
    BY LenProperties DEF TypeOK
  <2>3. /\ TurnsAhead = Len(sensitive) + 1 - pos
        /\ TurnsAhead' = Len(sensitive) + 1 - (pos + 1)
    BY <2>1 DEF TurnsAhead
  <2>4. TurnsAhead' \in 0..(TurnsAhead - 1)
    BY <2>1, <2>2, <2>3
  <2> QED
    BY <2>1, <2>4, NextTurn
<1>2. CASE EndSelection
  <2>1. LoopsAhead = 4 /\ LoopsAhead' = 3
    BY <1>2 DEF EndSelection, LoopsAhead
  <2> QED
    BY <2>1, NextLoop
<1>3. ASSUME NEW f \in Func, InvertEntry(f)
      PROVE  Nearer(Ahead', Ahead)
  <2>1. /\ phase = "invert" /\ phase' = "invert"
        /\ f \in pending /\ pending' = pending \ {f}
    BY <1>3 DEF InvertEntry
  <2>2. IsFiniteSet(pending)
    BY FuncAssumption, FS_Subset DEF TypeOK
  <2>3. TurnsAhead = Cardinality(pending) /\ TurnsAhead' = Cardinality(pending \ {f})
    BY <2>1 DEF TurnsAhead
  <2>4. TurnsAhead' \in 0..(TurnsAhead - 1)
    BY <2>1, <2>2, <2>3, FewerLeft
  <2> QED
    BY <2>1, <2>4, NextTurn
<1>4. ASSUME NEW f \in Func, RejectLevel(f)
      PROVE  Nearer(Ahead', Ahead)
  <2>1. LoopsAhead = 3 /\ LoopsAhead' = 0
    BY <1>4 DEF RejectLevel, LoopsAhead
  <2> QED
    BY <2>1, NextLoop
<1>5. CASE ReturnNetwork
  <2>1. LoopsAhead = 3 /\ LoopsAhead' = 2
    BY <1>5 DEF ReturnNetwork, LoopsAhead
  <2> QED
    BY <2>1, NextLoop
<1> QED
  BY <1>1, <1>2, <1>3, <1>4, <1>5 DEF Construct

(* The call of getReverseTopologicalSort: its loop is the next one.        *)
LEMMA SortBegins == GetReverseTopologicalSort => Nearer(Ahead', Ahead)
<1> SUFFICES ASSUME GetReverseTopologicalSort PROVE Nearer(Ahead', Ahead)
  OBVIOUS
<1>1. LoopsAhead = 2 /\ LoopsAhead' = 1
  BY DEF GetReverseTopologicalSort, LoopsAhead
<1> QED
  BY <1>1, NextLoop

(* A checkee that is entered is one less to visit; one that is passed over *)
(* is one less for the innermost call.                                     *)
LEMMA VisitShortens == TypeOK /\ VisitCheckee => Nearer(Ahead', Ahead)
<1> SUFFICES ASSUME TypeOK, VisitCheckee PROVE Nearer(Ahead', Ahead)
  OBVIOUS
<1> DEFINE t == Top(stack)
           n == cursor[t] + 1
           g == checkerCheckee[t][n]
<1>1. /\ phase = "sort" /\ phase' = "sort" /\ stack # <<>>
      /\ n <= Len(checkerCheckee[t]) /\ cursor' = [cursor EXCEPT ![t] = n]
      /\ checkerCheckee' = checkerCheckee
      /\ IF g \in visited THEN UNCHANGED <<visited, stack>> ELSE Enter(g)
  BY DEF VisitCheckee, networkVars
<1>2. t \in Func /\ Len(stack) \in Nat
  BY <1>1, EmptySeq, LenProperties DEF TypeOK, Top
<1>3. cursor[t] \in Nat /\ cursor'[t] = n /\ Len(checkerCheckee[t]) \in Nat /\ g \in Func
  BY <1>1, <1>2, LenProperties, ElementOfSeq DEF TypeOK
<1>4. CASE g \notin visited
  BY <1>1, <1>3, <1>4, EnterShortens
<1>5. CASE g \in visited
  <2>1. UNCHANGED <<phase, visited, stack>>
    BY <1>1, <1>5
  <2>2. Ahead'[1] = Ahead[1] /\ Ahead'[2] = Ahead[2] /\ Ahead'[3] = Ahead[3]
    BY <1>1, <2>1 DEF Ahead, LoopsAhead, TurnsAhead
  <2>3. /\ Ahead[4] = Len(checkerCheckee[t]) - cursor[t]
        /\ Ahead'[4] = Len(checkerCheckee[t]) - n
    BY <1>1, <1>3, <2>1 DEF Ahead, CheckeesAhead
  <2>4. Ahead'[4] \in 0..(Ahead[4] - 1)
    BY <1>1, <1>3, <2>3
  <2> QED
    BY <2>2, <2>4, NearerAt
<1> QED
  BY <1>4, <1>5

(* The search of getReverseTopologicalSort: it enters no function twice.   *)
LEMMA SortShortens == TypeOK /\ Sort => Nearer(Ahead', Ahead)
<1> SUFFICES ASSUME TypeOK, Sort PROVE Nearer(Ahead', Ahead)
  OBVIOUS
<1>1. ASSUME NEW f \in Func, SortFrom(f)
      PROVE  Nearer(Ahead', Ahead)
  BY <1>1, EnterShortens DEF SortFrom
<1>2. CASE VisitCheckee
  BY <1>2, VisitShortens
<1>3. CASE ListFunction
  <2>1. /\ phase' = phase /\ visited' = visited /\ stack # <<>>
        /\ stack' = SubSeq(stack, 1, Len(stack) - 1)
    BY <1>3 DEF ListFunction
  <2>2. Len(stack) \in Nat \ {0} /\ Len(stack') = Len(stack) - 1
    BY <2>1, FrontProperties, EmptySeq, LenProperties DEF TypeOK
  <2>3. Ahead'[1] = Ahead[1] /\ Ahead'[2] = Ahead[2]
    BY <1>3, <2>1 DEF Ahead, LoopsAhead, TurnsAhead, ListFunction
  <2>4. Ahead'[3] \in 0..(Ahead[3] - 1)
    BY <2>2 DEF Ahead
  <2> QED
    BY <2>3, <2>4, NearerAt
<1>4. CASE ReturnSort
  <2>1. LoopsAhead = 1 /\ LoopsAhead' = 0
    BY <1>4 DEF ReturnSort, LoopsAhead
  <2> QED
    BY <2>1, NextLoop
<1> QED
  BY <1>1, <1>2, <1>3, <1>4 DEF Sort

(* Each step of the construction and of the sort brings the call nearer to *)
(* its end.                                                                *)
THEOREM Shortening == Spec => CallsShorten
<1>1. TypeOK /\ [Next]_vars => [Construct \/ Sort => Nearer(Ahead', Ahead)]_vars
  BY ConstructShortens, SortShortens
<1> QED
  BY <1>1, TypeCorrect, PTL DEF Spec, CallsShorten


(* Nearer cannot go on for ever: no sequence of tuples of integers gets    *)
(* nearer at each of its steps.                                            *)
LEMMA NearerWellFounded ==
  ASSUME NEW n \in Nat
  PROVE  IsWellFoundedOn({p \in [1..n -> Int] \X [1..n -> Int] : Nearer(p[1], p[2])},
                         [1..n -> Int])
<1> DEFINE Down == {p \in Int \X Int : p[1] \in 0..(p[2] - 1)}
           Tuples == [1..n -> Int]
<1>1. IsWellFoundedOn(Down, Int)
  <2> SUFFICES ASSUME NEW f \in [Nat -> Int], \A i \in Nat : <<f[i + 1], f[i]>> \in Down
               PROVE  FALSE
    BY DEF IsWellFoundedOn
  <2> DEFINE g == [i \in Nat |-> f[i + 1]]
  <2>1. \A i \in Nat : f[i + 1] \in 0..(f[i] - 1)
    OBVIOUS
  <2>2. g \in [Nat -> Nat]
    BY <2>1
  <2>3. \A i \in Nat : g[i + 1] < g[i]
    <3> SUFFICES ASSUME NEW i \in Nat PROVE g[i + 1] < g[i]
      OBVIOUS
    <3>1. i + 1 \in Nat /\ g[i + 1] = f[i + 1 + 1] /\ g[i] = f[i + 1]
      OBVIOUS
    <3> QED
      BY <2>1, <3>1
  <2> HIDE DEF g
  <2>4. \A i \in Nat : <<g[i + 1], g[i]>> \in OpToRel(<, Nat)
    BY <2>2, <2>3 DEF OpToRel
  <2> QED
    BY <2>2, <2>4, NatLessThanWellFounded, Zenon DEF IsWellFoundedOn
<1>2. IsWellFoundedOn(LexProductOrdering(Down, Int, n), Tuples)
  BY <1>1, WFLexProductOrdering
<1>3. {p \in Tuples \X Tuples : Nearer(p[1], p[2])} \cap (Tuples \X Tuples)
        \subseteq LexProductOrdering(Down, Int, n)
  <2> SUFFICES ASSUME NEW p \in Tuples \X Tuples, Nearer(p[1], p[2])
               PROVE  p \in LexProductOrdering(Down, Int, n)
    OBVIOUS
  <2>1. p[1] \in Tuples /\ p[2] \in Tuples
    OBVIOUS
  <2>2. Len(p[2]) = n
    BY <2>1, LenProperties
  <2>3. PICK i \in 1..n : /\ p[1][i] \in 0..(p[2][i] - 1)
                          /\ \A k \in 1..(i - 1) : p[1][k] = p[2][k]
    BY <2>2 DEF Nearer
  <2>4. <<p[1][i], p[2][i]>> \in Down
    BY <2>1, <2>3
  <2> QED
    BY <2>3, <2>4 DEF LexProductOrdering
<1> QED
  BY <1>2, <1>3, IsWellFoundedOnSubrelation

(* What a call has ahead is counted in whole numbers.                      *)
LEMMA CountsAhead == TypeOK => Ahead \in [1..4 -> Int]
<1> SUFFICES ASSUME TypeOK PROVE Ahead \in [1..4 -> Int]
  OBVIOUS
<1>1. LoopsAhead \in Int
  BY DEF LoopsAhead
<1>2. TurnsAhead \in Int
  <2>1. Len(sensitive) + 1 - pos \in Int
    BY LenProperties DEF TypeOK
  <2>2. IsFiniteSet(pending) /\ IsFiniteSet(Func \ visited)
    BY FuncAssumption, FS_Subset DEF TypeOK
  <2>3. Cardinality(pending) \in Nat /\ Cardinality(Func \ visited) \in Nat
    BY <2>2, FS_CardinalityType
  <2> QED
    BY <2>1, <2>3 DEF TurnsAhead
<1>3. Len(stack) \in Int
  BY LenProperties DEF TypeOK
<1>4. CheckeesAhead \in Int
  <2>1. CASE stack = <<>>
    BY <2>1 DEF CheckeesAhead
  <2>2. CASE stack # <<>>
    <3>1. Top(stack) \in Func
      BY <2>2, FrontProperties DEF TypeOK
    <3>2. cursor[Top(stack)] \in Nat /\ checkerCheckee[Top(stack)] \in Seq(Func)
      BY <3>1 DEF TypeOK
    <3>3. Len(checkerCheckee[Top(stack)]) \in Nat
      BY <3>2, LenProperties
    <3> QED
      BY <2>2, <3>2, <3>3 DEF CheckeesAhead
  <2> QED
    BY <2>1, <2>2
<1> QED
  BY <1>1, <1>2, <1>3, <1>4 DEF Ahead

(* With Shortening and NearerWellFounded: no call takes steps for ever.    *)
THEOREM AheadCounted == Spec => [](Ahead \in [1..4 -> Int])
BY CountsAhead, TypeCorrect, PTL

=============================================================================
