------------------------ MODULE LegacyNetworkProofs -------------------------
(***************************************************************************)
(* Proofs about LegacyNetwork, for every number of nodes, every level and  *)
(* any number of calls.                                                    *)
(*                                                                         *)
(* A node is connected to nodes of the rank being added, which have higher *)
(* numbers: every edge goes up.  That rules out cycles, and makes the      *)
(* calls in progress of the depth-first search an ascending chain.         *)
(***************************************************************************)
EXTENDS LegacyNetwork, SequenceTheorems, FiniteSetTheorems,
        WellFoundedInduction, TLAPS

-----------------------------------------------------------------------------
(* The inductive invariant of the construction                             *)

(* A rank is drawn for what remains of the total of this call, and has a   *)
(* node.                                                                   *)
Ranks ==
  /\ calls = <<>> => phase = "idle" /\ \A v \in Node : checkerCheckeeMap[v] = <<>>
  /\ phase = "rank" => nodes <= total
  /\ phase = "connect" => newNodes >= 1 /\ nodes + newNodes <= total
  /\ phase = "idle" /\ calls # <<>> => nodes = total

(* Every edge goes up, to a node of one of the calls.                      *)
Upward ==
  \A v \in Node : \A i \in 1..Len(checkerCheckeeMap[v]) :
    /\ v < checkerCheckeeMap[v][i]
    /\ \E k \in 1..Len(calls) : checkerCheckeeMap[v][i] < calls[k]

(* The nodes a node has been connected to, or could have been.             *)
Reach(v) == IF phase = "connect" /\ v < j THEN nodes + newNodes ELSE nodes

(* The nodes have the level their turns allowed.  In the first call they   *)
(* have it with different checkees.                                        *)
Reached ==
  /\ rankEnds \subseteq 1..nodes
  /\ nodes > 0 => nodes \in rankEnds
  /\ \A v \in 0..(nodes - 1) : \A e \in rankEnds :
       v < e => Len(checkerCheckeeMap[v]) >= Least(desired, Reach(v) - e)

PushedOnce ==
  Len(calls) = 1 => \A v \in Node :
    /\ \A i, k \in 1..Len(checkerCheckeeMap[v]) :
         checkerCheckeeMap[v][i] = checkerCheckeeMap[v][k] => i = k
    /\ \A i \in 1..Len(checkerCheckeeMap[v]) : checkerCheckeeMap[v][i] < Reach(v)

BuildInv == Ranks /\ Upward /\ Reached /\ PushedOnce

-----------------------------------------------------------------------------
(* The inductive invariant of the sort                                     *)

Listed(v)  == v \in ToSet(list)
Stacked(v) == v \in ToSet(stack)

(* Nothing is sorted before the call of mapCheckersOnFunctions; the sort   *)
(* leaves the map alone, and stops early only at a checkee of a call that  *)
(* asked for more nodes than there are functions.                          *)
Stages ==
  /\ phase \in {"idle", "rank", "connect"} =>
       /\ visited = {} /\ stack = <<>> /\ list = <<>>
       /\ \A v \in Node : cursor[v] = 0
  /\ phase \in {"sort", "done", "undefined"} => dumpMap = DumpMap(allFunctions)
  /\ phase = "done" => stack = <<>> /\ 0..(allFunctions - 1) \subseteq visited
  /\ phase = "undefined" => \E k \in 1..Len(calls) : calls[k] > allFunctions

(* The calls in progress ascend.                                           *)
Chain == \A p, q \in 1..Len(stack) : p < q => stack[p] < stack[q]

(* A visited checker is listed or its call is in progress, never both.     *)
Visits ==
  /\ \A v \in Node : Listed(v) \/ Stacked(v) => v \in visited /\ IsChecker(v)
  /\ \A v \in visited : IsChecker(v) => Listed(v) \/ Stacked(v)
  /\ \A v \in Node : ~(Listed(v) /\ Stacked(v))
  /\ \A v \in Node \ visited : cursor[v] = 0

(* The checkees a call has looked at are listed, but the one it waits for. *)
Looked ==
  phase # "undefined" => \A p \in 1..Len(stack) :
    /\ cursor[stack[p]] <= Len(checkerCheckeeMap[stack[p]])
    /\ \A m \in 1..cursor[stack[p]] :
         LET g == checkerCheckeeMap[stack[p]][m]
         IN  IsChecker(g) => \/ Listed(g)
                             \/ p < Len(stack) /\ stack[p + 1] = g

ListedOnce == \A i, k \in 1..Len(list) : list[i] = list[k] => i = k

SearchInv == Chain /\ Visits /\ Looked /\ ListedOnce

IInv == TypeOK /\ BuildInv /\ Stages /\ SearchInv

-----------------------------------------------------------------------------
(* Lemmas on sequences and on sets of nodes                                *)

(* Nodes are the naturals below MaxNodes.                                  *)
LEMMA NodeFacts ==
  /\ MaxNodes \in Nat
  /\ Node \subseteq Nat
  /\ \A v : v \in Node <=> v \in Nat /\ v < MaxNodes
BY BoundAssumption DEF Node

(* Facts on the last element of a sequence and on what is before it.       *)
LEMMA LastAndFront ==
  ASSUME NEW S, NEW s \in Seq(S), s # <<>>
  PROVE  /\ Len(s) \in Nat \ {0}
         /\ Last(s) = s[Len(s)] /\ Last(s) \in S
         /\ Front(s) \in Seq(S)
         /\ Len(Front(s)) = Len(s) - 1
         /\ \A i \in 1..(Len(s) - 1) : Front(s)[i] = s[i]
<1>1. Len(s) \in Nat \ {0}
  BY EmptySeq
<1>2. \A i \in 1..Len(s) : s[i] \in S
  BY ElementOfSeq
<1>3. /\ Front(s) \in Seq(S)
      /\ Len(Front(s)) = IF 1 <= Len(s) - 1 THEN Len(s) - 1 - 1 + 1 ELSE 0
      /\ \A i \in 1..(Len(s) - 1 - 1 + 1) : Front(s)[i] = s[1 + i - 1]
  BY <1>1, <1>2, SubSeqProperties DEF Front
<1>4. Len(Front(s)) = Len(s) - 1
  <2> DEFINE n == Len(s)
             f == Len(Front(s))
  <2>1. n \in Nat \ {0} /\ f = IF 1 <= n - 1 THEN n - 1 - 1 + 1 ELSE 0
    BY <1>1, <1>3
  <2> HIDE DEF n, f
  <2>2. f = n - 1
    BY <2>1
  <2> QED
    BY <2>2 DEF n, f
<1>5. \A i \in 1..(Len(s) - 1) : Front(s)[i] = s[i]
  <2> SUFFICES ASSUME NEW i \in 1..(Len(s) - 1) PROVE Front(s)[i] = s[i]
    OBVIOUS
  <2>1. Len(s) - 1 - 1 + 1 = Len(s) - 1 /\ 1 + i - 1 = i
    BY <1>1
  <2> QED
    BY <1>3, <2>1
<1> QED
  BY <1>1, <1>2, <1>3, <1>4, <1>5 DEF Last

(* The members of a sequence by their places.                              *)
LEMMA MembersByPlace ==
  ASSUME NEW S, NEW s \in Seq(S)
  PROVE  ToSet(s) = {s[i] : i \in 1..Len(s)}
BY LenProperties DEF ToSet

(* Type, length and members of a sequence with one more element.           *)
LEMMA AppendFacts ==
  ASSUME NEW S, NEW s \in Seq(S), NEW e \in S
  PROVE  /\ Append(s, e) \in Seq(S)
         /\ Len(s) \in Nat /\ Len(Append(s, e)) = Len(s) + 1
         /\ Append(s, e) # <<>>
         /\ \A i \in 1..Len(s) : Append(s, e)[i] = s[i]
         /\ Append(s, e)[Len(s) + 1] = e
         /\ ToSet(Append(s, e)) = ToSet(s) \cup {e}
<1>1. /\ Append(s, e) \in Seq(S)
      /\ Len(s) \in Nat /\ Len(Append(s, e)) = Len(s) + 1
      /\ Append(s, e) # <<>>
      /\ \A i \in 1..Len(s) : Append(s, e)[i] = s[i]
      /\ Append(s, e)[Len(s) + 1] = e
  BY AppendProperties, LenProperties
<1>2. 1..(Len(s) + 1) = 1..Len(s) \cup {Len(s) + 1}
  BY <1>1
<1>3. ToSet(Append(s, e)) = {Append(s, e)[i] : i \in 1..(Len(s) + 1)}
  BY <1>1, MembersByPlace
<1>4. ToSet(s) = {s[i] : i \in 1..Len(s)}
  BY MembersByPlace
<1> QED
  BY <1>1, <1>2, <1>3, <1>4

(* The empty sequence has no members, and any other has one.               *)
LEMMA EmptyMembers ==
  /\ ToSet(<<>>) = {} /\ Len(<<>>) = 0
  /\ \A S : \A s \in Seq(S) : s # <<>> => 1 \in 1..Len(s) /\ s[1] \in S
<1>1. Len(<<>>) = 0 /\ <<>> \in Seq({})
  BY EmptySeq
<1>2. ToSet(<<>>) = {}
  <2>1. ToSet(<<>>) = {<<>>[i] : i \in 1..0}
    BY <1>1, MembersByPlace
  <2>2. 1..0 = {}
    OBVIOUS
  <2> QED
    BY <2>1, <2>2
<1>3. ASSUME NEW S, NEW s \in Seq(S), s # <<>>
      PROVE  1 \in 1..Len(s) /\ s[1] \in S
  BY <1>3, EmptySeq, ElementOfSeq
<1> QED
  BY <1>1, <1>2, <1>3

(* A set of naturals has a least member.                                   *)
LEMMA LeastMember ==
  ASSUME NEW S \in SUBSET Nat, S # {}
  PROVE  Min(S) \in S /\ \A x \in S : Min(S) <= x
<1>1. PICK m \in S : \A x \in S : ~(<<x, m>> \in OpToRel(<, Nat))
  BY NatLessThanWellFounded, WFMin
<1>2. ASSUME NEW x \in S
      PROVE  m <= x
  <2>1. ~(x < m) /\ x \in Nat /\ m \in Nat
    BY <1>1 DEF OpToRel
  <2> QED
    BY <2>1
<1> QED
  BY <1>2 DEF Min

(* A set of nodes has a greatest member.                                   *)
LEMMA GreatestMember ==
  ASSUME NEW S \in SUBSET Node, S # {}
  PROVE  Max(S) \in S /\ \A v \in S : Max(S) >= v
<1> DEFINE D == {MaxNodes - v : v \in S}
<1>1. /\ \A v \in S : v \in Nat /\ MaxNodes - v \in Nat
      /\ D \in SUBSET Nat /\ D # {}
  <2>1. \A v \in S : v \in Nat /\ v < MaxNodes
    BY NodeFacts
  <2>2. \A v \in S : MaxNodes - v \in Nat
    BY <2>1, NodeFacts
  <2> QED
    BY <2>1, <2>2
<1>2. Min(D) \in D /\ \A x \in D : Min(D) <= x
  BY <1>1, LeastMember
<1>3. PICK m \in S : Min(D) = MaxNodes - m
  BY <1>2
<1>4. ASSUME NEW v \in S
      PROVE  m >= v
  <2>1. MaxNodes - m <= MaxNodes - v
    BY <1>2, <1>3
  <2> QED
    BY <1>1, <2>1, NodeFacts
<1> QED
  BY <1>4 DEF Max

-----------------------------------------------------------------------------
(* What a turn of the inner loop pushes                                    *)

(* A set of nodes and its members in ascending order.                      *)
LEMMA AscendingFacts ==
  ASSUME NEW S \in SUBSET Node, NEW s \in Ascending(S)
  PROVE  /\ s \in Seq(Node) /\ Len(s) = Cardinality(S) /\ Len(s) \in Nat
         /\ \A i \in 1..Len(s) : s[i] \in S
         /\ \A i, k \in 1..Len(s) : s[i] = s[k] => i = k
<1>1. IsFiniteSet(S)
  <2>1. IsFiniteSet(0..(MaxNodes - 1))
    BY NodeFacts, FS_Interval
  <2> QED
    BY <2>1, FS_Subset DEF Node
<1>2. Cardinality(S) \in Nat
  BY <1>1, FS_CardinalityType
<1>3. s \in [1..Cardinality(S) -> S] /\ DOMAIN s = 1..Cardinality(S)
  BY DEF Ascending
<1>4. s \in Seq(S) /\ s \in Seq(Node)
  BY <1>2, <1>3
<1>5. Len(s) = Cardinality(S)
  BY <1>2, <1>3, <1>4, LenProperties
<1>6. \A i, k \in 1..Len(s) : i < k => s[i] < s[k]
  BY <1>3, <1>5 DEF Ascending
<1>7. \A i \in 1..Len(s) : s[i] \in S /\ s[i] \in Nat
  BY <1>3, <1>5, NodeFacts
<1>8. \A i, k \in 1..Len(s) : s[i] = s[k] => i = k
  <2> SUFFICES ASSUME NEW i \in 1..Len(s), NEW k \in 1..Len(s), s[i] = s[k], i # k
               PROVE  FALSE
    OBVIOUS
  <2>1. i < k \/ k < i
    BY <1>2, <1>5
  <2> QED
    BY <1>6, <1>7, <2>1
<1> QED
  BY <1>2, <1>4, <1>5, <1>7, <1>8

(* The beginning of a sequence.                                            *)
LEMMA Beginning ==
  ASSUME NEW S, NEW s \in Seq(S), NEW n \in Int
  PROVE  LET b == SubSeq(s, 1, Least(Len(s), n))
         IN  /\ b \in Seq(S) /\ Len(b) \in Nat
             /\ Len(b) >= Least(Len(s), n) /\ Len(b) <= Len(s)
             /\ \A i \in 1..Len(b) : b[i] = s[i]
<1> DEFINE l == Least(Len(s), n)
           b == SubSeq(s, 1, l)
<1>1. Len(s) \in Nat /\ l \in Int /\ l <= Len(s)
  BY LenProperties DEF Least
<1>2. \A i \in 1..l : s[i] \in S
  BY <1>1, ElementOfSeq
<1> HIDE DEF l
<1>3. /\ b \in Seq(S)
      /\ Len(b) = IF 1 <= l THEN l - 1 + 1 ELSE 0
      /\ \A i \in 1..(l - 1 + 1) : b[i] = s[1 + i - 1]
  BY <1>1, <1>2, SubSeqProperties
<1> DEFINE m == Len(b)
<1>4. m = IF 1 <= l THEN l - 1 + 1 ELSE 0
  BY <1>3
<1> HIDE DEF m
<1>5. m \in Nat /\ m >= l /\ m <= Len(s)
  BY <1>1, <1>4
<1>6. \A i \in 1..m : b[i] = s[i]
  <2> SUFFICES ASSUME NEW i \in 1..m PROVE b[i] = s[i]
    OBVIOUS
  <2>1. i \in 1..(l - 1 + 1) /\ 1 + i - 1 = i
    BY <1>1, <1>4
  <2> QED
    BY <1>3, <2>1
<1> QED
  BY <1>3, <1>5, <1>6 DEF l, m

(* The total of the current call is a number of nodes.                     *)
LEMMA TotalType == TypeOK /\ calls # <<>> => total \in 0..MaxNodes
BY LastAndFront DEF TypeOK, total

(* The entry new extends the entry old with different newcomers, up to the *)
(* level asked for while there are any.                                    *)
Extends(old, new) ==
  /\ new \in Seq(Node) /\ Len(old) <= Len(new)
  /\ \A i \in 1..Len(old) : new[i] = old[i]
  /\ \A i \in 1..Len(new) : Len(old) < i => new[i] \in Newcomers
  /\ \A i, k \in 1..Len(new) :
       Len(old) < i /\ Len(old) < k /\ new[i] = new[k] => i = k
  /\ Len(new) >= Least(desired, Len(old) + newNodes)

(* A turn of the loop gives node j such an entry and touches no other.     *)
LEMMA EntryExtended ==
  ASSUME TypeOK, Ranks, ConnectNode
  PROVE  /\ j \in 0..(nodes - 1) /\ j \in Node
         /\ Newcomers \subseteq Node /\ nodes + newNodes <= total
         /\ calls # <<>> /\ total \in 0..MaxNodes
         /\ Extends(checkerCheckeeMap[j], checkerCheckeeMap'[j])
         /\ checkerCheckeeMap' \in [Node -> Seq(Node)]
         /\ \A v \in Node : v # j => checkerCheckeeMap'[v] = checkerCheckeeMap[v]
<1>1. /\ phase = "connect" /\ j < nodes
      /\ calls # <<>> /\ nodes + newNodes <= total
      /\ nodes \in Nat /\ newNodes \in Nat /\ nodes <= MaxNodes /\ j \in Nat
      /\ desired \in Int
  BY DEF ConnectNode, Ranks, TypeOK
<1>2. total \in 0..MaxNodes
  BY <1>1, TotalType
<1>3. j \in 0..(nodes - 1) /\ j \in Node
  BY <1>1, <1>2, NodeFacts
<1>4. Newcomers \subseteq Node
  <2> SUFFICES ASSUME NEW v \in nodes..(nodes + newNodes - 1) PROVE v \in Node
    BY DEF Newcomers
  <2>1. v \in Nat /\ v < nodes + newNodes
    BY <1>1
  <2> QED
    BY <1>1, <1>2, <2>1, NodeFacts
<1>5. PICK S \in SUBSET Newcomers :
        \E drawn \in Ascending(S), left \in Ascending(Newcomers \ S) :
          checkerCheckeeMap' = [checkerCheckeeMap EXCEPT ![j] = CheckeesOf(j, drawn, left)]
  BY DEF ConnectNode
<1>6. PICK drawn \in Ascending(S), left \in Ascending(Newcomers \ S) :
        checkerCheckeeMap' = [checkerCheckeeMap EXCEPT ![j] = CheckeesOf(j, drawn, left)]
  BY <1>5
<1> DEFINE old   == checkerCheckeeMap[j]
           short == desired - Len(old) - Len(drawn)
           rest  == SubSeq(left, 1, Least(Len(left), short))
           new   == old \o drawn \o rest
<1>7. old \in Seq(Node) /\ Len(old) \in Nat
  BY <1>3, LenProperties DEF TypeOK
<1>8. /\ drawn \in Seq(Node) /\ Len(drawn) = Cardinality(S) /\ Len(drawn) \in Nat
      /\ \A i \in 1..Len(drawn) : drawn[i] \in S
      /\ \A i, k \in 1..Len(drawn) : drawn[i] = drawn[k] => i = k
  BY <1>4, AscendingFacts
<1>9. /\ left \in Seq(Node) /\ Len(left) = Cardinality(Newcomers \ S) /\ Len(left) \in Nat
      /\ \A i \in 1..Len(left) : left[i] \in Newcomers \ S
      /\ \A i, k \in 1..Len(left) : left[i] = left[k] => i = k
  BY <1>4, AscendingFacts
<1>10. Len(drawn) + Len(left) = newNodes
  <2>1. IsFiniteSet(Newcomers) /\ Cardinality(Newcomers) = newNodes
    <3>1. /\ IsFiniteSet(nodes..(nodes + newNodes - 1))
          /\ Cardinality(nodes..(nodes + newNodes - 1))
             = IF nodes > nodes + newNodes - 1 THEN 0 ELSE nodes + newNodes - 1 - nodes + 1
      BY <1>1, FS_Interval
    <3> DEFINE n == Cardinality(nodes..(nodes + newNodes - 1))
    <3>2. n = IF nodes > nodes + newNodes - 1 THEN 0 ELSE nodes + newNodes - 1 - nodes + 1
      BY <3>1
    <3> HIDE DEF n
    <3>3. n = newNodes
      BY <1>1, <3>2
    <3> QED
      BY <3>1, <3>3 DEF n, Newcomers
  <2>2. Newcomers \cap S = S
    OBVIOUS
  <2>3. Cardinality(Newcomers \ S) = newNodes - Cardinality(S)
    BY <2>1, <2>2, FS_Difference
  <2> QED
    BY <1>1, <1>8, <1>9, <2>3
<1>11. short \in Int
  BY <1>1, <1>7, <1>8
<1>12. /\ rest \in Seq(Node) /\ Len(rest) \in Nat
       /\ Len(rest) >= Least(Len(left), short) /\ Len(rest) <= Len(left)
       /\ \A i \in 1..Len(rest) : rest[i] = left[i]
  BY <1>9, <1>11, Beginning
<1> HIDE DEF old, short, rest
<1>13. /\ old \o drawn \in Seq(Node) /\ Len(old \o drawn) = Len(old) + Len(drawn)
       /\ \A i \in 1..(Len(old) + Len(drawn)) :
            (old \o drawn)[i] = IF i <= Len(old) THEN old[i] ELSE drawn[i - Len(old)]
  BY <1>7, <1>8, ConcatProperties
<1>14. /\ new \in Seq(Node) /\ Len(new) = Len(old \o drawn) + Len(rest)
       /\ \A i \in 1..(Len(old \o drawn) + Len(rest)) :
            new[i] = IF i <= Len(old \o drawn) THEN (old \o drawn)[i]
                     ELSE rest[i - Len(old \o drawn)]
  BY <1>12, <1>13, ConcatProperties
<1> HIDE DEF new
<1>15. /\ Len(new) = Len(old) + Len(drawn) + Len(rest) /\ Len(new) \in Nat
       /\ \A i \in 1..Len(old) : new[i] = old[i]
       /\ \A i \in 1..Len(drawn) : new[Len(old) + i] = drawn[i]
       /\ \A i \in 1..Len(rest) : new[Len(old) + Len(drawn) + i] = left[i]
  <2>1. Len(new) = Len(old) + Len(drawn) + Len(rest) /\ Len(new) \in Nat
    BY <1>7, <1>8, <1>12, <1>13, <1>14
  <2>2. ASSUME NEW i \in 1..Len(old)
        PROVE  new[i] = old[i]
    <3>1. i \in 1..(Len(old) + Len(drawn)) /\ i <= Len(old)
      BY <1>7, <1>8
    <3>2. i \in 1..(Len(old \o drawn) + Len(rest)) /\ i <= Len(old \o drawn)
      BY <1>7, <1>8, <1>12, <1>13, <3>1
    <3> QED
      BY <1>13, <1>14, <3>1, <3>2
  <2>3. ASSUME NEW i \in 1..Len(drawn)
        PROVE  new[Len(old) + i] = drawn[i]
    <3>1. /\ Len(old) + i \in 1..(Len(old) + Len(drawn)) /\ ~(Len(old) + i <= Len(old))
          /\ Len(old) + i - Len(old) = i
      BY <1>7, <1>8
    <3>2. Len(old) + i \in 1..(Len(old \o drawn) + Len(rest)) /\ Len(old) + i <= Len(old \o drawn)
      BY <1>7, <1>8, <1>12, <1>13, <3>1
    <3> QED
      BY <1>13, <1>14, <3>1, <3>2
  <2>4. ASSUME NEW i \in 1..Len(rest)
        PROVE  new[Len(old) + Len(drawn) + i] = left[i]
    <3> DEFINE a == Len(old \o drawn)
               k == a + i
    <3>1. a \in Nat /\ a = Len(old) + Len(drawn)
      BY <1>7, <1>8, <1>13
    <3> HIDE DEF a
    <3>2. k \in 1..(a + Len(rest)) /\ ~(k <= a) /\ k - a = i
      BY <1>12, <3>1
    <3>3. new[k] = rest[i]
      BY <1>14, <3>2 DEF a
    <3> QED
      BY <1>12, <3>1, <3>3
  <2> QED
    BY <2>1, <2>2, <2>3, <2>4
<1>16. ASSUME NEW i \in 1..Len(new), Len(old) < i
       PROVE  \/ \E k \in 1..Len(drawn) : i = Len(old) + k /\ new[i] = drawn[k]
              \/ \E k \in 1..Len(left) : i = Len(old) + Len(drawn) + k /\ new[i] = left[k]
  <2>1. CASE i <= Len(old) + Len(drawn)
    <3>1. i - Len(old) \in 1..Len(drawn) /\ i = Len(old) + (i - Len(old))
      BY <1>7, <1>8, <1>15, <1>16, <2>1
    <3> QED
      BY <1>15, <3>1
  <2>2. CASE ~(i <= Len(old) + Len(drawn))
    <3> DEFINE k == i - (Len(old) + Len(drawn))
    <3>1. k \in 1..Len(rest) /\ k \in 1..Len(left) /\ i = Len(old) + Len(drawn) + k
      BY <1>7, <1>8, <1>9, <1>12, <1>15, <1>16, <2>2
    <3> QED
      BY <1>15, <3>1
  <2> QED
    BY <2>1, <2>2
<1>17. \A i \in 1..Len(new) : Len(old) < i => new[i] \in Newcomers
  BY <1>8, <1>9, <1>16
<1>18. ASSUME NEW i \in 1..Len(new), NEW k \in 1..Len(new),
              Len(old) < i, Len(old) < k, new[i] = new[k]
       PROVE  i = k
  <2>1. CASE \E a \in 1..Len(drawn) : i = Len(old) + a /\ new[i] = drawn[a]
    <3>1. new[k] \in S
      BY <1>8, <1>18, <2>1
    <3>2. \E b \in 1..Len(drawn) : k = Len(old) + b /\ new[k] = drawn[b]
      BY <1>9, <1>16, <1>18, <3>1
    <3> QED
      BY <1>8, <1>18, <2>1, <3>2
  <2>2. CASE \E a \in 1..Len(left) : i = Len(old) + Len(drawn) + a /\ new[i] = left[a]
    <3>1. new[k] \notin S
      BY <1>9, <1>18, <2>2
    <3>2. \E b \in 1..Len(left) : k = Len(old) + Len(drawn) + b /\ new[k] = left[b]
      BY <1>8, <1>16, <1>18, <3>1
    <3> QED
      BY <1>9, <1>18, <2>2, <3>2
  <2> QED
    BY <1>16, <1>18, <2>1, <2>2
<1>19. Len(new) >= Least(desired, Len(old) + newNodes)
  <2> DEFINE a == Len(old)  b == Len(drawn)  c == Len(left)  d == Len(rest)
  <2>1. /\ a \in Nat /\ b \in Nat /\ c \in Nat /\ d \in Nat /\ b + c = newNodes
        /\ d >= IF c < desired - a - b THEN c ELSE desired - a - b
        /\ Len(new) = a + b + d
    BY <1>7, <1>8, <1>9, <1>10, <1>12, <1>15 DEF short, Least
  <2> HIDE DEF a, b, c, d
  <2>2. a + b + d >= IF desired < a + newNodes THEN desired ELSE a + newNodes
    BY <1>1, <2>1
  <2> QED
    BY <2>1, <2>2 DEF a, Least
<1>20. CheckeesOf(j, drawn, left) = new
  BY DEF CheckeesOf, old, short, rest, new
<1>21. /\ checkerCheckeeMap' = [checkerCheckeeMap EXCEPT ![j] = new]
       /\ checkerCheckeeMap'[j] = new
       /\ checkerCheckeeMap' \in [Node -> Seq(Node)]
       /\ \A v \in Node : v # j => checkerCheckeeMap'[v] = checkerCheckeeMap[v]
  BY <1>3, <1>6, <1>14, <1>20 DEF TypeOK
<1>22. Extends(old, new)
  <2>1. Len(old) <= Len(new)
    BY <1>7, <1>8, <1>12, <1>15
  <2> QED
    BY <1>14, <1>15, <1>17, <1>18, <1>19, <2>1 DEF Extends
<1> QED
  BY <1>1, <1>2, <1>3, <1>4, <1>21, <1>22 DEF old

-----------------------------------------------------------------------------
(* Type correctness                                                        *)

(* The initial state has the right types.                                  *)
LEMMA TypeInit == Init => TypeOK
<1> SUFFICES ASSUME Init PROVE TypeOK
  OBVIOUS
<1>1. <<>> \in Seq(Node) /\ <<>> \in Seq(Pointer) /\ <<>> \in Seq(0..MaxNodes)
  BY EmptySeq
<1>2. 0 \in 0..MaxNodes /\ 0 \in Nat /\ 0 \in Int
  BY NodeFacts
<1>3. [v \in Node |-> <<>>] \in [Node -> Seq(Node)]
  BY <1>1
<1>4. [p \in Pointer |-> <<>>] \in [Pointer -> Seq(Pointer)]
  BY <1>1
<1>5. [v \in Node |-> 0] \in [Node -> Nat]
  OBVIOUS
<1> QED
  BY <1>1, <1>2, <1>3, <1>4, <1>5 DEF Init, TypeOK

(* The nodes dump_map has one pointer for are nodes, and the last of them  *)
(* is one.                                                                 *)
NodesOf(p, functions) == {v \in Node : IsChecker(v) /\ Function(v, functions) = p}

LEMMA LastNodeOf ==
  ASSUME NEW p, NEW functions, NodesOf(p, functions) # {}
  PROVE  Max(NodesOf(p, functions)) \in NodesOf(p, functions)
BY GreatestMember DEF NodesOf

(* mapCheckersOnFunctions maps pointers to sequences of pointers.          *)
LEMMA DumpMapType ==
  ASSUME TypeOK, NEW functions
  PROVE  DumpMap(functions) \in [Pointer -> Seq(Pointer)]
<1> DEFINE entry(p) ==
             IF NodesOf(p, functions) = {} THEN <<>>
             ELSE [i \in DOMAIN checkerCheckeeMap[Max(NodesOf(p, functions))] |->
                     Function(checkerCheckeeMap[Max(NodesOf(p, functions))][i], functions)]
<1>1. ASSUME NEW p \in Pointer
      PROVE  entry(p) \in Seq(Pointer)
  <2>1. CASE NodesOf(p, functions) = {}
    BY <2>1, EmptySeq
  <2>2. CASE NodesOf(p, functions) # {}
    <3> DEFINE v == Max(NodesOf(p, functions))
    <3>1. v \in Node
      BY <2>2, LastNodeOf DEF NodesOf
    <3> HIDE DEF v
    <3>2. /\ checkerCheckeeMap[v] \in Seq(Node)
          /\ Len(checkerCheckeeMap[v]) \in Nat
          /\ DOMAIN checkerCheckeeMap[v] = 1..Len(checkerCheckeeMap[v])
      BY <3>1, LenProperties DEF TypeOK
    <3>3. \A i \in 1..Len(checkerCheckeeMap[v]) :
            Function(checkerCheckeeMap[v][i], functions) \in Pointer
      BY <3>2, ElementOfSeq DEF Function, Pointer
    <3>4. [i \in DOMAIN checkerCheckeeMap[v] |->
             Function(checkerCheckeeMap[v][i], functions)] \in Seq(Pointer)
      BY <3>2, <3>3
    <3> QED
      BY <2>2, <3>4 DEF v
  <2> QED
    BY <2>1, <2>2
<1>2. DumpMap(functions) = [p \in Pointer |-> entry(p)]
  BY DEF DumpMap, NodesOf
<1> HIDE DEF entry
<1> QED
  BY <1>1, <1>2

(* A rank that is drawn has a node, and no more than remain.               *)
LEMMA RankSize ==
  ASSUME TypeOK, Ranks, NewRank
  PROVE  newNodes' \in 1..(total - nodes) /\ total \in 0..MaxNodes /\ nodes \in Nat
<1>1. calls # <<>> /\ nodes \in Nat /\ nodes < total
  BY DEF NewRank, Ranks, TypeOK
<1>2. total \in 0..MaxNodes
  BY <1>1, TotalType
<1>3. PICK r \in 0..(total - 1) : newNodes' = Least(r \div 2 + 1, total - nodes)
  BY DEF NewRank, RankSizes
<1> HIDE DEF total
<1>4. total \in Nat /\ r \in Nat /\ r \div 2 \in Nat
  BY <1>2, <1>3
<1>5. Least(r \div 2 + 1, total - nodes) \in 1..(total - nodes)
  BY <1>1, <1>4 DEF Least
<1> QED
  BY <1>1, <1>2, <1>3, <1>5

(* Entering a node keeps the types of the state of the sort.               *)
LEMMA EnterType ==
  ASSUME TypeOK, NEW v \in Node, Enter(v)
  PROVE  visited' \subseteq Node /\ stack' \in Seq(Node)
BY AppendFacts DEF TypeOK, Enter

(* Each action keeps the types.                                            *)
LEMMA TypeNext == TypeOK /\ Ranks /\ [Next]_vars => TypeOK'
<1> SUFFICES ASSUME TypeOK, Ranks, [Next]_vars PROVE TypeOK'
  OBVIOUS
<1>0. 0 \in 0..MaxNodes /\ MaxNodes \in Nat
  BY NodeFacts
<1>1. ASSUME NEW t \in 0..MaxNodes, NEW d \in Levels, ConstructAcyclicCheckers(t, d)
      PROVE  TypeOK'
  <2>1. calls' \in Seq(0..MaxNodes) /\ desired' \in Int
    BY <1>1, AppendFacts, LevelAssumption DEF ConstructAcyclicCheckers, TypeOK
  <2> QED
    BY <1>0, <1>1, <2>1 DEF ConstructAcyclicCheckers, sortVars, TypeOK
<1>2. ASSUME NEW n \in 0..MaxNodes, MapCheckersOnFunctions(n)
      PROVE  TypeOK'
  <2>1. dumpMap' \in [Pointer -> Seq(Pointer)]
    BY <1>2, DumpMapType DEF MapCheckersOnFunctions
  <2>2. <<>> \in Seq(Node) /\ [v \in Node |-> 0] \in [Node -> Nat]
    BY EmptySeq
  <2> QED
    BY <1>2, <2>1, <2>2 DEF MapCheckersOnFunctions, buildVars, TypeOK
<1>3. CASE NewRank
  <2>1. newNodes' \in 0..MaxNodes
    BY <1>3, RankSize, NodeFacts
  <2> QED
    BY <1>3, <2>1 DEF NewRank, sortVars, TypeOK
<1>4. CASE ConnectNode
  <2>1. checkerCheckeeMap' \in [Node -> Seq(Node)]
    BY <1>4, EntryExtended
  <2>2. j' \in Nat /\ UNCHANGED <<phase, calls, desired, nodes, newNodes, rankEnds, sortVars>>
    BY <1>4 DEF ConnectNode, TypeOK
  <2> QED
    BY <2>1, <2>2 DEF sortVars, TypeOK
<1>5. CASE EndRank
  <2>1. calls # <<>> /\ nodes + newNodes <= total
    BY <1>5 DEF EndRank, Ranks
  <2>2. nodes' \in 0..MaxNodes
    BY <1>0, <1>5, <2>1, TotalType DEF EndRank, TypeOK
  <2> QED
    BY <1>5, <2>2 DEF EndRank, sortVars, TypeOK
<1>6. CASE ReturnNetwork
  BY <1>6 DEF ReturnNetwork, buildVars, sortVars, TypeOK
<1>7. ASSUME NEW v \in Node, SortFrom(v)
      PROVE  TypeOK'
  <2>1. visited' \subseteq Node /\ stack' \in Seq(Node)
    BY <1>7, EnterType DEF SortFrom
  <2> QED
    BY <1>7, <2>1 DEF SortFrom, buildVars, TypeOK
<1>8. CASE VisitCheckee
  <2> DEFINE caller  == Last(stack)
             next    == cursor[caller] + 1
             checkee == checkerCheckeeMap[caller][next]
  <2>1. caller \in Node /\ cursor[caller] \in Nat
    BY <1>8, LastAndFront DEF VisitCheckee, TypeOK
  <2>2. next \in 1..Len(checkerCheckeeMap[caller])
    BY <1>8, <2>1 DEF VisitCheckee
  <2>3. checkee \in Node
    BY <2>1, <2>2, ElementOfSeq DEF TypeOK
  <2>4. visited' \subseteq Node /\ stack' \in Seq(Node)
    BY <1>8, <2>3, EnterType DEF VisitCheckee, TypeOK
  <2>5. cursor' \in [Node -> Nat]
    <3>1. cursor' = [cursor EXCEPT ![caller] = next] /\ next \in Nat
      BY <1>8, <2>1 DEF VisitCheckee
    <3> QED
      BY <3>1 DEF TypeOK
  <2>6. phase' \in {"sort", "undefined"}
    BY <1>8 DEF VisitCheckee
  <2> QED
    BY <1>8, <2>4, <2>5, <2>6 DEF VisitCheckee, buildVars, TypeOK
<1>9. CASE ListFunction
  <2>1. Last(stack) \in Node /\ Front(stack) \in Seq(Node)
    BY <1>9, LastAndFront DEF ListFunction, TypeOK
  <2>2. list' \in Seq(Node) /\ stack' \in Seq(Node)
    BY <1>9, <2>1, AppendFacts DEF ListFunction, TypeOK
  <2> QED
    BY <1>9, <2>2 DEF ListFunction, buildVars, TypeOK
<1>10. CASE ReturnSort
  BY <1>10 DEF ReturnSort, buildVars, sortVars, TypeOK
<1>11. CASE UNCHANGED vars
  BY <1>11 DEF vars, buildVars, sortVars, TypeOK
<1> QED
  BY <1>1, <1>2, <1>3, <1>4, <1>5, <1>6, <1>7, <1>8, <1>9, <1>10, <1>11
     DEF Next, Construct, Sort

-----------------------------------------------------------------------------
(* The construction preserves its invariant                                *)

(* At first there is nothing.                                              *)
LEMMA BuildInit == Init => BuildInv
<1> SUFFICES ASSUME Init PROVE BuildInv
  OBVIOUS
<1>1. \A v \in Node : checkerCheckeeMap[v] = <<>> /\ 1..Len(checkerCheckeeMap[v]) = {}
  BY EmptyMembers DEF Init
<1>2. Len(calls) = 0 /\ 0..(0 - 1) = {}
  BY EmptyMembers DEF Init
<1> QED
  BY <1>1, <1>2 DEF Init, BuildInv, Ranks, Upward, Reached, PushedOnce

(* A call starts with no rank, over the network of the calls before.       *)
LEMMA BuildCall ==
  ASSUME TypeOK, BuildInv, NEW t \in 0..MaxNodes, NEW d \in Levels,
         ConstructAcyclicCheckers(t, d)
  PROVE  BuildInv'
<1>1. /\ phase' = "rank" /\ calls' = Append(calls, t) /\ nodes' = 0 /\ rankEnds' = {}
      /\ checkerCheckeeMap' = checkerCheckeeMap
  BY DEF ConstructAcyclicCheckers
<1>2. calls \in Seq(0..MaxNodes) /\ t \in Nat
  BY NodeFacts DEF TypeOK
<1>3. /\ Len(calls) \in Nat /\ Len(calls') = Len(calls) + 1 /\ calls' # <<>>
      /\ \A k \in 1..Len(calls) : calls'[k] = calls[k]
      /\ calls'[Len(calls) + 1] = t
  BY <1>1, <1>2, AppendFacts
<1>4. Ranks'
  <2>1. total' = t
    BY <1>3 DEF total, Last
  <2> QED
    BY <1>1, <1>2, <1>3, <2>1 DEF Ranks
<1>5. Upward'
  BY <1>1, <1>3 DEF BuildInv, Upward
<1>6. Reached'
  BY <1>1 DEF Reached
<1>7. PushedOnce'
  <2> SUFFICES ASSUME Len(calls') = 1 PROVE PushedOnce'
    BY DEF PushedOnce
  <2>1. calls = <<>>
    BY <1>2, <1>3, EmptySeq
  <2>2. \A v \in Node : 1..Len(checkerCheckeeMap'[v]) = {}
    BY <1>1, <2>1, EmptyMembers DEF BuildInv, Ranks
  <2> QED
    BY <2>2 DEF PushedOnce
<1> QED
  BY <1>4, <1>5, <1>6, <1>7 DEF BuildInv

(* A rank that is drawn connects no node yet.                              *)
LEMMA BuildRank ==
  ASSUME TypeOK, BuildInv, NewRank
  PROVE  BuildInv'
<1>1. /\ phase = "rank" /\ phase' = "connect" /\ j' = 0
      /\ UNCHANGED <<calls, desired, nodes, rankEnds, checkerCheckeeMap>>
  BY DEF NewRank
<1>2. newNodes' \in 1..(total - nodes) /\ total \in 0..MaxNodes /\ nodes \in Nat
  BY RankSize DEF BuildInv
<1>3. Ranks'
  <2>1. newNodes' >= 1 /\ nodes' + newNodes' <= total'
    BY <1>1, <1>2 DEF total
  <2> QED
    BY <1>1, <2>1 DEF BuildInv, Ranks
<1>4. \A v \in Nat : Reach(v)' = Reach(v)
  BY <1>1 DEF Reach
<1>5. Upward'
  BY <1>1 DEF BuildInv, Upward
<1>6. Reached'
  <2>1. \A v \in 0..(nodes - 1) : v \in Nat
    BY <1>2
  <2> QED
    BY <1>1, <1>4, <2>1 DEF BuildInv, Reached
<1>7. PushedOnce'
  BY <1>1, <1>4, NodeFacts DEF BuildInv, PushedOnce
<1> QED
  BY <1>3, <1>5, <1>6, <1>7 DEF BuildInv

(* A node that is connected has edges to newcomers, up to its level.       *)
LEMMA BuildConnect ==
  ASSUME TypeOK, BuildInv, ConnectNode
  PROVE  BuildInv'
<1>1. /\ phase = "connect" /\ phase' = "connect" /\ j' = j + 1
      /\ UNCHANGED <<calls, desired, nodes, newNodes, rankEnds>>
  BY DEF ConnectNode
<1>2. /\ j \in 0..(nodes - 1) /\ j \in Node
      /\ Newcomers \subseteq Node /\ nodes + newNodes <= total
      /\ calls # <<>> /\ total \in 0..MaxNodes
      /\ Extends(checkerCheckeeMap[j], checkerCheckeeMap'[j])
      /\ \A v \in Node : v # j => checkerCheckeeMap'[v] = checkerCheckeeMap[v]
  BY EntryExtended DEF BuildInv
<1> DEFINE old == checkerCheckeeMap[j]
           new == checkerCheckeeMap'[j]
<1>3. /\ nodes \in Nat /\ newNodes \in Nat /\ j \in Nat /\ j < nodes /\ desired \in Int
      /\ Len(old) \in Nat /\ \A i \in 1..Len(old) : old[i] \in Nat
  BY <1>2, LenProperties, ElementOfSeq, NodeFacts DEF TypeOK
<1>4. /\ Len(new) \in Nat /\ Len(old) <= Len(new)
      /\ \A i \in 1..Len(old) : new[i] = old[i]
      /\ \A i \in 1..Len(new) : Len(old) < i =>
           new[i] \in Nat /\ nodes <= new[i] /\ new[i] < nodes + newNodes
      /\ \A i, k \in 1..Len(new) :
           Len(old) < i /\ Len(old) < k /\ new[i] = new[k] => i = k
      /\ Len(new) >= Least(desired, Len(old) + newNodes)
  <2>1. new \in Seq(Node) /\ Len(new) \in Nat
    BY <1>2, LenProperties DEF Extends
  <2>2. \A v \in Newcomers : v \in Nat /\ nodes <= v /\ v < nodes + newNodes
    BY <1>3 DEF Newcomers
  <2> QED
    BY <1>2, <2>1, <2>2 DEF Extends
<1>5. \A i \in 1..Len(new) : i \in 1..Len(old) \/ Len(old) < i
  BY <1>3, <1>4
<1> HIDE DEF old, new
<1>6. Ranks'
  BY <1>1, <1>2 DEF BuildInv, Ranks, total
<1>7. Upward'
  <2>1. PICK n \in 1..Len(calls) : calls[n] = total
    <3>1. Len(calls) \in Nat \ {0}
      BY <1>2, LastAndFront DEF TypeOK
    <3> QED
      BY <3>1 DEF total, Last
  <2>2. ASSUME NEW i \in 1..Len(new)
        PROVE  j < new[i] /\ \E k \in 1..Len(calls) : new[i] < calls[k]
    <3>1. CASE i \in 1..Len(old)
      BY <1>2, <1>4, <3>1 DEF BuildInv, Upward, old
    <3>2. CASE Len(old) < i
      <4>1. new[i] \in Nat /\ nodes <= new[i] /\ new[i] < nodes + newNodes
        BY <1>4, <3>2
      <4>2. j < new[i] /\ new[i] < calls[n]
        BY <1>2, <1>3, <2>1, <4>1
      <4> QED
        BY <4>2
    <3> QED
      BY <1>5, <3>1, <3>2
  <2> QED
    BY <1>1, <1>2, <2>2 DEF BuildInv, Upward, new
<1>8. ASSUME NEW v \in Nat
      PROVE  /\ v = j => Reach(v) = nodes /\ Reach(v)' = nodes + newNodes
             /\ v # j => Reach(v)' = Reach(v)
  BY <1>1, <1>3 DEF Reach
<1>9. Reached'
  <2>1. ASSUME NEW e \in rankEnds, j < e
        PROVE  Len(new) >= Least(desired, nodes + newNodes - e)
    <3>1. Len(old) >= Least(desired, nodes - e)
      BY <1>2, <1>3, <1>8, <2>1 DEF BuildInv, Reached, old
    <3>2. e \in Nat
      BY <1>3 DEF BuildInv, Reached
    <3> QED
      BY <1>3, <1>4, <3>1, <3>2 DEF Least
  <2>2. ASSUME NEW v \in 0..(nodes - 1), NEW e \in rankEnds, v < e, v # j
        PROVE  Len(checkerCheckeeMap'[v]) >= Least(desired, Reach(v)' - e)
    <3>1. v \in Node /\ v \in Nat
      <4>1. nodes <= MaxNodes /\ v \in Nat /\ v < nodes
        BY <1>3 DEF TypeOK
      <4> QED
        BY <1>3, <4>1, NodeFacts
    <3> QED
      BY <1>2, <1>8, <2>2, <3>1 DEF BuildInv, Reached
  <2>3. \A v \in 0..(nodes - 1) : \A e \in rankEnds :
          v < e => Len(checkerCheckeeMap'[v]) >= Least(desired, Reach(v)' - e)
    <3> SUFFICES ASSUME NEW v \in 0..(nodes - 1), NEW e \in rankEnds, v < e
                 PROVE  Len(checkerCheckeeMap'[v]) >= Least(desired, Reach(v)' - e)
      OBVIOUS
    <3>1. CASE v = j
      <4>1. Reach(v)' = nodes + newNodes /\ checkerCheckeeMap'[v] = new
        BY <1>3, <1>8, <3>1 DEF new
      <4>2. Len(new) >= Least(desired, nodes + newNodes - e)
        BY <2>1, <3>1
      <4>3. e \in Int /\ nodes \in Int /\ newNodes \in Int
        BY <1>3 DEF BuildInv, Reached
      <4> QED
        BY <4>1, <4>2, <4>3
    <3> QED
      BY <2>2, <3>1
  <2> QED
    BY <1>1, <2>3 DEF BuildInv, Reached
<1>10. PushedOnce'
  <2> SUFFICES ASSUME Len(calls) = 1 PROVE PushedOnce'
    BY <1>1 DEF PushedOnce
  <2>1. \A v \in Node :
          /\ \A i, k \in 1..Len(checkerCheckeeMap[v]) :
               checkerCheckeeMap[v][i] = checkerCheckeeMap[v][k] => i = k
          /\ \A i \in 1..Len(checkerCheckeeMap[v]) : checkerCheckeeMap[v][i] < Reach(v)
    BY DEF BuildInv, PushedOnce
  <2>2. ASSUME NEW i \in 1..Len(new)
        PROVE  /\ new[i] \in Nat /\ new[i] < nodes + newNodes
               /\ i \in 1..Len(old) => new[i] < nodes /\ new[i] = old[i]
               /\ Len(old) < i => nodes <= new[i]
    <3>1. CASE i \in 1..Len(old)
      <4>1. new[i] = old[i] /\ old[i] < nodes /\ old[i] \in Nat /\ ~(Len(old) < i)
        BY <1>2, <1>3, <1>4, <1>8, <2>1, <3>1 DEF old
      <4> QED
        BY <1>3, <4>1
    <3>2. CASE Len(old) < i
      BY <1>3, <1>4, <3>2
    <3> QED
      BY <1>5, <3>1, <3>2
  <2>3. ASSUME NEW i \in 1..Len(new), NEW k \in 1..Len(new), new[i] = new[k]
        PROVE  i = k
    <3>1. CASE i \in 1..Len(old) /\ k \in 1..Len(old)
      BY <1>2, <2>1, <2>2, <2>3, <3>1 DEF old
    <3>2. CASE Len(old) < i /\ Len(old) < k
      BY <1>4, <2>3, <3>2
    <3>3. CASE i \in 1..Len(old) /\ Len(old) < k
      <4>1. new[i] < nodes /\ nodes <= new[k] /\ new[i] \in Nat
        BY <2>2, <3>3
      <4> QED
        BY <1>3, <2>3, <4>1
    <3>4. CASE k \in 1..Len(old) /\ Len(old) < i
      <4>1. new[k] < nodes /\ nodes <= new[i] /\ new[i] \in Nat
        BY <2>2, <3>4
      <4> QED
        BY <1>3, <2>3, <4>1
    <3> QED
      BY <1>5, <3>1, <3>2, <3>3, <3>4
  <2>4. ASSUME NEW v \in Node
        PROVE  /\ \A i, k \in 1..Len(checkerCheckeeMap'[v]) :
                    checkerCheckeeMap'[v][i] = checkerCheckeeMap'[v][k] => i = k
               /\ \A i \in 1..Len(checkerCheckeeMap'[v]) :
                    checkerCheckeeMap'[v][i] < Reach(v)'
    <3>1. CASE v = j
      <4>1. Reach(v)' = nodes + newNodes /\ checkerCheckeeMap'[v] = new
        BY <1>3, <1>8, <3>1 DEF new
      <4> QED
        BY <2>2, <2>3, <4>1
    <3>2. CASE v # j
      <4>1. v \in Nat
        BY NodeFacts
      <4> QED
        BY <1>2, <1>8, <2>1, <3>2, <4>1
    <3> QED
      BY <3>1, <3>2
  <2> QED
    BY <2>4 DEF PushedOnce
<1> QED
  BY <1>6, <1>7, <1>9, <1>10 DEF BuildInv

(* The nodes of a rank that ends have no level to reach yet.               *)
LEMMA BuildEndRank ==
  ASSUME TypeOK, BuildInv, EndRank
  PROVE  BuildInv'
<1>1. /\ phase = "connect" /\ phase' = "rank" /\ j >= nodes
      /\ nodes' = nodes + newNodes /\ rankEnds' = rankEnds \cup {nodes + newNodes}
      /\ UNCHANGED <<calls, desired, newNodes, j, checkerCheckeeMap>>
  BY DEF EndRank
<1>2. /\ nodes \in Nat /\ newNodes \in Nat /\ newNodes >= 1 /\ j \in Nat /\ desired \in Int
      /\ nodes + newNodes <= total /\ calls # <<>> /\ total \in 0..MaxNodes
  BY <1>1, TotalType DEF TypeOK, BuildInv, Ranks
<1>3. Ranks'
  BY <1>1, <1>2 DEF Ranks, total
<1>4. Upward'
  BY <1>1 DEF BuildInv, Upward
<1>5. ASSUME NEW v \in Nat
      PROVE  /\ Reach(v)' = nodes + newNodes
             /\ Reach(v) = IF v < j THEN nodes + newNodes ELSE nodes
  BY <1>1 DEF Reach
<1>6. Reached'
  <2>1. rankEnds' \subseteq 1..nodes' /\ nodes' \in rankEnds'
    BY <1>1, <1>2 DEF BuildInv, Reached
  <2>2. ASSUME NEW v \in 0..(nodes' - 1), NEW e \in rankEnds', v < e
        PROVE  Len(checkerCheckeeMap'[v]) >= Least(desired', Reach(v)' - e)
    <3>1. v \in Nat /\ v \in Node /\ e \in Nat
      <4>1. v \in Nat /\ v < MaxNodes
        BY <1>1, <1>2, NodeFacts
      <4> QED
        BY <2>1, <4>1, NodeFacts
    <3>2. Len(checkerCheckeeMap[v]) \in Nat
      BY <3>1, LenProperties DEF TypeOK
    <3>3. CASE e = nodes + newNodes
      <4>1. Reach(v)' - e = 0
        BY <1>2, <1>5, <3>1, <3>3
      <4> QED
        BY <1>1, <1>2, <3>2, <4>1 DEF Least
    <3>4. CASE e \in rankEnds
      <4>1. v \in 0..(nodes - 1) /\ v < j
        BY <1>1, <1>2, <2>2, <3>1, <3>4 DEF BuildInv, Reached
      <4>2. Len(checkerCheckeeMap[v]) >= Least(desired, Reach(v) - e)
        BY <2>2, <3>4, <4>1 DEF BuildInv, Reached
      <4>3. Reach(v)' = Reach(v)
        BY <1>5, <3>1, <4>1
      <4> QED
        BY <1>1, <4>2, <4>3
    <3> QED
      BY <1>1, <3>3, <3>4
  <2> QED
    BY <2>1, <2>2 DEF Reached
<1>7. PushedOnce'
  <2> SUFFICES ASSUME Len(calls) = 1, NEW v \in Node
               PROVE  /\ \A i, k \in 1..Len(checkerCheckeeMap[v]) :
                           checkerCheckeeMap[v][i] = checkerCheckeeMap[v][k] => i = k
                      /\ \A i \in 1..Len(checkerCheckeeMap[v]) :
                           checkerCheckeeMap[v][i] < Reach(v)'
    BY <1>1 DEF PushedOnce
  <2>1. v \in Nat /\ \A i \in 1..Len(checkerCheckeeMap[v]) : checkerCheckeeMap[v][i] \in Nat
    BY ElementOfSeq, NodeFacts DEF TypeOK
  <2>2. /\ \A i, k \in 1..Len(checkerCheckeeMap[v]) :
             checkerCheckeeMap[v][i] = checkerCheckeeMap[v][k] => i = k
        /\ \A i \in 1..Len(checkerCheckeeMap[v]) : checkerCheckeeMap[v][i] < Reach(v)
    BY DEF BuildInv, PushedOnce
  <2>3. /\ Reach(v) \in Nat /\ Reach(v)' \in Nat /\ Reach(v) <= Reach(v)'
    BY <1>2, <1>5, <2>1
  <2>4. \A i \in 1..Len(checkerCheckeeMap[v]) : checkerCheckeeMap[v][i] < Reach(v)'
    BY <2>1, <2>2, <2>3
  <2> QED
    BY <2>2, <2>4
<1> QED
  BY <1>3, <1>4, <1>6, <1>7 DEF BuildInv

(* The steps that build nothing.                                           *)
LEMMA BuildQuiet ==
  ASSUME TypeOK, BuildInv, UNCHANGED <<calls, buildVars>>,
         \/ phase' = phase
         \/ phase = "rank" /\ phase' = "idle" /\ nodes >= total
         \/ phase = "idle" /\ phase' = "sort" /\ calls # <<>>
         \/ phase = "sort" /\ phase' \in {"done", "undefined"}
  PROVE  BuildInv'
<1>1. UNCHANGED <<calls, desired, nodes, newNodes, j, rankEnds, checkerCheckeeMap>>
  BY DEF buildVars
<1>2. phase = "connect" <=> phase' = "connect"
  OBVIOUS
<1>3. Ranks'
  <2>1. phase = "rank" /\ nodes >= total => nodes = total
    <3> SUFFICES ASSUME phase = "rank", nodes >= total PROVE nodes = total
      OBVIOUS
    <3>1. nodes <= total /\ calls # <<>>
      BY DEF BuildInv, Ranks
    <3>2. total \in Nat /\ nodes \in Nat
      BY <3>1, TotalType DEF TypeOK
    <3> QED
      BY <3>1, <3>2
  <2> QED
    BY <1>1, <1>2, <2>1 DEF BuildInv, Ranks, total
<1>4. \A v : Reach(v)' = Reach(v)
  BY <1>1, <1>2 DEF Reach
<1>5. Upward' /\ PushedOnce'
  BY <1>1, <1>4 DEF BuildInv, Upward, PushedOnce
<1>6. Reached'
  BY <1>1, <1>4 DEF BuildInv, Reached
<1> QED
  BY <1>3, <1>5, <1>6 DEF BuildInv

(* Each action preserves the invariant of the construction.                *)
LEMMA BuildNext == TypeOK /\ BuildInv /\ [Next]_vars => BuildInv'
<1> SUFFICES ASSUME TypeOK, BuildInv, [Next]_vars PROVE BuildInv'
  OBVIOUS
<1>1. ASSUME NEW t \in 0..MaxNodes, NEW d \in Levels, ConstructAcyclicCheckers(t, d)
      PROVE  BuildInv'
  BY <1>1, BuildCall
<1>2. CASE NewRank
  BY <1>2, BuildRank
<1>3. CASE ConnectNode
  BY <1>3, BuildConnect
<1>4. CASE EndRank
  BY <1>4, BuildEndRank
<1>5. CASE ReturnNetwork
  BY <1>5, BuildQuiet DEF ReturnNetwork
<1>6. ASSUME NEW n \in 0..MaxNodes, MapCheckersOnFunctions(n)
      PROVE  BuildInv'
  BY <1>6, BuildQuiet DEF MapCheckersOnFunctions
<1>7. CASE Sort
  <2>1. UNCHANGED <<calls, buildVars>> /\ phase = "sort"
    BY <1>7 DEF Sort, SortFrom, VisitCheckee, ListFunction, ReturnSort
  <2>2. phase' \in {"sort", "done", "undefined"}
    BY <1>7 DEF Sort, SortFrom, VisitCheckee, ListFunction, ReturnSort
  <2> QED
    BY <2>1, <2>2, BuildQuiet
<1>8. CASE UNCHANGED vars
  BY <1>8, BuildQuiet DEF vars
<1> QED
  BY <1>1, <1>2, <1>3, <1>4, <1>5, <1>6, <1>7, <1>8 DEF Next, Construct

(* Types and network are invariant.                                        *)
LEMMA BuildInvariance == Spec => [](TypeOK /\ BuildInv)
<1>1. TypeOK /\ BuildInv /\ [Next]_vars => TypeOK' /\ BuildInv'
  BY TypeNext, BuildNext DEF BuildInv
<1> QED
  BY TypeInit, BuildInit, <1>1, PTL DEF Spec

(* Every variable keeps its type, however many nodes are asked for and at  *)
(* whatever level: no rank is drawn with more nodes than remain, so that   *)
(* no edge leads outside of the network.                                   *)
THEOREM TypeCorrect == Spec => []TypeOK
BY BuildInvariance, PTL

-----------------------------------------------------------------------------
(* The level is reached                                                    *)

(* A sequence without repetition has as many members as elements.          *)
LEMMA DistinctCount ==
  ASSUME NEW S, NEW s \in Seq(S), \A i, k \in 1..Len(s) : s[i] = s[k] => i = k
  PROVE  Cardinality(ToSet(s)) = Len(s)
<1>1. Len(s) \in Nat /\ ToSet(s) = {s[i] : i \in 1..Len(s)} /\ s \in [1..Len(s) -> S]
  BY MembersByPlace, LenProperties
<1>2. s \in [1..Len(s) -> ToSet(s)]
  BY <1>1
<1>3. \A x \in ToSet(s) : \E i \in 1..Len(s) : s[i] = x
  BY <1>1
<1>4. s \in Bijection(1..Len(s), ToSet(s))
  BY <1>2, <1>3 DEF Bijection, Injection, Surjection, IsInjective
<1>5. ExistsBijection(1..Len(s), ToSet(s))
  BY <1>4, Zenon DEF ExistsBijection
<1> QED
  BY <1>1, <1>5, FS_CountingElements

(* The level of the turns is the level of the network that is returned.    *)
LEMMA LevelOfNetwork == TypeOK /\ BuildInv => LevelReached
<1> SUFFICES ASSUME TypeOK, BuildInv, Returned, NEW v \in 0..(total - 1)
             PROVE  /\ Len(checkerCheckeeMap[v]) >= Least(desired, Above(v))
                    /\ Len(calls) = 1 =>
                         Len(checkerCheckeeMap[v]) = Cardinality(ToSet(checkerCheckeeMap[v]))
  BY DEF LevelReached
<1>1. /\ phase = "idle" /\ calls # <<>> /\ nodes = total
      /\ nodes \in Nat /\ nodes <= MaxNodes
  BY DEF Returned, BuildInv, Ranks, TypeOK
<1>2. v \in Nat /\ v < nodes /\ v \in Node /\ v \in 0..(nodes - 1)
  BY <1>1, NodeFacts
<1>3. checkerCheckeeMap[v] \in Seq(Node)
  BY <1>2 DEF TypeOK
<1>4. Len(checkerCheckeeMap[v]) >= Least(desired, Above(v))
  <2> DEFINE ends == {e \in rankEnds : v < e}
  <2>1. ends \in SUBSET Nat
    <3>1. rankEnds \subseteq 1..nodes
      BY DEF BuildInv, Reached
    <3>2. \A e \in rankEnds : e \in Nat
      BY <1>1, <3>1
    <3> QED
      BY <3>2
  <2>2. nodes \in ends
    BY <1>1, <1>2 DEF BuildInv, Reached
  <2>3. Min(ends) \in ends
    BY <2>1, <2>2, LeastMember
  <2> DEFINE e == Min(ends)
  <2>4. e \in rankEnds /\ v < e
    BY <2>3
  <2>5. Above(v) = total - e
    BY DEF Above
  <2> HIDE DEF e
  <2>6. Len(checkerCheckeeMap[v]) >= Least(desired, Reach(v) - e)
    BY <1>2, <2>4 DEF BuildInv, Reached
  <2>7. Reach(v) = total
    BY <1>1 DEF Reach
  <2> QED
    BY <2>5, <2>6, <2>7
<1>5. ASSUME Len(calls) = 1
      PROVE  Len(checkerCheckeeMap[v]) = Cardinality(ToSet(checkerCheckeeMap[v]))
  <2>1. \A i, k \in 1..Len(checkerCheckeeMap[v]) :
          checkerCheckeeMap[v][i] = checkerCheckeeMap[v][k] => i = k
    BY <1>2, <1>5 DEF BuildInv, PushedOnce
  <2> QED
    BY <1>3, <2>1, DistinctCount
<1> QED
  BY <1>4, <1>5

(* A call of constructAcyclicCheckers returns with the level it was asked  *)
(* for, or with an edge to every node of a higher rank, whatever ranks and *)
(* edges chance has drawn and however many calls were before; in the first *)
(* call no edge counts twice.                                              *)
THEOREM LevelKept == Spec => []LevelReached
BY LevelOfNetwork, BuildInvariance, PTL

-----------------------------------------------------------------------------
(* The sort preserves its invariant                                        *)

NothingYet ==
  /\ visited = {} /\ stack = <<>> /\ list = <<>>
  /\ \A v \in Node : cursor[v] = 0

(* Before the sort begins its invariant holds vacuously.                   *)
LEMMA NothingSearched == NothingYet => SearchInv
<1> SUFFICES ASSUME NothingYet PROVE SearchInv
  OBVIOUS
<1>1. 1..Len(stack) = {} /\ 1..Len(list) = {}
  BY EmptyMembers DEF NothingYet
<1>2. ToSet(stack) = {} /\ ToSet(list) = {}
  BY EmptyMembers DEF NothingYet
<1> QED
  BY <1>1, <1>2 DEF NothingYet, SearchInv, Chain, Visits, Looked, ListedOnce,
     Listed, Stacked

(* The construction leaves the state of the sort as it is.                 *)
LEMMA BuildStepSearches ==
  ASSUME IInv, UNCHANGED sortVars,
         phase \in {"idle", "rank", "connect"}, phase' \in {"idle", "rank", "connect"}
  PROVE  Stages' /\ SearchInv'
<1>1. NothingYet
  BY DEF IInv, Stages, NothingYet
<1>2. NothingYet'
  BY <1>1 DEF NothingYet, sortVars
<1>3. SearchInv'
  BY <1>2, NothingSearched, PTL
<1>4. Stages'
  BY <1>2 DEF Stages, NothingYet
<1> QED
  BY <1>3, <1>4

(* The call of mapCheckersOnFunctions starts the sort afresh.              *)
LEMMA MapSearches ==
  ASSUME IInv, NEW n \in 0..MaxNodes, MapCheckersOnFunctions(n)
  PROVE  Stages' /\ SearchInv'
<1>1. /\ phase' = "sort" /\ allFunctions' = n /\ dumpMap' = DumpMap(n)
      /\ checkerCheckeeMap' = checkerCheckeeMap
      /\ visited' = {} /\ stack' = <<>> /\ list' = <<>> /\ cursor' = [v \in Node |-> 0]
  BY DEF MapCheckersOnFunctions, buildVars
<1>2. NothingYet'
  BY <1>1 DEF NothingYet
<1>3. SearchInv'
  BY <1>2, NothingSearched, PTL
<1>4. DumpMap(allFunctions)' = DumpMap(n)
  BY <1>1 DEF DumpMap, IsChecker
<1>5. Stages'
  BY <1>1, <1>4 DEF Stages
<1> QED
  BY <1>3, <1>5

(* The sort does not touch the network or the map.                         *)
SortStep == phase = "sort" /\ UNCHANGED <<calls, buildVars, allFunctions, dumpMap>>

LEMMA SortKeepsNetwork ==
  ASSUME IInv, SortStep
  PROVE  /\ UNCHANGED <<calls, checkerCheckeeMap, allFunctions, dumpMap>>
         /\ \A v \in Node : IsChecker(v)' <=> IsChecker(v)
         /\ dumpMap' = DumpMap(allFunctions)'
         /\ phase' = "sort" => Stages'
<1>1. UNCHANGED <<calls, checkerCheckeeMap, allFunctions, dumpMap>>
  BY DEF SortStep, buildVars
<1>2. \A v \in Node : IsChecker(v)' <=> IsChecker(v)
  BY <1>1 DEF IsChecker
<1>3. DumpMap(allFunctions)' = DumpMap(allFunctions)
  BY <1>1 DEF DumpMap, IsChecker
<1>4. dumpMap' = DumpMap(allFunctions)'
  BY <1>1, <1>3 DEF SortStep, IInv, Stages
<1>5. phase' = "sort" => Stages'
  BY <1>4 DEF Stages
<1> QED
  BY <1>1, <1>2, <1>4, <1>5

(* No node has two calls in progress.                                      *)
LEMMA StackDistinct ==
  ASSUME TypeOK, Chain, NEW p \in 1..Len(stack), NEW q \in 1..Len(stack), p # q
  PROVE  stack[p] # stack[q]
<1>1. Len(stack) \in Nat /\ stack[p] \in Nat /\ stack[q] \in Nat
  BY LenProperties, ElementOfSeq, NodeFacts DEF TypeOK
<1>2. p < q \/ q < p
  BY <1>1
<1> QED
  BY <1>1, <1>2 DEF Chain

(* A call from the outer loop of the sort preserves the invariant.         *)
LEMMA SortFromPreserves ==
  ASSUME IInv, NEW v \in Node, SortFrom(v)
  PROVE  Stages' /\ SearchInv'
<1> USE DEF IInv
<1>1. /\ SortStep /\ phase' = "sort" /\ phase = "sort" /\ stack = <<>>
      /\ v \notin visited /\ visited' = visited \cup {v}
      /\ stack' = IF IsChecker(v) THEN Append(stack, v) ELSE stack
      /\ UNCHANGED <<cursor, list>>
  BY DEF SortFrom, Enter, SortStep
<1>2. /\ Stages' /\ checkerCheckeeMap' = checkerCheckeeMap
      /\ \A w \in Node : IsChecker(w)' <=> IsChecker(w)
  BY <1>1, SortKeepsNetwork
<1>3. Len(stack) = 0 /\ 1..Len(stack) = {} /\ ToSet(stack) = {}
  BY <1>1, EmptyMembers
<1>4. ListedOnce'
  BY <1>1 DEF SearchInv, ListedOnce
<1>5. CASE IsChecker(v)
  <2>1. stack' = Append(stack, v) /\ stack \in Seq(Node)
    BY <1>1, <1>5 DEF TypeOK
  <2>2. Len(stack') = 1 /\ stack'[1] = v /\ ToSet(stack') = {v}
    <3>1. /\ Len(stack') = Len(stack) + 1 /\ stack'[Len(stack) + 1] = v
          /\ ToSet(stack') = ToSet(stack) \cup {v}
      BY <2>1, AppendFacts
    <3> QED
      BY <1>3, <3>1
  <2>3. \A p \in 1..Len(stack') : p = 1 /\ stack'[p] = v
    BY <2>2
  <2>4. Visits'
    BY <1>1, <1>2, <1>3, <1>5, <2>2 DEF SearchInv, Visits, Listed, Stacked, IsChecker
  <2>5. Chain'
    BY <2>3 DEF Chain
  <2>6. cursor'[v] = 0 /\ Len(checkerCheckeeMap'[v]) \in Nat
    BY <1>1, <1>2, LenProperties DEF SearchInv, Visits, TypeOK
  <2>7. Looked'
    <3>1. \A p \in 1..Len(stack') : cursor'[stack'[p]] = 0
      BY <2>3, <2>6
    <3>2. \A p \in 1..Len(stack') : cursor'[stack'[p]] <= Len(checkerCheckeeMap'[stack'[p]])
      BY <2>3, <2>6
    <3>3. 1..0 = {}
      OBVIOUS
    <3> QED
      BY <3>1, <3>2, <3>3 DEF Looked
  <2> QED
    BY <1>2, <1>4, <2>4, <2>5, <2>7 DEF SearchInv
<1>6. CASE ~IsChecker(v)
  <2>1. stack' = stack
    BY <1>1, <1>6
  <2>2. Visits'
    BY <1>1, <1>2, <1>6, <2>1 DEF SearchInv, Visits, Listed, Stacked, IsChecker
  <2>3. Chain' /\ Looked'
    BY <1>3, <2>1 DEF Chain, Looked
  <2> QED
    BY <1>2, <1>4, <2>2, <2>3 DEF SearchInv
<1> QED
  BY <1>5, <1>6

(* What the calls in progress have looked at once the innermost has moved  *)
(* on to g, in terms of the stack of before.                               *)
MovedOnTo(g) ==
  \A p \in 1..Len(stack) :
    /\ cursor'[stack[p]] <= Len(checkerCheckeeMap[stack[p]])
    /\ \A m \in 1..cursor'[stack[p]] :
         LET h == checkerCheckeeMap[stack[p]][m]
         IN  IsChecker(h) => \/ Listed(h)
                             \/ p < Len(stack) /\ stack[p + 1] = h
                             \/ p = Len(stack) /\ h = g /\ g \notin visited

(* A call that looks at its next checkee keeps Looked.                     *)
LEMMA VisitLooks ==
  ASSUME IInv, phase = "sort", NEW caller, NEW g,
         stack # <<>>, caller = Last(stack),
         g = checkerCheckeeMap[caller][cursor[caller] + 1],
         cursor[caller] + 1 \in 1..Len(checkerCheckeeMap[caller]),
         cursor' = [cursor EXCEPT ![caller] = cursor[caller] + 1]
  PROVE  /\ g \in Node /\ caller < g /\ ~Stacked(g)
         /\ MovedOnTo(g)
<1> USE DEF IInv
<1>1. /\ Len(stack) \in Nat \ {0}
      /\ caller \in Node /\ caller = stack[Len(stack)]
      /\ \A p \in 1..Len(stack) : stack[p] \in Node /\ stack[p] \in Nat
  BY LastAndFront, ElementOfSeq, NodeFacts DEF TypeOK
<1>2. cursor[caller] \in Nat /\ checkerCheckeeMap[caller] \in Seq(Node)
  BY <1>1 DEF TypeOK
<1>3. g \in Node /\ g \in Nat /\ caller \in Nat
  BY <1>1, <1>2, ElementOfSeq, NodeFacts
<1>4. caller < g
  BY <1>1 DEF BuildInv, Upward
<1>5. ~Stacked(g)
  <2>0. ToSet(stack) = {stack[q] : q \in 1..Len(stack)}
    BY MembersByPlace DEF TypeOK
  <2> SUFFICES ASSUME NEW q \in 1..Len(stack), g = stack[q] PROVE FALSE
    BY <2>0 DEF Stacked
  <2>1. CASE q = Len(stack)
    BY <1>1, <1>3, <1>4, <2>1
  <2>2. CASE q < Len(stack)
    <3>1. g < caller
      BY <1>1, <2>2 DEF SearchInv, Chain
    <3> QED
      BY <1>3, <1>4, <3>1
  <2> QED
    BY <1>1, <2>1, <2>2
<1>6. ASSUME NEW p \in 1..Len(stack)
      PROVE  /\ cursor'[stack[p]] <= Len(checkerCheckeeMap[stack[p]])
             /\ \A m \in 1..cursor'[stack[p]] :
                  LET h == checkerCheckeeMap[stack[p]][m]
                  IN  IsChecker(h) => \/ Listed(h)
                                      \/ p < Len(stack) /\ stack[p + 1] = h
                                      \/ p = Len(stack) /\ h = g /\ g \notin visited
  <2>1. CASE p < Len(stack)
    <3>1. stack[p] # caller
      <4>1. Len(stack) \in 1..Len(stack) /\ p # Len(stack)
        BY <1>1, <2>1
      <4> QED
        BY <1>1, <4>1, StackDistinct DEF SearchInv
    <3>2. cursor'[stack[p]] = cursor[stack[p]]
      BY <1>1, <3>1 DEF TypeOK
    <3> QED
      BY <2>1, <3>2 DEF SearchInv, Looked
  <2>2. CASE p = Len(stack)
    <3>1. cursor'[caller] = cursor[caller] + 1
      BY <1>1 DEF TypeOK
    <3>2. IsChecker(g) /\ g \in visited => Listed(g)
      BY <1>5 DEF SearchInv, Visits
    <3>3. ASSUME NEW m \in 1..(cursor[caller] + 1), IsChecker(checkerCheckeeMap[caller][m])
          PROVE  \/ Listed(checkerCheckeeMap[caller][m])
                 \/ checkerCheckeeMap[caller][m] = g /\ g \notin visited
      <4>1. CASE m = cursor[caller] + 1
        BY <3>2, <3>3, <4>1
      <4>2. CASE m \in 1..cursor[caller]
        <5>1. p \in 1..Len(stack) /\ ~(p < Len(stack)) /\ stack[p] = caller
          BY <1>1, <2>2
        <5> QED
          BY <3>3, <4>2, <5>1 DEF SearchInv, Looked
      <4> QED
        BY <1>2, <4>1, <4>2
    <3> QED
      BY <1>1, <2>2, <3>1, <3>3
  <2> QED
    BY <1>1, <2>1, <2>2
<1> QED
  BY <1>3, <1>4, <1>5, <1>6 DEF MovedOnTo

(* Looking at a checkee, with or without a call, preserves the invariant;  *)
(* a checkee that is no function is one of a call with more nodes.         *)
LEMMA VisitPreserves ==
  ASSUME IInv, VisitCheckee
  PROVE  Stages' /\ SearchInv'
<1> USE DEF IInv
<1>1. PICK caller, g :
        /\ stack # <<>> /\ caller = Last(stack)
        /\ g = checkerCheckeeMap[caller][cursor[caller] + 1]
        /\ cursor[caller] + 1 <= Len(checkerCheckeeMap[caller])
        /\ cursor' = [cursor EXCEPT ![caller] = cursor[caller] + 1]
        /\ g >= allFunctions => phase' = "undefined" /\ UNCHANGED <<visited, stack>>
        /\ ~(g >= allFunctions) =>
             /\ phase' = "sort"
             /\ g \in visited => UNCHANGED <<visited, stack>>
             /\ g \notin visited => Enter(g)
  BY DEF VisitCheckee
<1>2. SortStep /\ phase = "sort" /\ UNCHANGED list
  BY DEF VisitCheckee, SortStep
<1>3. /\ Len(stack) \in Nat \ {0}
      /\ caller \in Node /\ caller = stack[Len(stack)]
      /\ \A p \in 1..Len(stack) : stack[p] \in Node /\ stack[p] \in Nat
  BY <1>1, LastAndFront, ElementOfSeq, NodeFacts DEF TypeOK
<1>4. cursor[caller] + 1 \in 1..Len(checkerCheckeeMap[caller])
  <2>1. cursor[caller] \in Nat /\ checkerCheckeeMap[caller] \in Seq(Node)
    BY <1>3 DEF TypeOK
  <2>2. Len(checkerCheckeeMap[caller]) \in Nat
    BY <2>1, LenProperties
  <2> QED
    BY <1>1, <2>1, <2>2
<1>5. g \in Node /\ caller < g /\ ~Stacked(g) /\ MovedOnTo(g)
  BY <1>1, <1>2, <1>4, VisitLooks
<1>6. /\ UNCHANGED <<calls, checkerCheckeeMap, allFunctions, dumpMap>>
      /\ \A v \in Node : IsChecker(v)' <=> IsChecker(v)
      /\ dumpMap' = DumpMap(allFunctions)'
      /\ phase' = "sort" => Stages'
  BY <1>2, SortKeepsNetwork
<1>7. ListedOnce' /\ ToSet(list') = ToSet(list)
  BY <1>2 DEF SearchInv, ListedOnce
<1>8. caller \in visited
  <2>1. Stacked(caller)
    <3>1. ToSet(stack) = {stack[q] : q \in 1..Len(stack)}
      BY MembersByPlace DEF TypeOK
    <3> QED
      BY <1>3, <3>1 DEF Stacked
  <2> QED
    BY <1>3, <2>1 DEF SearchInv, Visits
<1>9. \A v \in Node : v # caller => cursor'[v] = cursor[v]
  BY <1>1, <1>3 DEF TypeOK
<1>10. CASE g >= allFunctions
  <2>1. UNCHANGED <<visited, stack>> /\ phase' = "undefined"
    BY <1>1, <1>10
  <2>2. \E k \in 1..Len(calls) : calls[k] > allFunctions
    <3>1. PICK k \in 1..Len(calls) : g < calls[k]
      BY <1>1, <1>3, <1>4 DEF BuildInv, Upward
    <3>2. calls[k] \in Nat /\ allFunctions \in Nat /\ g \in Nat
      BY <1>5, NodeFacts, ElementOfSeq DEF TypeOK
    <3>3. calls[k] > allFunctions
      BY <1>10, <3>1, <3>2
    <3> QED
      BY <3>3
  <2>3. Stages'
    BY <1>6, <2>1, <2>2 DEF Stages
  <2>4. Chain' /\ Looked'
    BY <2>1 DEF SearchInv, Chain, Looked
  <2>5. Visits'
    BY <1>6, <1>7, <1>8, <1>9, <2>1 DEF SearchInv, Visits, Listed, Stacked, IsChecker
  <2> QED
    BY <1>7, <2>3, <2>4, <2>5 DEF SearchInv
<1>11. CASE ~(g >= allFunctions) /\ (g \in visited \/ ~IsChecker(g))
  <2>1. /\ UNCHANGED <<stack, list>>
        /\ visited' = visited \cup {g} /\ phase' = "sort"
    BY <1>1, <1>2, <1>11 DEF Enter
  <2>2. Chain'
    BY <2>1 DEF SearchInv, Chain
  <2>3. Visits'
    BY <1>5, <1>6, <1>8, <1>9, <1>11, <2>1
       DEF SearchInv, Visits, Listed, Stacked, IsChecker
  <2>4. Looked'
    BY <1>5, <1>6, <1>11, <2>1 DEF MovedOnTo, Looked, IsChecker, Listed
  <2> QED
    BY <1>6, <1>7, <2>1, <2>2, <2>3, <2>4 DEF SearchInv
<1>12. CASE ~(g >= allFunctions) /\ g \notin visited /\ IsChecker(g)
  <2>1. /\ visited' = visited \cup {g} /\ stack' = Append(stack, g)
        /\ list' = list /\ phase' = "sort"
    BY <1>1, <1>2, <1>12 DEF Enter
  <2>2. /\ Len(stack') = Len(stack) + 1 /\ stack'[Len(stack) + 1] = g
        /\ \A p \in 1..Len(stack) : stack'[p] = stack[p]
        /\ ToSet(stack') = ToSet(stack) \cup {g}
    BY <1>5, <2>1, AppendFacts DEF TypeOK
  <2>3. \A p \in 1..(Len(stack) + 1) : p \in 1..Len(stack) \/ p = Len(stack) + 1
    BY <1>3
  <2>4. Chain'
    <3> SUFFICES ASSUME NEW p \in 1..(Len(stack) + 1), NEW q \in 1..(Len(stack) + 1),
                        p < q
                 PROVE  stack'[p] < stack'[q]
      BY <2>2 DEF Chain
    <3>1. p \in 1..Len(stack) /\ stack'[p] = stack[p]
      BY <1>3, <2>2
    <3>2. CASE q \in 1..Len(stack)
      BY <2>2, <3>1, <3>2 DEF SearchInv, Chain
    <3>3. CASE q = Len(stack) + 1
      <4>1. stack[p] <= caller
        <5>1. CASE p = Len(stack)
          BY <1>3, <5>1
        <5>2. CASE p < Len(stack)
          <6>1. stack[p] < caller
            BY <1>3, <3>1, <5>2 DEF SearchInv, Chain
          <6> QED
            BY <1>3, <3>1, <6>1
        <5> QED
          BY <1>3, <3>1, <5>1, <5>2
      <4>2. stack[p] \in Nat /\ caller \in Nat /\ g \in Nat
        BY <1>3, <1>5, <3>1, NodeFacts
      <4> QED
        BY <1>5, <2>2, <3>1, <3>3, <4>1, <4>2
    <3> QED
      BY <2>3, <3>2, <3>3
  <2>5. Visits'
    BY <1>5, <1>6, <1>7, <1>8, <1>9, <1>12, <2>1, <2>2
       DEF SearchInv, Visits, Listed, Stacked, IsChecker
  <2>6. ASSUME NEW p \in 1..(Len(stack) + 1)
        PROVE  /\ cursor'[stack'[p]] <= Len(checkerCheckeeMap[stack'[p]])
               /\ \A m \in 1..cursor'[stack'[p]] :
                    LET h == checkerCheckeeMap[stack'[p]][m]
                    IN  IsChecker(h) => \/ Listed(h)
                                        \/ p < Len(stack) + 1 /\ stack'[p + 1] = h
    <3>1. CASE p \in 1..Len(stack)
      <4>1. stack'[p] = stack[p]
        BY <2>2, <3>1
      <4>2. p < Len(stack) => stack'[p + 1] = stack[p + 1]
        BY <1>3, <2>2, <3>1
      <4>3. p = Len(stack) => stack'[p + 1] = g
        BY <2>2
      <4>4. p < Len(stack) + 1
        BY <1>3, <3>1
      <4> QED
        BY <1>5, <3>1, <4>1, <4>2, <4>3, <4>4 DEF MovedOnTo
    <3>2. CASE p = Len(stack) + 1
      <4>1. stack'[p] = g /\ cursor'[g] = 0
        BY <1>5, <1>8, <1>9, <1>12, <2>2, <3>2 DEF SearchInv, Visits
      <4>2. Len(checkerCheckeeMap[g]) \in Nat /\ 1..0 = {}
        BY <1>5, LenProperties DEF TypeOK
      <4> QED
        BY <4>1, <4>2
    <3> QED
      BY <2>3, <3>1, <3>2
  <2>7. Looked'
    <3>1. 1..Len(stack') = 1..(Len(stack) + 1) /\ \A p \in 1..Len(stack') :
            p < Len(stack) + 1 <=> p < Len(stack')
      BY <2>2
    <3> QED
      BY <1>6, <2>1, <2>6, <3>1 DEF Looked, IsChecker, Listed
  <2> QED
    BY <1>6, <1>7, <2>1, <2>4, <2>5, <2>7 DEF SearchInv
<1> QED
  BY <1>10, <1>11, <1>12

(* A call that lists its node and returns preserves the invariant, and has *)
(* all its checkers among the checkees listed before.                      *)
LEMMA ListPreserves ==
  ASSUME IInv, ListFunction
  PROVE  /\ Stages' /\ SearchInv'
         /\ Last(stack) \in Node /\ ~Listed(Last(stack)) /\ IsChecker(Last(stack))
         /\ \A i \in 1..Len(checkerCheckeeMap[Last(stack)]) :
              LET g == checkerCheckeeMap[Last(stack)][i]
              IN  IsChecker(g) => Listed(g)
<1> USE DEF IInv
<1>1. PICK t : /\ stack # <<>> /\ t = Last(stack)
               /\ cursor[t] >= Len(checkerCheckeeMap[t])
               /\ list' = Append(list, t)
               /\ stack' = Front(stack)
  BY DEF ListFunction
<1>2. SortStep /\ phase = "sort" /\ phase' = "sort" /\ UNCHANGED <<visited, cursor>>
  BY DEF ListFunction, SortStep
<1>3. /\ Len(stack) \in Nat \ {0}
      /\ t \in Node /\ t = stack[Len(stack)]
      /\ \A p \in 1..Len(stack) : stack[p] \in Node
      /\ stack' \in Seq(Node) /\ Len(stack') = Len(stack) - 1
      /\ \A p \in 1..(Len(stack) - 1) : stack'[p] = stack[p]
  BY <1>1, LastAndFront, ElementOfSeq DEF TypeOK
<1>4. /\ Len(list) \in Nat
      /\ Len(list') = Len(list) + 1 /\ list'[Len(list) + 1] = t
      /\ \A i \in 1..Len(list) : list'[i] = list[i]
      /\ ToSet(list') = ToSet(list) \cup {t}
      /\ ToSet(list) = {list[i] : i \in 1..Len(list)}
  <2>1. list \in Seq(Node) /\ t \in Node /\ list' = Append(list, t)
    BY <1>1, <1>3 DEF TypeOK
  <2>2. /\ Len(list) \in Nat
        /\ Len(list') = Len(list) + 1 /\ list'[Len(list) + 1] = t
        /\ \A i \in 1..Len(list) : list'[i] = list[i]
        /\ ToSet(list') = ToSet(list) \cup {t}
    BY <2>1, AppendFacts
  <2>3. ToSet(list) = {list[i] : i \in 1..Len(list)}
    BY <2>1, MembersByPlace
  <2> QED
    BY <2>2, <2>3
<1>5. /\ Stages' /\ checkerCheckeeMap' = checkerCheckeeMap
      /\ \A v \in Node : IsChecker(v)' <=> IsChecker(v)
  BY <1>2, SortKeepsNetwork
<1>6. /\ ToSet(stack) = {stack[p] : p \in 1..Len(stack)}
      /\ ToSet(stack') = {stack'[p] : p \in 1..(Len(stack) - 1)}
  BY <1>3, MembersByPlace DEF TypeOK
<1>7. Stacked(t) /\ ~Listed(t) /\ t \in visited /\ IsChecker(t)
  <2>1. Stacked(t)
    BY <1>3, <1>6 DEF Stacked
  <2> QED
    BY <1>3, <2>1 DEF SearchInv, Visits
<1>8. ToSet(stack') = ToSet(stack) \ {t}
  <2>1. \A p \in 1..Len(stack) : p = Len(stack) \/ p \in 1..(Len(stack) - 1)
    BY <1>3
  <2>2. ASSUME NEW p \in 1..(Len(stack) - 1)
        PROVE  p \in 1..Len(stack) /\ stack[p] # t
    <3>1. p \in 1..Len(stack) /\ Len(stack) \in 1..Len(stack) /\ p # Len(stack)
      BY <1>3
    <3> QED
      BY <1>3, <3>1, StackDistinct DEF SearchInv
  <2> QED
    BY <1>3, <1>6, <2>1, <2>2
<1>9. ASSUME NEW i \in 1..Len(checkerCheckeeMap[t]), IsChecker(checkerCheckeeMap[t][i])
      PROVE  Listed(checkerCheckeeMap[t][i])
  <2>1. i \in 1..cursor[t]
    <3>1. cursor[t] \in Nat /\ checkerCheckeeMap[t] \in Seq(Node)
      BY <1>3 DEF TypeOK
    <3>2. Len(checkerCheckeeMap[t]) \in Nat
      BY <3>1, LenProperties
    <3> QED
      BY <1>1, <3>1, <3>2
  <2>2. Len(stack) \in 1..Len(stack) /\ ~(Len(stack) < Len(stack))
    BY <1>3
  <2> QED
    BY <1>2, <1>3, <1>9, <2>1, <2>2 DEF SearchInv, Looked
<1>10. \A p \in 1..Len(stack') :
         p \in 1..Len(stack) /\ p \in 1..(Len(stack) - 1) /\ stack'[p] = stack[p]
  BY <1>3
<1>11. Chain'
  BY <1>10 DEF SearchInv, Chain
<1>12. Visits'
  BY <1>2, <1>4, <1>5, <1>7, <1>8 DEF SearchInv, Visits, Listed, Stacked, IsChecker
<1>13. Looked'
  <2>1. ASSUME NEW p \in 1..Len(stack')
        PROVE  /\ cursor[stack'[p]] <= Len(checkerCheckeeMap[stack'[p]])
               /\ \A m \in 1..cursor[stack'[p]] :
                    LET h == checkerCheckeeMap[stack'[p]][m]
                    IN  IsChecker(h) => \/ h \in ToSet(list')
                                        \/ p < Len(stack') /\ stack'[p + 1] = h
    <3>1. /\ p \in 1..Len(stack) /\ p < Len(stack) /\ stack'[p] = stack[p]
          /\ p < Len(stack') => stack'[p + 1] = stack[p + 1]
          /\ ~(p < Len(stack')) => stack[p + 1] = t
      BY <1>3
    <3>2. \A h : Listed(h) \/ h = t => h \in ToSet(list')
      BY <1>4 DEF Listed
    <3> QED
      BY <1>2, <3>1, <3>2 DEF SearchInv, Looked
  <2> QED
    BY <1>2, <1>5, <2>1 DEF Looked, IsChecker, Listed
<1>14. ListedOnce'
  <2>1. \A i \in 1..Len(list) : list[i] # t
    BY <1>4, <1>7 DEF Listed
  <2>2. \A i \in 1..(Len(list) + 1) : i \in 1..Len(list) \/ i = Len(list) + 1
    BY <1>4
  <2> QED
    BY <1>4, <2>1, <2>2 DEF SearchInv, ListedOnce
<1> QED
  BY <1>1, <1>3, <1>5, <1>7, <1>9, <1>11, <1>12, <1>13, <1>14 DEF SearchInv

(* The return of the sort preserves the invariant.                         *)
LEMMA ReturnPreserves ==
  ASSUME IInv, ReturnSort
  PROVE  Stages' /\ SearchInv'
<1> USE DEF IInv
<1>1. /\ phase = "sort" /\ phase' = "done" /\ stack = <<>> /\ SortStep
      /\ 0..(allFunctions - 1) \subseteq visited
      /\ UNCHANGED sortVars
  BY DEF ReturnSort, SortStep, sortVars
<1>2. UNCHANGED checkerCheckeeMap /\ dumpMap' = DumpMap(allFunctions)'
  BY <1>1, SortKeepsNetwork
<1>3. Stages'
  BY <1>1, <1>2 DEF Stages, sortVars
<1>4. SearchInv'
  BY <1>1, <1>2 DEF sortVars, SearchInv, Chain, Visits, Looked, ListedOnce,
     IsChecker, Listed, Stacked
<1> QED
  BY <1>3, <1>4

(* A step that changes nothing preserves the invariant.                    *)
LEMMA StutterPreserves ==
  ASSUME IInv, UNCHANGED vars
  PROVE  Stages' /\ SearchInv'
<1>1. UNCHANGED <<phase, calls, checkerCheckeeMap, allFunctions, dumpMap, visited,
                  stack, cursor, list>>
  BY DEF vars, buildVars, sortVars
<1>2. DumpMap(allFunctions)' = DumpMap(allFunctions)
  BY <1>1 DEF DumpMap, IsChecker
<1>3. Stages'
  BY <1>1, <1>2 DEF IInv, Stages
<1>4. SearchInv'
  BY <1>1 DEF IInv, SearchInv, Chain, Visits, Looked, ListedOnce, IsChecker, Listed,
     Stacked
<1> QED
  BY <1>3, <1>4

(* The initial states satisfy the invariant.                               *)
LEMMA InvInit == Init => IInv
<1> SUFFICES ASSUME Init PROVE IInv
  OBVIOUS
<1>1. NothingYet
  BY DEF Init, NothingYet
<1>2. Stages
  BY <1>1 DEF Init, Stages, NothingYet
<1> QED
  BY <1>1, <1>2, TypeInit, BuildInit, NothingSearched DEF IInv

(* Each action preserves the invariant.                                    *)
LEMMA InvNext == IInv /\ [Next]_vars => IInv'
<1> SUFFICES ASSUME IInv, [Next]_vars PROVE IInv'
  OBVIOUS
<1>1. TypeOK' /\ BuildInv'
  BY TypeNext, BuildNext DEF IInv, BuildInv
<1>2. Stages' /\ SearchInv'
  <2>1. ASSUME NEW t \in 0..MaxNodes, NEW d \in Levels, ConstructAcyclicCheckers(t, d)
        PROVE  Stages' /\ SearchInv'
    BY <2>1, BuildStepSearches DEF ConstructAcyclicCheckers
  <2>2. ASSUME NEW n \in 0..MaxNodes, MapCheckersOnFunctions(n)
        PROVE  Stages' /\ SearchInv'
    BY <2>2, MapSearches
  <2>3. CASE Construct
    BY <2>3, BuildStepSearches
       DEF Construct, NewRank, ConnectNode, EndRank, ReturnNetwork
  <2>4. ASSUME NEW v \in Node, SortFrom(v)
        PROVE  Stages' /\ SearchInv'
    BY <2>4, SortFromPreserves
  <2>5. CASE VisitCheckee
    BY <2>5, VisitPreserves
  <2>6. CASE ListFunction
    BY <2>6, ListPreserves
  <2>7. CASE ReturnSort
    BY <2>7, ReturnPreserves
  <2>8. CASE UNCHANGED vars
    BY <2>8, StutterPreserves
  <2> QED
    BY <2>1, <2>2, <2>3, <2>4, <2>5, <2>6, <2>7, <2>8 DEF Next, Sort
<1> QED
  BY <1>1, <1>2 DEF IInv

(* The inductive invariant holds in every state.                           *)
THEOREM Invariance == Spec => []IInv
BY InvInit, InvNext, PTL DEF Spec

-----------------------------------------------------------------------------
(* The list of the sort                                                    *)

Mapped == \A i \in 1..Len(calls) : calls[i] <= allFunctions

(* With a function for each node, checkers and checkees have one.          *)
LEMMA CheckersMapped ==
  ASSUME IInv, Mapped
  PROVE  \A v \in Node : IsChecker(v) =>
           /\ v < allFunctions
           /\ \A i \in 1..Len(checkerCheckeeMap[v]) :
                /\ checkerCheckeeMap[v][i] \in Node
                /\ checkerCheckeeMap[v][i] < allFunctions
<1> SUFFICES ASSUME NEW v \in Node, IsChecker(v)
             PROVE  /\ v < allFunctions
                    /\ \A i \in 1..Len(checkerCheckeeMap[v]) :
                         /\ checkerCheckeeMap[v][i] \in Node
                         /\ checkerCheckeeMap[v][i] < allFunctions
  OBVIOUS
<1>1. /\ checkerCheckeeMap[v] \in Seq(Node) /\ checkerCheckeeMap[v] # <<>>
      /\ v \in Nat /\ allFunctions \in Nat
      /\ calls \in Seq(0..MaxNodes)
  BY NodeFacts DEF IInv, TypeOK, IsChecker
<1>2. \A k \in 1..Len(calls) : calls[k] \in Nat /\ calls[k] <= allFunctions
  BY <1>1, ElementOfSeq, NodeFacts DEF Mapped
<1>3. \A i \in 1..Len(checkerCheckeeMap[v]) :
        checkerCheckeeMap[v][i] \in Node /\ checkerCheckeeMap[v][i] \in Nat
  BY <1>1, ElementOfSeq, NodeFacts
<1>4. ASSUME NEW i \in 1..Len(checkerCheckeeMap[v])
      PROVE  v < checkerCheckeeMap[v][i] /\ checkerCheckeeMap[v][i] < allFunctions
  <2>1. PICK k \in 1..Len(calls) : checkerCheckeeMap[v][i] < calls[k]
    BY DEF IInv, BuildInv, Upward
  <2>2. v < checkerCheckeeMap[v][i]
    BY DEF IInv, BuildInv, Upward
  <2> QED
    BY <1>1, <1>2, <1>3, <2>1, <2>2
<1>5. v < allFunctions
  <2>1. 1 \in 1..Len(checkerCheckeeMap[v])
    BY <1>1, EmptyMembers
  <2>2. /\ v < checkerCheckeeMap[v][1] /\ checkerCheckeeMap[v][1] < allFunctions
        /\ checkerCheckeeMap[v][1] \in Nat
    BY <1>3, <1>4, <2>1
  <2> QED
    BY <1>1, <2>2
<1> QED
  BY <1>3, <1>4, <1>5

(* The map on functions is then the network.                               *)
LEMMA MapIsNetwork ==
  ASSUME IInv, Mapped
  PROVE  /\ DumpMap(allFunctions)[NoFunc] = <<>>
         /\ \A v \in Node : DumpMap(allFunctions)[v] = checkerCheckeeMap[v]
<1>1. NoFunc \notin Node /\ NoFunc \in Pointer /\ Node \subseteq Pointer
  BY NodeFacts DEF NoFunc, Pointer
<1>2. \A v \in Node : IsChecker(v) => Function(v, allFunctions) = v
  BY CheckersMapped DEF Function
<1>3. \A p \in Pointer :
        DumpMap(allFunctions)[p] =
          IF NodesOf(p, allFunctions) = {} THEN <<>>
          ELSE [i \in DOMAIN checkerCheckeeMap[Max(NodesOf(p, allFunctions))] |->
                  Function(checkerCheckeeMap[Max(NodesOf(p, allFunctions))][i],
                           allFunctions)]
  BY DEF DumpMap, NodesOf
<1>4. NodesOf(NoFunc, allFunctions) = {}
  BY <1>1, <1>2 DEF NodesOf
<1>5. ASSUME NEW v \in Node, ~IsChecker(v)
      PROVE  DumpMap(allFunctions)[v] = checkerCheckeeMap[v]
  <2>1. NodesOf(v, allFunctions) = {}
    BY <1>2, <1>5 DEF NodesOf
  <2> QED
    BY <1>1, <1>3, <1>5, <2>1 DEF IsChecker
<1>6. ASSUME NEW v \in Node, IsChecker(v)
      PROVE  DumpMap(allFunctions)[v] = checkerCheckeeMap[v]
  <2>1. NodesOf(v, allFunctions) = {v}
    BY <1>2, <1>6 DEF NodesOf
  <2>2. Max(NodesOf(v, allFunctions)) = v
    BY <2>1, LastNodeOf
  <2>3. /\ checkerCheckeeMap[v] \in Seq(Node)
        /\ DOMAIN checkerCheckeeMap[v] = 1..Len(checkerCheckeeMap[v])
        /\ checkerCheckeeMap[v] = [i \in 1..Len(checkerCheckeeMap[v]) |->
                                     checkerCheckeeMap[v][i]]
    BY LenProperties DEF IInv, TypeOK
  <2>4. \A i \in 1..Len(checkerCheckeeMap[v]) :
          Function(checkerCheckeeMap[v][i], allFunctions) = checkerCheckeeMap[v][i]
    BY <1>6, CheckersMapped DEF Function
  <2>5. DumpMap(allFunctions)[v] =
          [i \in 1..Len(checkerCheckeeMap[v]) |->
             Function(checkerCheckeeMap[v][i], allFunctions)]
    <3>1. v \in Pointer /\ NodesOf(v, allFunctions) # {}
      BY <1>1, <2>1
    <3>2. DumpMap(allFunctions)[v] =
            [i \in DOMAIN checkerCheckeeMap[v] |->
               Function(checkerCheckeeMap[v][i], allFunctions)]
      BY <1>3, <2>2, <3>1, Zenon
    <3> QED
      BY <2>3, <3>2, Zenon
  <2> QED
    BY <2>3, <2>4, <2>5
<1> QED
  BY <1>1, <1>3, <1>4, <1>5, <1>6

(* A finished sort has listed each checker once.                           *)
LEMMA ListComplete ==
  ASSUME IInv, Mapped, phase = "done"
  PROVE  /\ Len(list) = Cardinality(ToSet(list))
         /\ \A v \in Node : v \in ToSet(list) <=> IsChecker(v)
         /\ ToSet(list) \subseteq Node
<1>1. list \in Seq(Node) /\ ToSet(list) \subseteq Node
  <2>1. list \in Seq(Node)
    BY DEF IInv, TypeOK
  <2> QED
    BY <2>1, MembersByPlace, ElementOfSeq
<1>2. Len(list) = Cardinality(ToSet(list))
  BY <1>1, DistinctCount DEF IInv, SearchInv, ListedOnce
<1>3. stack = <<>> /\ 0..(allFunctions - 1) \subseteq visited
  BY DEF IInv, Stages
<1>4. \A v \in Node : ~Stacked(v)
  BY <1>3, EmptyMembers DEF Stacked
<1>5. \A v \in Node : IsChecker(v) => v \in visited
  BY <1>3, CheckersMapped, NodeFacts DEF IInv, TypeOK
<1> QED
  BY <1>1, <1>2, <1>4, <1>5 DEF IInv, SearchInv, Visits, Listed

(* The invariant says that the sort is complete.                           *)
LEMMA SortOfInvariant == IInv => SortsAllCheckers
<1> SUFFICES ASSUME IInv, Mapped
             PROVE  /\ phase # "undefined"
                    /\ phase = "done" =>
                         /\ Len(list) = Cardinality(ToSet(list))
                         /\ ToSet(list) = {p \in Pointer : dumpMap[p] # <<>>}
                         /\ Edges = {e \in Pointer \X Pointer :
                                       e[2] \in ToSet(dumpMap[e[1]])}
  BY DEF SortsAllCheckers, Mapped
<1>1. phase # "undefined"
  <2>1. /\ allFunctions \in 0..MaxNodes
        /\ \A k \in 1..Len(calls) : calls[k] \in 0..MaxNodes
    BY ElementOfSeq DEF IInv, TypeOK
  <2> QED
    BY <2>1 DEF Mapped, IInv, Stages
<1>2. ASSUME phase = "done"
      PROVE  /\ Len(list) = Cardinality(ToSet(list))
             /\ ToSet(list) = {p \in Pointer : dumpMap[p] # <<>>}
             /\ Edges = {e \in Pointer \X Pointer : e[2] \in ToSet(dumpMap[e[1]])}
  <2>1. /\ dumpMap[NoFunc] = <<>>
        /\ \A v \in Node : dumpMap[v] = checkerCheckeeMap[v]
    BY <1>2, MapIsNetwork DEF IInv, Stages
  <2>2. Len(list) = Cardinality(ToSet(list))
    BY <1>2, ListComplete
  <2>3. ToSet(list) = {p \in Pointer : dumpMap[p] # <<>>}
    BY <1>2, <2>1, ListComplete DEF Pointer, IsChecker
  <2>4. ToSet(<<>>) = {} /\ \A v \in Node : ToSet(checkerCheckeeMap[v]) \subseteq Node
    <3>1. \A v \in Node : checkerCheckeeMap[v] \in Seq(Node)
      BY DEF IInv, TypeOK
    <3> QED
      BY <3>1, EmptyMembers, MembersByPlace, ElementOfSeq
  <2>5. Edges = {e \in Pointer \X Pointer : e[2] \in ToSet(dumpMap[e[1]])}
    BY <2>1, <2>4 DEF Edges, Pointer
  <2> QED
    BY <2>2, <2>3, <2>5
<1> QED
  BY <1>1, <1>2

(* mapCheckersOnFunctions with a function for each node reads no bit       *)
(* outside of visited and returns each checker of the network once, with   *)
(* all its checkees: no edge of any call is lost.                          *)
THEOREM SortComplete == Spec => []SortsAllCheckers
BY Invariance, SortOfInvariant, PTL

-----------------------------------------------------------------------------
(* The class implements CheckerGraph                                       *)

(* A relation on nodes that only goes up has no cycle.                     *)
LEMMA UpwardAcyclic ==
  ASSUME NEW R, \A v, w \in Node : <<v, w>> \in R => v < w
  PROVE  Graph!Acyclic(R)
<1> SUFFICES ASSUME NEW S \in SUBSET Node, S # {}
             PROVE  \E c \in S : \A f \in S : <<c, f>> \notin R
  BY DEF Graph!Acyclic
<1>1. Max(S) \in S /\ \A v \in S : Max(S) >= v
  BY GreatestMember
<1> DEFINE m == Max(S)
<1>2. m \in S /\ \A f \in S : m >= f
  BY <1>1
<1> HIDE DEF m
<1>3. ASSUME NEW f \in S
      PROVE  <<m, f>> \notin R
  <2>1. m \in Node /\ f \in Node /\ m \in Nat /\ f \in Nat /\ ~(m < f)
    BY <1>2, NodeFacts
  <2> QED
    BY <2>1
<1> QED
  BY <1>2, <1>3

(* The members of an entry are nodes.                                      *)
LEMMA EntryMembers ==
  ASSUME TypeOK
  PROVE  \A v \in Node :
           /\ checkerCheckeeMap[v] \in Seq(Node)
           /\ ToSet(checkerCheckeeMap[v]) \subseteq Node
           /\ ToSet(checkerCheckeeMap[v]) =
                {checkerCheckeeMap[v][i] : i \in 1..Len(checkerCheckeeMap[v])}
<1>1. \A v \in Node : checkerCheckeeMap[v] \in Seq(Node)
  BY DEF TypeOK
<1> QED
  BY <1>1, MembersByPlace, ElementOfSeq

(* The edges of a network that goes up go up.                              *)
EdgesAscend == \A v, w \in Node : <<v, w>> \in Edges => v < w

LEMMA EdgesUpward == TypeOK /\ Upward => EdgesAscend
<1> SUFFICES ASSUME TypeOK, Upward,
                    NEW v \in Node, NEW w \in Node, <<v, w>> \in Edges
             PROVE  v < w
  BY DEF EdgesAscend
<1>1. w \in ToSet(checkerCheckeeMap[v])
  BY DEF Edges
<1>2. PICK i \in 1..Len(checkerCheckeeMap[v]) : checkerCheckeeMap[v][i] = w
  BY <1>1, EntryMembers
<1> QED
  BY <1>2 DEF Upward

(* A turn of the inner loop makes its node a checker of what is pushed.    *)
LEMMA ConnectEmploys ==
  ASSUME IInv, ConnectNode
  PROVE  \E f \in Node, S \in SUBSET Node : Graph!Employ(f, S)
<1> USE DEF IInv
<1>1. TypeOK' /\ Upward'
  <2>1. [Next]_vars
    BY DEF Next, Construct
  <2> QED
    BY <2>1, TypeNext, BuildNext DEF BuildInv
<1>2. PICK v \in Node : v = j
  BY EntryExtended DEF BuildInv
<1> DEFINE old == checkerCheckeeMap[v]
           new == checkerCheckeeMap'[v]
           S   == ToSet(new)
<1>3. /\ new \in Seq(Node) /\ Len(old) <= Len(new)
      /\ \A i \in 1..Len(old) : new[i] = old[i]
      /\ \A w \in Node : w # v => checkerCheckeeMap'[w] = checkerCheckeeMap[w]
  BY <1>2, EntryExtended DEF Extends, BuildInv
<1>4. /\ ToSet(old) = {old[i] : i \in 1..Len(old)} /\ Len(old) \in Nat
      /\ S = {new[i] : i \in 1..Len(new)} /\ Len(new) \in Nat
      /\ S \in SUBSET Node
  <2>1. old \in Seq(Node) /\ ToSet(old) = {old[i] : i \in 1..Len(old)}
    BY EntryMembers
  <2> QED
    BY <1>3, <2>1, MembersByPlace, ElementOfSeq, LenProperties
<1>5. ToSet(old) \subseteq S
  <2>1. \A i \in 1..Len(old) : i \in 1..Len(new)
    BY <1>3, <1>4
  <2> QED
    BY <1>3, <1>4, <2>1
<1> HIDE DEF S
<1>6. Edges' = Edges \cup ({v} \X S)
  <2>1. Edges' = {e \in Node \X Node : e[2] \in ToSet(checkerCheckeeMap'[e[1]])}
    BY DEF Edges
  <2>2. \A w \in Node : ToSet(checkerCheckeeMap'[w]) =
                          IF w = v THEN S ELSE ToSet(checkerCheckeeMap[w])
    BY <1>3 DEF S
  <2> QED
    BY <1>4, <1>5, <2>1, <2>2 DEF Edges
<1>7. Graph!Acyclic(Edges')
  <2>1. EdgesAscend'
    BY <1>1, EdgesUpward, PTL
  <2> QED
    BY <2>1, UpwardAcyclic DEF EdgesAscend
<1>8. list = <<>> /\ list' = list
  BY DEF ConnectNode, Stages, sortVars
<1>9. Graph!Employ(v, S)
  BY <1>6, <1>7, <1>8 DEF Graph!Employ
<1> QED
  BY <1>4, <1>9

(* Listing a node is a step Schedule of CheckerGraph.                      *)
LEMMA ListSchedules ==
  ASSUME IInv, ListFunction
  PROVE  \E c \in Node : Graph!Schedule(c)
<1> DEFINE t == Last(stack)
<1> USE DEF IInv
<1>1. list' = Append(list, t) /\ UNCHANGED checkerCheckeeMap
  BY DEF ListFunction, buildVars
<1>2. /\ t \in Node /\ ~Listed(t) /\ IsChecker(t)
      /\ \A i \in 1..Len(checkerCheckeeMap[t]) :
           IsChecker(checkerCheckeeMap[t][i]) => Listed(checkerCheckeeMap[t][i])
  BY ListPreserves
<1> HIDE DEF t
<1>3. \A c, f \in Node : <<c, f>> \in Edges <=> f \in ToSet(checkerCheckeeMap[c])
  BY DEF Edges
<1>4. \A c \in Node : c \in Graph!CheckerSet <=> IsChecker(c)
  <2>1. ASSUME NEW c \in Node, IsChecker(c)
        PROVE  c \in Graph!CheckerSet
    <3>1. 1 \in 1..Len(checkerCheckeeMap[c]) /\ checkerCheckeeMap[c][1] \in Node
      BY <2>1, EmptyMembers, EntryMembers DEF IsChecker
    <3>2. checkerCheckeeMap[c][1] \in ToSet(checkerCheckeeMap[c])
      BY <3>1, EntryMembers
    <3> QED
      BY <1>3, <3>1, <3>2 DEF Graph!CheckerSet, Graph!Checkees
  <2>2. ASSUME NEW c \in Node, c \in Graph!CheckerSet
        PROVE  IsChecker(c)
    BY <1>3, <2>2, EmptyMembers DEF Graph!CheckerSet, Graph!Checkees, IsChecker
  <2> QED
    BY <2>1, <2>2
<1>5. Graph!Scheduled = ToSet(list)
  <2>1. list \in Seq(Node)
    BY DEF TypeOK
  <2> QED
    BY <2>1, MembersByPlace DEF Graph!Scheduled
<1>6. t \in Graph!CheckerSet \ Graph!Scheduled
  BY <1>2, <1>4, <1>5 DEF Listed
<1>7. Graph!Checkees(t) \cap Graph!CheckerSet \subseteq Graph!Scheduled
  <2> SUFFICES ASSUME NEW f \in Node, f \in ToSet(checkerCheckeeMap[t]), IsChecker(f)
               PROVE  f \in ToSet(list)
    BY <1>2, <1>3, <1>4, <1>5 DEF Graph!Checkees
  <2>1. PICK i \in 1..Len(checkerCheckeeMap[t]) : checkerCheckeeMap[t][i] = f
    BY <1>2, EntryMembers
  <2> QED
    BY <1>2, <2>1 DEF Listed
<1>8. Graph!Schedule(t)
  BY <1>1, <1>6, <1>7 DEF Graph!Schedule, Edges
<1> QED
  BY <1>2, <1>8

(* An initial state is one of CheckerGraph.                                *)
LEMMA GraphInit == Init => Graph!Init
BY EmptyMembers DEF Init, Graph!Init, Edges

(* Each step is one of CheckerGraph, or changes neither edges nor order;   *)
(* what a sort starts with is the list that is empty already.              *)
LEMMA GraphNext == IInv /\ [Next]_vars => [Graph!Next]_<<Edges, list>>
<1> SUFFICES ASSUME IInv, [Next]_vars
             PROVE  Graph!Next \/ UNCHANGED <<Edges, list>>
  OBVIOUS
<1>1. CASE UNCHANGED <<checkerCheckeeMap, list>>
  BY <1>1 DEF Edges
<1>2. CASE ConnectNode
  BY <1>2, ConnectEmploys DEF Graph!Next
<1>3. CASE ListFunction
  BY <1>3, ListSchedules DEF Graph!Next
<1>4. ASSUME NEW n \in 0..MaxNodes, MapCheckersOnFunctions(n)
      PROVE  UNCHANGED <<checkerCheckeeMap, list>>
  BY <1>4 DEF MapCheckersOnFunctions, buildVars, IInv, Stages
<1>5. ASSUME NEW t \in 0..MaxNodes, NEW d \in Levels, ConstructAcyclicCheckers(t, d)
      PROVE  UNCHANGED <<checkerCheckeeMap, list>>
  BY <1>5 DEF ConstructAcyclicCheckers, sortVars
<1>6. CASE Construct /\ ~ConnectNode
  BY <1>1, <1>6 DEF Construct, NewRank, EndRank, ReturnNetwork, buildVars, sortVars
<1>7. CASE Sort /\ ~ListFunction
  BY <1>1, <1>7 DEF Sort, SortFrom, VisitCheckee, ReturnSort, buildVars, sortVars
<1>8. CASE UNCHANGED vars
  BY <1>1, <1>8 DEF vars, buildVars, sortVars
<1> QED
  BY <1>1, <1>2, <1>3, <1>4, <1>5, <1>6, <1>7, <1>8 DEF Next

(* Over any number of calls the class keeps the promise of CheckerGraph:   *)
(* no call closes a cycle, even with the edges of the calls before it, and *)
(* each checker is listed once, after the checkers it checks.              *)
THEOREM Refinement == Spec => ImplementsGraph
<1>1. Spec => Graph!Init /\ [][Graph!Next]_<<Edges, list>>
  BY GraphInit, GraphNext, Invariance, PTL DEF Spec
<1> QED
  BY <1>1 DEF ImplementsGraph, Graph!Spec, Graph!gvars


-----------------------------------------------------------------------------
(* A call gets on                                                          *)

(* Ahead gets less where it first changes.                                 *)
LEMMA NearerAt ==
  ASSUME NEW i \in 1..4, Ahead'[i] \in 0..(Ahead[i] - 1),
         \A k \in 1..(i - 1) : Ahead'[k] = Ahead[k]
  PROVE  Nearer(Ahead', Ahead)
<1>1. Len(Ahead) = 4
  BY DEF Ahead
<1> QED
  BY <1>1 DEF Nearer

(* The return of a call.                                                   *)
LEMMA CallEnds ==
  ASSUME phase \in {"rank", "connect", "sort"}, phase' \in {"idle", "done", "undefined"}
  PROVE  Nearer(Ahead', Ahead)
<1>1. Ahead'[1] = 0 /\ Ahead[1] = 1
  BY DEF Ahead
<1> QED
  BY <1>1, NearerAt

(* No rank is empty, and each turn of one takes the next node.             *)
LEMMA ConstructShortens == TypeOK /\ Ranks /\ Construct => Nearer(Ahead', Ahead)
<1> SUFFICES ASSUME TypeOK, Ranks, Construct PROVE Nearer(Ahead', Ahead)
  OBVIOUS
<1>1. nodes \in Nat /\ newNodes \in Nat /\ j \in Nat
  BY NodeFacts DEF TypeOK
<1>2. CASE NewRank
  <2>1. /\ phase = "rank" /\ phase' = "connect" /\ UNCHANGED <<calls, nodes>>
        /\ j' = 0
    BY <1>2 DEF NewRank
  <2>2. /\ Ahead'[1] = Ahead[1] /\ Ahead'[2] = Ahead[2]
        /\ Ahead[3] = nodes + 1 /\ Ahead'[3] = nodes - 0
    BY <2>1 DEF Ahead, total
  <2>3. Ahead'[3] \in 0..(Ahead[3] - 1)
    BY <1>1, <2>2
  <2> QED
    BY <2>2, <2>3, NearerAt
<1>3. CASE ConnectNode
  <2>1. /\ phase = "connect" /\ UNCHANGED <<phase, calls, nodes>>
        /\ j < nodes /\ j' = j + 1
    BY <1>3 DEF ConnectNode
  <2>2. /\ Ahead'[1] = Ahead[1] /\ Ahead'[2] = Ahead[2]
        /\ Ahead[3] = nodes - j /\ Ahead'[3] = nodes - (j + 1)
    BY <2>1 DEF Ahead, total
  <2>3. Ahead'[3] \in 0..(Ahead[3] - 1)
    BY <1>1, <2>1, <2>2
  <2> QED
    BY <2>2, <2>3, NearerAt
<1>4. CASE EndRank
  <2>1. /\ phase = "connect" /\ phase' = "rank" /\ UNCHANGED calls
        /\ nodes' = nodes + newNodes
    BY <1>4 DEF EndRank
  <2>2. calls # <<>> /\ newNodes >= 1 /\ nodes + newNodes <= total
    BY <2>1 DEF Ranks
  <2>3. total \in Nat
    BY <2>2, TotalType, NodeFacts
  <2>4. Ahead[1] = 1 /\ Ahead[2] = total - nodes
    BY <2>1 DEF Ahead
  <2>5. Ahead'[1] = 1 /\ Ahead'[2] = total - (nodes + newNodes)
    BY <2>1 DEF Ahead, total
  <2>6. total - (nodes + newNodes) \in 0..(total - nodes - 1)
    BY <1>1, <2>2, <2>3
  <2>7. Ahead'[2] \in 0..(Ahead[2] - 1) /\ Ahead'[1] = Ahead[1]
    BY <2>4, <2>5, <2>6
  <2> QED
    BY <2>7, NearerAt
<1>5. CASE ReturnNetwork
  BY <1>5, CallEnds DEF ReturnNetwork
<1> QED
  BY <1>2, <1>3, <1>4, <1>5 DEF Construct

(* A node entered for the first time is one less to visit.                 *)
LEMMA EnterShortens ==
  ASSUME TypeOK, phase = "sort", UNCHANGED phase, NEW v \in Node \ visited, Enter(v)
  PROVE  Nearer(Ahead', Ahead)
<1> DEFINE S == Node \ visited
           T == Node \ visited'
<1>1. Ahead[1] = 1 /\ Ahead'[1] = 1 /\ Ahead[2] = Cardinality(S) /\ Ahead'[2] = Cardinality(T)
  BY DEF Ahead
<1>2. T \subseteq S /\ v \in S /\ v \notin T
  BY DEF Enter
<1>3. IsFiniteSet(S)
  <2>1. IsFiniteSet(Node)
    BY FS_Interval, NodeFacts DEF Node
  <2> QED
    BY <2>1, FS_Subset
<1> HIDE DEF S, T
<1>4. Cardinality(T) \in Nat /\ Cardinality(S) \in Nat /\ Cardinality(T) < Cardinality(S)
  BY <1>2, <1>3, FS_Subset, FS_CardinalityType
<1>5. Ahead'[2] \in 0..(Ahead[2] - 1) /\ Ahead'[1] = Ahead[1]
  BY <1>1, <1>4
<1> QED
  BY <1>5, NearerAt

(* A checkee that is entered is one less to visit; one that is passed over *)
(* is one less for the innermost call; one outside of visited ends it.     *)
LEMMA VisitShortens == TypeOK /\ VisitCheckee => Nearer(Ahead', Ahead)
<1> SUFFICES ASSUME TypeOK, VisitCheckee PROVE Nearer(Ahead', Ahead)
  OBVIOUS
<1> DEFINE t == Last(stack)
           n == cursor[t] + 1
           g == checkerCheckeeMap[t][n]
<1>1. /\ phase = "sort" /\ stack # <<>>
      /\ n <= Len(checkerCheckeeMap[t]) /\ cursor' = [cursor EXCEPT ![t] = n]
      /\ checkerCheckeeMap' = checkerCheckeeMap
      /\ IF g >= allFunctions
         THEN phase' = "undefined" /\ UNCHANGED <<visited, stack>>
         ELSE /\ IF g \in visited THEN UNCHANGED <<visited, stack>> ELSE Enter(g)
              /\ UNCHANGED phase
  BY DEF VisitCheckee, buildVars
<1>2. t \in Node
  BY <1>1, LastAndFront DEF TypeOK
<1>3. cursor[t] \in Nat /\ cursor'[t] = n /\ Len(checkerCheckeeMap[t]) \in Nat /\ g \in Node
  BY <1>1, <1>2, LenProperties, ElementOfSeq DEF TypeOK
<1>4. CASE g >= allFunctions
  BY <1>1, <1>4, CallEnds
<1>5. CASE ~(g >= allFunctions) /\ g \notin visited
  BY <1>1, <1>3, <1>5, EnterShortens
<1>6. CASE ~(g >= allFunctions) /\ g \in visited
  <2>1. UNCHANGED <<phase, visited, stack>>
    BY <1>1, <1>6
  <2>2. Ahead'[1] = Ahead[1] /\ Ahead'[2] = Ahead[2] /\ Ahead'[3] = Ahead[3]
    BY <1>1, <2>1 DEF Ahead
  <2>3. /\ Ahead[4] = Len(checkerCheckeeMap[t]) - cursor[t]
        /\ Ahead'[4] = Len(checkerCheckeeMap[t]) - n
    BY <1>1, <1>3, <2>1 DEF Ahead
  <2>4. Ahead'[4] \in 0..(Ahead[4] - 1)
    BY <1>1, <1>3, <2>3
  <2> QED
    BY <2>2, <2>4, NearerAt
<1> QED
  BY <1>4, <1>5, <1>6

(* The search of getReverseTopologicalSort: it enters no node twice.       *)
LEMMA SortShortens == TypeOK /\ Sort => Nearer(Ahead', Ahead)
<1> SUFFICES ASSUME TypeOK, Sort PROVE Nearer(Ahead', Ahead)
  OBVIOUS
<1>1. ASSUME NEW v \in Node, SortFrom(v)
      PROVE  Nearer(Ahead', Ahead)
  BY <1>1, EnterShortens DEF SortFrom
<1>2. CASE VisitCheckee
  BY <1>2, VisitShortens
<1>3. CASE ListFunction
  <2>1. /\ phase = "sort" /\ UNCHANGED <<phase, visited>> /\ stack # <<>>
        /\ stack' = Front(stack)
    BY <1>3 DEF ListFunction
  <2>2. Len(stack) \in Nat \ {0} /\ Len(stack') = Len(stack) - 1
    BY <2>1, LastAndFront DEF TypeOK
  <2>3. /\ Ahead'[1] = Ahead[1] /\ Ahead'[2] = Ahead[2]
        /\ Ahead[3] = Len(stack) /\ Ahead'[3] = Len(stack')
    BY <2>1 DEF Ahead
  <2>4. Ahead'[3] \in 0..(Ahead[3] - 1)
    BY <2>2, <2>3
  <2> QED
    BY <2>3, <2>4, NearerAt
<1>4. CASE ReturnSort
  BY <1>4, CallEnds DEF ReturnSort
<1> QED
  BY <1>1, <1>2, <1>3, <1>4 DEF Sort

(* Each step of the construction and of the sort brings the call nearer to *)
(* its end.                                                                *)
THEOREM Shortening == Spec => CallsShorten
<1>1. TypeOK /\ Ranks /\ [Next]_vars => [Construct \/ Sort => Nearer(Ahead', Ahead)]_vars
  BY ConstructShortens, SortShortens
<1>2. TypeOK /\ BuildInv => TypeOK /\ Ranks
  BY DEF BuildInv
<1> QED
  BY <1>1, <1>2, BuildInvariance, PTL DEF Spec, CallsShorten


(* What a call has ahead is counted in whole numbers.                      *)
LEMMA CountsAhead == TypeOK /\ Ranks => Ahead \in [1..4 -> Int]
<1> SUFFICES ASSUME TypeOK, Ranks PROVE Ahead \in [1..4 -> Int]
  OBVIOUS
<1>1. nodes \in Int /\ j \in Int
  BY NodeFacts DEF TypeOK
<1>2. CASE phase \in {"rank", "connect"}
  <2>1. total \in Int
    BY <1>2, TotalType, NodeFacts DEF Ranks
  <2>2. total - nodes \in Int /\ nodes + 1 \in Int /\ nodes - j \in Int
    BY <1>1, <2>1
  <2> QED
    BY <1>2, <2>2 DEF Ahead
<1>3. CASE phase = "sort"
  <2> DEFINE checkees == IF stack = <<>> THEN 0
                         ELSE Len(checkerCheckeeMap[Last(stack)]) - cursor[Last(stack)]
  <2>1. Cardinality(Node \ visited) \in Int
    <3>1. IsFiniteSet(Node)
      BY FS_Interval, NodeFacts DEF Node
    <3> QED
      BY <3>1, FS_Subset, FS_CardinalityType
  <2>2. Len(stack) \in Int
    BY LenProperties DEF TypeOK
  <2>3. checkees \in Int
    <3>1. CASE stack # <<>>
      <4>1. Last(stack) \in Node
        BY <3>1, LastAndFront DEF TypeOK
      <4>2. cursor[Last(stack)] \in Nat /\ checkerCheckeeMap[Last(stack)] \in Seq(Node)
        BY <4>1 DEF TypeOK
      <4>3. Len(checkerCheckeeMap[Last(stack)]) \in Nat
        BY <4>2, LenProperties
      <4> QED
        BY <3>1, <4>2, <4>3
    <3> QED
      BY <3>1
  <2>4. Ahead = <<1, Cardinality(Node \ visited), Len(stack), checkees>>
    BY <1>3 DEF Ahead
  <2> HIDE DEF checkees
  <2> QED
    BY <2>1, <2>2, <2>3, <2>4
<1>4. CASE phase \notin {"rank", "connect", "sort"}
  BY <1>4 DEF Ahead
<1> QED
  BY <1>2, <1>3, <1>4

(* With Shortening, and as nothing is Nearer for ever (NearerWellFounded   *)
(* of DAGCheckersNetworkProofs): no call takes steps for ever.             *)
THEOREM AheadCounted == Spec => [](Ahead \in [1..4 -> Int])
<1>1. TypeOK /\ BuildInv => Ahead \in [1..4 -> Int]
  BY CountsAhead DEF BuildInv
<1> QED
  BY <1>1, BuildInvariance, PTL

=============================================================================
