--------------------------- MODULE DumpPipeProofs ---------------------------
(***************************************************************************)
(* Proofs about DumpPipe, for every guide that lists hosts before their    *)
(* checkers, any number of copies, lines and runs, and kills between any   *)
(* two writes.                                                             *)
(*                                                                         *)
(* A word is written once: the patcher writes where it has found a         *)
(* placeholder, and no value it writes is one.  So the words of the guards *)
(* in a function are final when its hash is taken, since the guide lists   *)
(* their lines before, whatever run has written them; and what is in the   *)
(* place of a hash stays the hash of what is in the function.              *)
(***************************************************************************)
EXTENDS DumpPipe, SequenceTheorems, FiniteSetTheorems, TLAPS

-----------------------------------------------------------------------------
(* The words of the binary                                                 *)

HostedBy(f)  == {s \in Sites : Host(s[1]) = f}
Untouched(s) == word[s] = Placeholder(s[1], s[2])
Touched      == {s \in Sites : ~Untouched(s)}

XorOf(w, at) ==
  {x \in UNION {w[s] : s \in at} : Cardinality({s \in at : x \in w[s]}) % 2 = 1}

(* What belongs in the place of a hash, of words w.                        *)
HashIn(w, i) ==
  IF IsDummy(i) THEN {}
  ELSE {<<"code", Checkee(i)>>} \cup XorOf(w, HostedBy(Checkee(i)))

(* A word that is no placeholder is what belongs in its place, for good: a *)
(* hash is that of words which are no placeholders either.                 *)
Settled(s) ==
  /\ s[2] = 1 => word[s] = {<<"address", FoundFunc(s[1])>>}
  /\ s[2] = 2 => word[s] = IF IsDummy(s[1]) THEN {} ELSE {<<"size", FoundFunc(s[1])>>}
  /\ s[2] = 3 => /\ word[s] = HashIn(word, s[1])
                 /\ ~IsDummy(s[1]) => HostedBy(Checkee(s[1])) \subseteq Touched

(* No hash was taken of code that had been changed.                        *)
HashesAreEarly == \A s \in Sites : \A f \in Func : <<"modified", f>> \notin word[s]

AllPresent == \A i \in Lines : copies[i] > 0

Words ==
  /\ DOMAIN word = Sites
  /\ \A s \in Touched : Settled(s)
  /\ HashesAreEarly
  /\ Touched # {} => AllPresent

-----------------------------------------------------------------------------
(* The run of the patcher                                                  *)

Past(s)    == s[1] < line \/ (s[1] = line /\ s[2] < field)
Current(s) == s[1] = line /\ s[2] = field

(* Behind the current placeholder nothing is left, at it and ahead of it   *)
(* the placeholders are where they have been found.                        *)
Patching ==
  pc = "patch" =>
    /\ DOMAIN addresses = Lines \X (1..3)
    /\ modified = {}
    /\ AllPresent
    /\ field = 3 => expectedHash = HashIn(word, line)
    /\ \A s \in Sites :
         /\ Past(s) => ~Untouched(s)
         /\ Current(s) => (Untouched(s) <=> s[3] \in todo)
         /\ ~Past(s) /\ ~Current(s) =>
              (Untouched(s) <=> s[3] \in addresses[<<s[1], s[2]>>])

Counted == totalPatches <= Cardinality(Touched)

Reports ==
  /\ pc \in {"start", "find"} => totalPatches = 0 /\ dumpPatch = <<>>
  /\ pc \in {"start", "find", "patch"} => message = "none"
  /\ pc \in {"find", "patch"} => guide # <<>>

(* A run begins with the first placeholder.                                *)
AtFirst == pc \in {"start", "find"} => line = 1 /\ field = 1

ChangedLast == modified # {} => Complete

(* A run that has patched has left no placeholder; only one that was told  *)
(* by the stats that there is nothing to patch may leave some.             *)
PatchedMeansComplete == pc = "done" /\ message # "nothing" => Complete

IInv ==
  /\ TypeOK /\ Words /\ Patching /\ Counted /\ Reports /\ AtFirst /\ ChangedLast
  /\ PatchedMeansComplete /\ RefusalWritesNothing

-----------------------------------------------------------------------------
(* Lemmas on the guide and on the places of the words                      *)

(* The lines of a guide, and the order in which the pass has written them. *)
LEMMA GuideFacts ==
  ASSUME TypeOK
  PROVE  /\ Len(guide) \in Nat
         /\ \A i \in Lines : i \in Nat /\ Host(i) \in Func /\ Checkee(i) \in Func
         /\ \A i, j \in Lines : Checkee(i) = Host(j) => j < i
         /\ \A i \in Lines : copies[i] \in Nat /\ copies[i] <= MaxCopies
<1>1. guide \in Seq([host : Func, checkee : Func]) /\ BottomUp(guide)
  BY GuideAssumption DEF TypeOK
<1>2. Len(guide) \in Nat
  BY <1>1, LenProperties
<1>3. \A i \in Lines : guide[i] \in [host : Func, checkee : Func]
  BY <1>1, ElementOfSeq DEF Lines
<1>4. \A i \in Lines : copies[i] \in Nat /\ copies[i] <= MaxCopies
  <2>1. \A i \in Lines : copies[i] \in 0..MaxCopies
    BY DEF TypeOK
  <2> QED
    BY <2>1, BoundAssumption
<1> QED
  BY <1>1, <1>2, <1>3, <1>4 DEF Lines, Host, Checkee, BottomUp

(* The three coordinates of a word.                                        *)
LEMMA SiteFacts ==
  ASSUME NEW s \in Sites
  PROVE  /\ s[1] \in Lines /\ s[2] \in 1..3 /\ s[3] \in 1..MaxCopies
         /\ s[3] <= copies[s[1]] /\ s = <<s[1], s[2], s[3]>>
BY DEF Sites

LEMMA SiteExists ==
  ASSUME NEW i \in Lines, NEW n \in 1..3, NEW c \in 1..MaxCopies, c <= copies[i]
  PROVE  <<i, n, c>> \in Sites
BY DEF Sites

(* No value the patcher writes is a placeholder.                           *)
LEMMA ValuesAreNoPlaceholders ==
  ASSUME NEW i, NEW j, NEW n, NEW f, NEW w
  PROVE  /\ {<<"address", f>>} # Placeholder(j, n)
         /\ {<<"size", f>>} # Placeholder(j, n)
         /\ {} # Placeholder(j, n)
         /\ HashIn(w, i) # Placeholder(j, n)
<1>1. Placeholder(j, n) = {<<"placeholder", j, Fields[n]>>}
  BY DEF Placeholder
<1>2. /\ <<"address", f>> # <<"placeholder", j, Fields[n]>>
      /\ <<"size", f>> # <<"placeholder", j, Fields[n]>>
      /\ <<"code", Checkee(i)>> # <<"placeholder", j, Fields[n]>>
  OBVIOUS
<1>3. HashIn(w, i) = {} \/ <<"code", Checkee(i)>> \in HashIn(w, i)
  BY DEF HashIn
<1> QED
  BY <1>1, <1>2, <1>3

(* Equal words have equal sums.                                            *)
LEMMA XorAgrees ==
  ASSUME NEW v, NEW w, NEW at, \A s \in at : v[s] = w[s]
  PROVE  XorOf(v, at) = XorOf(w, at)
<1>1. \A x : {s \in at : x \in v[s]} = {s \in at : x \in w[s]}
  OBVIOUS
<1>2. UNION {v[s] : s \in at} = UNION {w[s] : s \in at}
  OBVIOUS
<1> QED
  BY <1>1, <1>2 DEF XorOf

(* A sum holds symbols of its words only.                                  *)
LEMMA XorOfWords ==
  ASSUME NEW w, NEW at, NEW x \in XorOf(w, at)
  PROVE  \E s \in at : x \in w[s]
BY DEF XorOf

(* There are finitely many words.                                          *)
LEMMA SitesOfGuideFinite ==
  ASSUME Len(guide) \in Nat
  PROVE  IsFiniteSet(Sites)
<1>1. IsFiniteSet(Lines) /\ IsFiniteSet(1..3) /\ IsFiniteSet(1..MaxCopies)
  <2>1. Len(guide) \in Int /\ MaxCopies \in Int /\ 1 \in Int /\ 3 \in Int
    BY BoundAssumption
  <2> QED
    BY <2>1, FS_Interval DEF Lines
<1> DEFINE Pairs == (Lines \X (1..3)) \X (1..MaxCopies)
           Triples == Lines \X (1..3) \X (1..MaxCopies)
           g == [p \in Pairs |-> <<p[1][1], p[1][2], p[2]>>]
<1>2. IsFiniteSet(Pairs)
  BY <1>1, FS_Product
<1>3. g \in Surjection(Pairs, Triples)
  <2>1. ASSUME NEW t \in Triples
        PROVE  \E p \in Pairs : g[p] = t
    <3>1. <<<<t[1], t[2]>>, t[3]>> \in Pairs /\ t = <<t[1], t[2], t[3]>>
      OBVIOUS
    <3> QED
      BY <3>1
  <2>2. g \in [Pairs -> Triples]
    OBVIOUS
  <2> HIDE DEF g, Pairs, Triples
  <2> QED
    BY <2>1, <2>2 DEF Surjection
<1>4. IsFiniteSet(Triples)
  <2> HIDE DEF g, Pairs, Triples
  <2> QED
    BY <1>2, <1>3, FS_Surjection
<1> QED
  BY <1>4, FS_Subset DEF Sites

LEMMA SitesFinite ==
  ASSUME TypeOK
  PROVE  /\ IsFiniteSet(Sites) /\ IsFiniteSet(Touched)
         /\ Cardinality(Sites) \in Nat /\ Cardinality(Touched) \in Nat
         /\ Cardinality(Touched) <= Cardinality(Sites)
<1>1. IsFiniteSet(Sites)
  BY GuideFacts, SitesOfGuideFinite
<1>2. IsFiniteSet(Touched) /\ Cardinality(Touched) <= Cardinality(Sites)
  BY <1>1, FS_Subset DEF Touched
<1> QED
  BY <1>1, <1>2, FS_CardinalityType

-----------------------------------------------------------------------------
(* The steps that write nothing                                            *)

(* The predicates on the words depend on target and word only.             *)
LEMMA WordsStay ==
  ASSUME Words, UNCHANGED <<guide, copies, answer, word>>
  PROVE  /\ Words' /\ Sites' = Sites /\ Lines' = Lines /\ Touched' = Touched
         /\ AllPresent' = AllPresent /\ Complete' = Complete
         /\ \A s : Untouched(s)' = Untouched(s)
         /\ \A i : HashIn(word, i)' = HashIn(word, i)
<1>1. guide' = guide /\ copies' = copies /\ answer' = answer /\ word' = word
  BY DEF target
<1>2. Lines' = Lines /\ Sites' = Sites
  BY <1>1 DEF Lines, Sites
<1>3. \A s : Untouched(s)' = Untouched(s)
  BY <1>1 DEF Untouched, Placeholder
<1>4. Touched' = Touched
  BY <1>2, <1>3 DEF Touched
<1>5. \A f : HostedBy(f)' = HostedBy(f)
  BY <1>1, <1>2 DEF HostedBy, Host
<1>6. \A i : HashIn(word, i)' = HashIn(word, i)
  <2> SUFFICES ASSUME NEW i PROVE HashIn(word, i)' = HashIn(word, i)
    OBVIOUS
  <2>1. IsDummy(i)' = IsDummy(i) /\ Checkee(i)' = Checkee(i)
    BY <1>1 DEF IsDummy, Checkee
  <2>2. HostedBy(Checkee(i))' = HostedBy(Checkee(i))
    BY <1>1, <1>2 DEF HostedBy, Host, Checkee
  <2> QED
    BY <1>1, <2>1, <2>2 DEF HashIn, XorOf
<1>7. AllPresent' = AllPresent /\ HashesAreEarly' = HashesAreEarly
  BY <1>1, <1>2 DEF AllPresent, HashesAreEarly
<1>8. Complete' = Complete
  BY <1>1, <1>2 DEF Complete, Placeholder
<1>9. \A s \in Touched : Settled(s)'
  BY <1>1, <1>4, <1>5, <1>6
     DEF Words, Settled, FoundFunc, IsDummy, Checkee
<1> QED
  BY <1>1, <1>2, <1>3, <1>4, <1>6, <1>7, <1>8, <1>9 DEF Words

(* Complete means that every word has been touched.                        *)
LEMMA CompleteTouched == Complete <=> Touched = Sites
BY DEF Complete, Touched, Untouched

(* A run that ends or gives up with a message, without a write.            *)
LEMMA EndKeeps ==
  ASSUME IInv, UNCHANGED <<target, binary, run, mode, addresses, line, field, todo,
                           expectedHash, totalPatches>>,
         pc' \in {"done", "exit", "killed"},
         pc' = "done" /\ message' # "nothing" => Complete,
         message' \in {"none", "nothing", "error", "exception", "patched all",
                       "failed to patch all"},
         message' = "error" => totalPatches = 0 /\ dumpPatch' = <<>>
  PROVE  IInv'
<1>1. /\ guide' = guide /\ copies' = copies /\ answer' = answer /\ word' = word
      /\ modified' = modified /\ run' = run /\ addresses' = addresses
      /\ totalPatches' = totalPatches
  BY DEF target, binary
<1>2. /\ Words' /\ Sites' = Sites /\ Lines' = Lines /\ Touched' = Touched
      /\ Complete' = Complete
  BY <1>1, WordsStay DEF IInv, target
<1>3. TypeOK'
  BY <1>1, <1>2 DEF IInv, TypeOK
<1>4. Counted' /\ ChangedLast' /\ PatchedMeansComplete' /\ Patching'
  BY <1>1, <1>2 DEF IInv, Counted, ChangedLast, PatchedMeansComplete, Patching
<1>5. Reports' /\ RefusalWritesNothing' /\ AtFirst'
  BY <1>1 DEF Reports, RefusalWritesNothing, AtFirst
<1> QED
  BY <1>2, <1>3, <1>4, <1>5 DEF IInv

LEMMA NothingToPatchKeeps ==
  ASSUME IInv, NothingToPatch
  PROVE  IInv'
<1>1. /\ UNCHANGED <<target, binary, run, mode, addresses, line, field, todo,
                     expectedHash, totalPatches>>
      /\ pc' = "done" /\ message' = "nothing"
  BY DEF NothingToPatch, progress
<1> QED
  BY <1>1, EndKeeps

LEMMA ReadGuideKeeps ==
  ASSUME IInv, ReadGuide
  PROVE  IInv'
<1>1. /\ pc = "start"
      /\ UNCHANGED <<target, binary, run, mode, addresses, line, field, todo,
                     expectedHash, totalPatches, dumpPatch>>
  BY DEF ReadGuide, progress
<1>2. totalPatches = 0 /\ dumpPatch = <<>> /\ message = "none"
  BY <1>1 DEF IInv, Reports
<1>3. CASE GuideResolved
  <2>1. pc' = "find" /\ message' = message /\ guide # <<>> /\ guide' = guide
    BY <1>1, <1>3 DEF ReadGuide, GuideResolved, target
  <2>2. /\ copies' = copies /\ answer' = answer /\ word' = word
        /\ modified' = modified /\ run' = run /\ addresses' = addresses
        /\ totalPatches' = totalPatches /\ dumpPatch' = dumpPatch
    BY <1>1 DEF target, binary
  <2>3. /\ Words' /\ Sites' = Sites /\ Lines' = Lines /\ Touched' = Touched
        /\ Complete' = Complete
    BY <1>1, WordsStay DEF IInv, target, binary
  <2>4. TypeOK'
    BY <2>1, <2>2, <2>3 DEF IInv, TypeOK
  <2>5. Counted' /\ ChangedLast' /\ PatchedMeansComplete' /\ Patching'
    BY <2>1, <2>2, <2>3 DEF IInv, Counted, ChangedLast, PatchedMeansComplete, Patching
  <2>6. Reports' /\ RefusalWritesNothing' /\ AtFirst'
    BY <1>1, <1>2, <2>1, <2>2 DEF IInv, Reports, RefusalWritesNothing, AtFirst
  <2> QED
    BY <2>3, <2>4, <2>5, <2>6 DEF IInv
<1>4. CASE ~GuideResolved
  <2>1. pc' = "exit" /\ message' = "error"
    BY <1>4 DEF ReadGuide
  <2> QED
    BY <1>1, <1>2, <2>1, EndKeeps
<1> QED
  BY <1>3, <1>4

LEMMA FindAllKeeps ==
  ASSUME IInv, FindAllPlaceholders
  PROVE  IInv'
<1>1. /\ pc = "find" /\ line' = line /\ field' = field
      /\ addresses' = [s \in Lines \X (1..3) |-> Copies(s[1], s[2])]
      /\ guide' = guide /\ copies' = copies /\ answer' = answer /\ word' = word
      /\ modified' = modified /\ run' = run /\ expectedHash' = expectedHash
      /\ totalPatches' = totalPatches /\ dumpPatch' = dumpPatch
  BY DEF FindAllPlaceholders, target, binary
<1>2. totalPatches = 0 /\ dumpPatch = <<>> /\ message = "none" /\ guide # <<>>
  BY <1>1 DEF IInv, Reports
<1>3. /\ Words' /\ Sites' = Sites /\ Lines' = Lines /\ Touched' = Touched
      /\ AllPresent' = AllPresent /\ Complete' = Complete
      /\ \A s : Untouched(s)' = Untouched(s)
      /\ \A i : HashIn(word, i)' = HashIn(word, i)
  BY <1>1, WordsStay DEF IInv, target
<1>4. \A s \in DOMAIN addresses' : addresses'[s] \subseteq 1..copies[s[1]]
  <2> SUFFICES ASSUME NEW s \in Lines \X (1..3), NEW c \in Copies(s[1], s[2])
               PROVE  c \in 1..copies[s[1]]
    BY <1>1
  <2>1. copies[s[1]] \in Nat /\ c \in 1..MaxCopies /\ c <= copies[s[1]]
    BY GuideFacts DEF Copies, IInv
  <2> QED
    BY <2>1, BoundAssumption
<1>5. /\ DOMAIN addresses' = Lines \X (1..3)
      /\ \A i \in Lines, n \in 1..3 : addresses'[<<i, n>>] = Copies(i, n)
  BY <1>1
<1>6. CASE \E s \in DOMAIN addresses' : addresses'[s] = {}
  <2>1. pc' = "exit" /\ message' = "error" /\ todo' = todo
    BY <1>6 DEF FindAllPlaceholders
  <2>2. TypeOK'
    BY <1>1, <1>3, <1>4, <2>1 DEF IInv, TypeOK
  <2>3. Counted' /\ ChangedLast' /\ PatchedMeansComplete' /\ Patching'
    BY <1>1, <1>3, <2>1 DEF IInv, Counted, ChangedLast, PatchedMeansComplete, Patching
  <2>4. Reports' /\ RefusalWritesNothing' /\ AtFirst'
    BY <1>1, <1>2, <2>1 DEF Reports, RefusalWritesNothing, AtFirst
  <2> QED
    BY <1>3, <2>2, <2>3, <2>4 DEF IInv
<1>7. CASE ~ \E s \in DOMAIN addresses' : addresses'[s] = {}
  <2>1. pc' = "patch" /\ message' = message /\ todo' = addresses'[<<1, 1>>]
    BY <1>7 DEF FindAllPlaceholders
  <2>2. ASSUME NEW i \in Lines, NEW n \in 1..3 PROVE Copies(i, n) # {}
    <3>1. <<i, n>> \in DOMAIN addresses' /\ addresses'[<<i, n>>] = Copies(i, n)
      BY <1>5
    <3> QED
      BY <1>7, <3>1
  <2>3. 1 \in Lines /\ line = 1 /\ field = 1
    <3>1. Len(guide) \in Nat \ {0}
      BY <1>2, GuideAssumption, EmptySeq DEF IInv, TypeOK
    <3> QED
      BY <1>1, <3>1 DEF Lines, IInv, AtFirst
  <2>4. \A i \in Lines : copies[i] > 0
    <3> SUFFICES ASSUME NEW i \in Lines PROVE copies[i] > 0
      OBVIOUS
    <3>1. Copies(i, 1) # {}
      BY <2>2
    <3>2. PICK c \in 1..MaxCopies : c <= copies[i]
      BY <3>1 DEF Copies
    <3> QED
      BY <3>2, BoundAssumption, GuideFacts DEF IInv
  <2>5. modified = {}
    <3>0. Copies(1, 1) # {}
      BY <2>2, <2>3
    <3>1. PICK c \in 1..MaxCopies : c <= copies[1] /\ word[<<1, 1, c>>] = Placeholder(1, 1)
      BY <3>0 DEF Copies
    <3>2. <<1, 1, c>> \in Sites
      BY <2>3, <3>1, SiteExists
    <3>3. ~Complete
      BY <3>1, <3>2 DEF Complete
    <3> QED
      BY <3>3 DEF IInv, ChangedLast
  <2>6. \A s \in Sites : Untouched(s) <=> s[3] \in Copies(s[1], s[2])
    BY SiteFacts DEF Untouched, Copies
  <2>7. Patching'
    <3>1. AllPresent
      BY <2>4 DEF AllPresent
    <3>2. \A s \in Sites : ~Past(s)'
      BY <1>1, <2>3, SiteFacts, GuideFacts DEF Past, Lines, IInv
    <3>3. \A s \in Sites : Current(s)' => s[1] = 1 /\ s[2] = 1
      BY <1>1, <2>3 DEF Current
    <3>4. \A s \in Sites : Untouched(s) <=> s[3] \in addresses'[<<s[1], s[2]>>]
      BY <1>5, <2>6, SiteFacts
    <3>5. addresses'[<<1, 1>>] = todo' /\ field' # 3 /\ modified' = {}
      BY <1>1, <2>1, <2>3, <2>5
    <3>6. ASSUME NEW s \in Sites
          PROVE  /\ Past(s)' => ~Untouched(s)'
                 /\ Current(s)' => (Untouched(s)' <=> s[3] \in todo')
                 /\ ~Past(s)' /\ ~Current(s)' =>
                      (Untouched(s)' <=> s[3] \in addresses'[<<s[1], s[2]>>])
      BY <1>3, <3>2, <3>3, <3>4, <3>5
    <3>7. DOMAIN addresses' = Lines' \X (1..3) /\ AllPresent'
      BY <1>3, <1>5, <3>1
    <3> QED
      BY <1>3, <3>5, <3>6, <3>7 DEF Patching
  <2>8. TypeOK'
    <3>1. line' \in Lines' /\ field' \in 1..3 /\ todo' \subseteq addresses'[<<line', field'>>]
      BY <1>1, <1>3, <2>1, <2>3
    <3>2. \A s \in DOMAIN addresses' : addresses'[s] \subseteq 1..copies'[s[1]]
      BY <1>1, <1>4
    <3>3. message' \in {"none", "nothing", "error", "exception", "patched all",
                        "failed to patch all"}
      BY <1>2, <2>1
    <3> QED
      BY <1>1, <1>3, <2>1, <3>1, <3>2, <3>3 DEF IInv, TypeOK
  <2>9. Counted' /\ ChangedLast' /\ PatchedMeansComplete'
    BY <1>1, <1>3, <2>1 DEF IInv, Counted, ChangedLast, PatchedMeansComplete
  <2>10. Reports' /\ RefusalWritesNothing' /\ AtFirst'
    BY <1>1, <1>2, <2>1 DEF Reports, RefusalWritesNothing, AtFirst
  <2> QED
    BY <1>3, <2>7, <2>8, <2>9, <2>10 DEF IInv
<1> QED
  BY <1>6, <1>7

-----------------------------------------------------------------------------
(* The steps from one placeholder to the next                              *)

LEMMA MoveKeeps ==
  ASSUME IInv, pc = "patch", todo = {}, pc' = "patch",
         UNCHANGED <<target, binary, run, addresses, totalPatches, message>>,
         line' \in Lines, field' \in 1..3, todo' = addresses[<<line', field'>>],
         \A s \in Sites : Past(s)' <=> Past(s) \/ Current(s),
         field' = 3 => expectedHash' = HashIn(word, line')
  PROVE  IInv'
<1>1. /\ guide' = guide /\ copies' = copies /\ answer' = answer /\ word' = word
      /\ modified' = modified /\ run' = run /\ addresses' = addresses
      /\ totalPatches' = totalPatches /\ message' = message
  BY DEF target, binary
<1>2. /\ Words' /\ Sites' = Sites /\ Lines' = Lines /\ Touched' = Touched
      /\ AllPresent' = AllPresent /\ Complete' = Complete
      /\ \A s : Untouched(s)' = Untouched(s)
      /\ \A i : HashIn(word, i)' = HashIn(word, i)
  BY <1>1, WordsStay DEF IInv, target
<1>3. /\ DOMAIN addresses = Lines \X (1..3) /\ modified = {} /\ AllPresent
      /\ guide # <<>> /\ message = "none"
  BY DEF IInv, Patching, Reports
<1>4. ASSUME NEW s \in Sites
      PROVE  /\ Past(s)' => ~Untouched(s)'
             /\ Current(s)' => (Untouched(s)' <=> s[3] \in todo')
             /\ ~Past(s)' /\ ~Current(s)' =>
                  (Untouched(s)' <=> s[3] \in addresses'[<<s[1], s[2]>>])
  <2>1. /\ Past(s) \/ Current(s) => ~Untouched(s)
        /\ ~Past(s) /\ ~Current(s) => (Untouched(s) <=> s[3] \in addresses[<<s[1], s[2]>>])
    BY DEF IInv, Patching
  <2>2. Current(s)' => /\ ~Past(s)' /\ s[1] = line' /\ s[2] = field'
    BY SiteFacts, GuideFacts DEF Past, Current, IInv
  <2> QED
    BY <1>1, <1>2, <2>1, <2>2
<1>5. field' = 3 => expectedHash' = HashIn(word, line)'
  <2>1. HashIn(word, line)' = HashIn(word, line')
    BY <1>1, <1>2 DEF HashIn, IsDummy, Checkee, HostedBy, Host, XorOf
  <2> QED
    BY <2>1
<1>6. DOMAIN addresses' = Lines' \X (1..3) /\ modified' = {} /\ AllPresent'
  BY <1>1, <1>2, <1>3
<1>7. Patching'
  BY <1>2, <1>4, <1>5, <1>6 DEF Patching
<1>8. TypeOK'
  BY <1>1, <1>2 DEF IInv, TypeOK
<1>9. Counted' /\ ChangedLast' /\ PatchedMeansComplete'
  BY <1>1, <1>2 DEF IInv, Counted, ChangedLast, PatchedMeansComplete
<1>10. Reports' /\ RefusalWritesNothing' /\ AtFirst'
  BY <1>1, <1>3 DEF Reports, RefusalWritesNothing, AtFirst
<1> QED
  BY <1>2, <1>7, <1>8, <1>9, <1>10 DEF IInv

(* Where no code has been changed, the patcher takes the hash that belongs *)
(* in the place.                                                           *)
LEMMA PrecomputedHash ==
  ASSUME modified = {}, NEW i \in Lines
  PROVE  PrecomputeHash(i) = HashIn(word, i)
BY DEF PrecomputeHash, HashIn, Hash, OwnCode, Xor, XorOf, HostedBy, FoundFunc

LEMMA NextFieldKeeps ==
  ASSUME IInv, NextField
  PROVE  IInv'
<1>1. /\ pc = "patch" /\ todo = {} /\ field < 3 /\ field' = field + 1 /\ line' = line
      /\ todo' = addresses[<<line, field + 1>>] /\ pc' = pc
      /\ expectedHash' = IF field = 2 THEN PrecomputeHash(line) ELSE expectedHash
      /\ UNCHANGED <<target, binary, run, addresses, totalPatches, message>>
  BY DEF NextField
<1>2. line \in Lines /\ line \in Nat /\ field \in 1..3 /\ modified = {}
  BY <1>1, GuideFacts DEF IInv, TypeOK, Patching
<1>3. field' \in 1..3
  BY <1>1, <1>2
<1>4. ASSUME NEW s \in Sites PROVE Past(s)' <=> Past(s) \/ Current(s)
  <2>1. s[1] \in Nat /\ s[2] \in 1..3
    BY SiteFacts, GuideFacts DEF IInv
  <2> QED
    BY <1>1, <1>2, <2>1 DEF Past, Current
<1>5. field' = 3 => expectedHash' = HashIn(word, line')
  BY <1>1, <1>2, PrecomputedHash
<1> QED
  BY <1>1, <1>2, <1>3, <1>4, <1>5, MoveKeeps

LEMMA NextLineKeeps ==
  ASSUME IInv, NextLine
  PROVE  IInv'
<1>1. /\ pc = "patch" /\ todo = {} /\ field = 3 /\ line < Len(guide)
      /\ line' = line + 1 /\ field' = 1 /\ todo' = addresses[<<line + 1, 1>>]
      /\ pc' = pc
      /\ UNCHANGED <<target, binary, run, addresses, totalPatches, message>>
  BY DEF NextLine
<1>2. line \in Nat /\ line \in Lines /\ Len(guide) \in Nat
  BY <1>1, GuideFacts DEF IInv, TypeOK
<1>3. line' \in Lines /\ field' \in 1..3 /\ field' # 3
  BY <1>1, <1>2 DEF Lines
<1>4. ASSUME NEW s \in Sites PROVE Past(s)' <=> Past(s) \/ Current(s)
  <2>1. s[1] \in Nat /\ s[2] \in 1..3
    BY SiteFacts, GuideFacts DEF IInv
  <2> QED
    BY <1>1, <1>2, <2>1 DEF Past, Current
<1> QED
  BY <1>1, <1>3, <1>4, MoveKeeps

(* After the last copy of the last hash nothing is left.                   *)
LEMMA FinishKeeps ==
  ASSUME IInv, Finish
  PROVE  IInv'
<1>1. /\ pc = "patch" /\ todo = {} /\ field = 3 /\ line = Len(guide) /\ pc' = "done"
      /\ message' \in {"patched all", "failed to patch all"}
      /\ UNCHANGED <<target, binary, run, mode, addresses, line, field, todo,
                     expectedHash, totalPatches>>
  BY DEF Finish
<1>2. ASSUME NEW s \in Sites PROVE ~Untouched(s)
  <2>1. s[1] \in 1..Len(guide) /\ s[2] \in 1..3 /\ Len(guide) \in Nat
    BY SiteFacts, GuideFacts DEF IInv, Lines
  <2>2. (s[1] < line \/ s[1] = line) /\ (s[2] < field \/ s[2] = field)
    <3> DEFINE n == Len(guide)
    <3>1. s[1] \in 1..n /\ n \in Nat /\ line = n
      BY <1>1, <2>1
    <3> HIDE DEF n
    <3>2. s[1] < line \/ s[1] = line
      BY <3>1
    <3>3. s[2] < field \/ s[2] = field
      <4>1. s[2] \in 1..3 /\ field = 3
        BY <1>1, <2>1
      <4>2. s[2] = 1 \/ s[2] = 2 \/ s[2] = 3
        BY <4>1
      <4> QED
        BY <4>1, <4>2
    <3> QED
      BY <3>2, <3>3
  <2>3. Past(s) \/ Current(s)
    BY <2>2 DEF Past, Current
  <2> QED
    BY <1>1, <2>3 DEF IInv, Patching
<1>3. Complete
  BY <1>2 DEF Complete, Untouched
<1> QED
  BY <1>1, <1>3, EndKeeps

LEMMA PackErrorKeeps ==
  ASSUME IInv, PackError
  PROVE  IInv'
<1>1. /\ pc' = "exit" /\ message' = "exception"
      /\ UNCHANGED <<target, binary, run, mode, addresses, line, field, todo,
                     expectedHash, totalPatches>>
  BY DEF PackError, progress
<1> QED
  BY <1>1, EndKeeps

LEMMA KillKeeps ==
  ASSUME IInv, Kill
  PROVE  IInv'
<1>1. /\ pc = "patch" /\ pc' = "killed" /\ message' = message
      /\ UNCHANGED <<target, binary, run, mode, addresses, line, field, todo,
                     expectedHash, totalPatches>>
  BY DEF Kill, progress
<1>2. message' = "none"
  BY <1>1 DEF IInv, Reports
<1> QED
  BY <1>1, <1>2, EndKeeps

LEMMA RunAgainKeeps ==
  ASSUME IInv, RunAgain
  PROVE  IInv'
<1>1. /\ run < MaxRuns /\ run' = run + 1 /\ pc' = "start" /\ message' = "none"
      /\ addresses' = NothingFound /\ line' = 1 /\ field' = 1 /\ todo' = {}
      /\ totalPatches' = 0 /\ dumpPatch' = <<>>
      /\ guide' = guide /\ copies' = copies /\ answer' = answer /\ word' = word
      /\ modified' = modified
  BY DEF RunAgain, target, binary
<1>2. /\ Words' /\ Sites' = Sites /\ Lines' = Lines /\ Touched' = Touched
      /\ Complete' = Complete
  BY <1>1, WordsStay DEF IInv, target
<1>3. run' \in 1..MaxRuns
  <2>1. run \in 1..MaxRuns /\ MaxRuns \in Nat
    BY BoundAssumption DEF IInv, TypeOK
  <2> QED
    BY <1>1, <2>1
<1>4. \A s \in DOMAIN addresses' : addresses'[s] \subseteq 1..copies'[s[1]]
  BY <1>1 DEF NothingFound
<1>5. Cardinality(Touched) \in Nat /\ Cardinality(Sites) \in Nat
  BY SitesFinite DEF IInv
<1>6. TypeOK'
  <2>1. totalPatches' \in 0..Cardinality(Sites')
    BY <1>1, <1>2, <1>5
  <2> QED
    BY <1>1, <1>2, <1>3, <1>4, <2>1 DEF IInv, TypeOK
<1>7. Counted' /\ ChangedLast' /\ PatchedMeansComplete' /\ Patching'
  BY <1>1, <1>2, <1>5 DEF IInv, Counted, ChangedLast, PatchedMeansComplete, Patching
<1>8. Reports' /\ RefusalWritesNothing' /\ AtFirst'
  BY <1>1 DEF Reports, RefusalWritesNothing, AtFirst
<1> QED
  BY <1>2, <1>6, <1>7, <1>8 DEF IInv

LEMMA ModifyKeeps ==
  ASSUME IInv, NEW f \in Func, Modify(f)
  PROVE  IInv'
<1>1. /\ pc = "done" /\ message # "nothing" /\ pc' = pc /\ modified' = modified \cup {f}
      /\ guide' = guide /\ copies' = copies /\ answer' = answer /\ word' = word
      /\ run' = run /\ addresses' = addresses /\ line' = line /\ field' = field
      /\ todo' = todo /\ totalPatches' = totalPatches /\ dumpPatch' = dumpPatch
      /\ message' = message
  BY DEF Modify, target, progress
<1>2. /\ Words' /\ Sites' = Sites /\ Lines' = Lines /\ Touched' = Touched
      /\ Complete' = Complete
  BY <1>1, WordsStay DEF IInv, target
<1>3. Complete
  BY <1>1 DEF IInv, PatchedMeansComplete
<1>4. TypeOK'
  BY <1>1, <1>2 DEF IInv, TypeOK
<1>5. Counted' /\ ChangedLast' /\ PatchedMeansComplete' /\ Patching'
  BY <1>1, <1>2, <1>3 DEF IInv, Counted, ChangedLast, PatchedMeansComplete, Patching
<1>6. Reports' /\ RefusalWritesNothing' /\ AtFirst'
  BY <1>1 DEF IInv, Reports, RefusalWritesNothing, AtFirst
<1> QED
  BY <1>2, <1>4, <1>5, <1>6 DEF IInv

-----------------------------------------------------------------------------
(* The step that writes                                                    *)

(* A set of naturals that is not empty has a least element.                *)
LEMMA LeastElement ==
  ASSUME NEW S \in SUBSET Nat, S # {}
  PROVE  \E m \in S : \A n \in S : m <= n
<1>1. PICK m \in S : \A n \in S : ~(<<n, m>> \in OpToRel(<, Nat))
  BY NatLessThanWellFounded, WFMin
<1>2. \A n \in S : ~(n < m)
  BY <1>1 DEF OpToRel
<1> QED
  BY <1>2

(* What the step writes, and where.                                        *)
LEMMA PatchCopyFacts ==
  ASSUME IInv, PatchCopy
  PROVE  \E c \in todo :
           LET p == <<line, field, c>>
           IN  /\ p \in Sites /\ Untouched(p)
               /\ word' = [word EXCEPT ![p] = PatchValue(line, field)]
               /\ todo' = todo \ {c}
<1> DEFINE c == CHOOSE c \in todo : \A d \in todo : c <= d
           p == <<line, field, c>>
<1>1. /\ pc = "patch" /\ todo # {} /\ todo' = todo \ {c}
      /\ word' = [word EXCEPT ![p] = PatchValue(line, field)]
  BY DEF PatchCopy
<1>2. /\ line \in Lines /\ field \in 1..3 /\ <<line, field>> \in DOMAIN addresses
      /\ todo \subseteq addresses[<<line, field>>]
      /\ addresses[<<line, field>>] \subseteq 1..copies[line]
  <2>1. /\ line \in Lines /\ field \in 1..3 /\ todo \subseteq addresses[<<line, field>>]
        /\ DOMAIN addresses = Lines \X (1..3)
    BY <1>1 DEF IInv, TypeOK, Patching
  <2>2. <<line, field>> \in DOMAIN addresses /\ <<line, field>>[1] = line
    BY <2>1
  <2>3. addresses[<<line, field>>] \subseteq 1..copies[<<line, field>>[1]]
    BY <2>2 DEF IInv, TypeOK
  <2> QED
    BY <2>1, <2>2, <2>3
<1>3. copies[line] \in Nat /\ copies[line] <= MaxCopies
  BY <1>2, GuideFacts DEF IInv
<1>4. c \in todo
  <2>1. todo \in SUBSET Nat
    BY <1>2, <1>3
  <2> QED
    BY <1>1, <2>1, LeastElement
<1>5. c \in 1..MaxCopies /\ c <= copies[line]
  <2>1. c \in 1..copies[line]
    BY <1>2, <1>4
  <2> HIDE DEF c
  <2> QED
    BY <1>3, <2>1, BoundAssumption
<1>6. p \in Sites
  BY <1>2, <1>5, SiteExists
<1>7. Untouched(p)
  BY <1>1, <1>4, <1>6 DEF IInv, Patching, Current
<1> HIDE DEF c
<1> QED
  BY <1>1, <1>4, <1>6, <1>7

(* One more word is touched, and the invariant is kept.                    *)
LEMMA PatchCopyKeeps ==
  ASSUME IInv, PatchCopy
  PROVE  /\ IInv'
         /\ Sites' = Sites
         /\ \E p \in Sites : /\ p[1] = line /\ p[2] = field /\ p \notin Touched
                             /\ Touched' = Touched \cup {p}
<1>1. /\ pc = "patch" /\ totalPatches' = totalPatches + 1 /\ pc' = pc
      /\ guide' = guide /\ copies' = copies /\ answer' = answer
      /\ modified' = modified /\ run' = run /\ addresses' = addresses
      /\ line' = line /\ field' = field /\ expectedHash' = expectedHash
      /\ dumpPatch' = dumpPatch /\ message' = message
  BY DEF PatchCopy, target
<1>2. PICK c \in todo :
        /\ <<line, field, c>> \in Sites /\ Untouched(<<line, field, c>>)
        /\ word' = [word EXCEPT ![<<line, field, c>>] = PatchValue(line, field)]
        /\ todo' = todo \ {c}
  BY PatchCopyFacts
<1> DEFINE p == <<line, field, c>>
           v == PatchValue(line, field)
<1>3. /\ line \in Lines /\ field \in 1..3 /\ modified = {} /\ AllPresent
      /\ p[1] = line /\ p[2] = field /\ p[3] = c
      /\ field = 3 => expectedHash = HashIn(word, line)
  BY <1>1 DEF IInv, TypeOK, Patching
<1>4. /\ p \in Sites /\ Untouched(p) /\ DOMAIN word' = Sites /\ word'[p] = v
      /\ \A s \in Sites : s # p => word'[s] = word[s]
  BY <1>2 DEF IInv, Words
<1>5. /\ field = 1 => v = {<<"address", FoundFunc(line)>>}
      /\ field = 2 => v = IF IsDummy(line) THEN {} ELSE {<<"size", FoundFunc(line)>>}
      /\ field = 3 => v = HashIn(word, line)
  BY <1>3 DEF PatchValue
<1>6. v # Placeholder(line, field)
  <2>1. field = 1 \/ field = 2 \/ field = 3
    BY <1>3
  <2> HIDE DEF v
  <2>2. CASE field = 1
    BY <1>5, <2>2, ValuesAreNoPlaceholders
  <2>3. CASE field = 2
    BY <1>5, <2>3, ValuesAreNoPlaceholders
  <2>4. CASE field = 3
    BY <1>5, <2>4, ValuesAreNoPlaceholders
  <2> QED
    BY <2>1, <2>2, <2>3, <2>4
<1> HIDE DEF p, v
<1>7. Lines' = Lines /\ Sites' = Sites /\ AllPresent' = AllPresent
  BY <1>1 DEF Lines, Sites, AllPresent
<1>8. \A s \in Sites : Untouched(s)' <=> Untouched(s) /\ s # p
  BY <1>3, <1>4, <1>6 DEF Untouched, Placeholder
<1>9. Touched' = Touched \cup {p} /\ p \notin Touched
  BY <1>4, <1>7, <1>8 DEF Touched
<1>10. \A i : /\ IsDummy(i)' = IsDummy(i) /\ Checkee(i)' = Checkee(i)
              /\ FoundFunc(i)' = FoundFunc(i)
  BY <1>1 DEF IsDummy, Checkee, FoundFunc
<1>11. \A f : HostedBy(f)' = HostedBy(f)
  BY <1>1, <1>7 DEF HostedBy, Host
(* A hash of words that have been touched stays what belongs in its place. *)
<1>12. ASSUME NEW i, ~IsDummy(i) => HostedBy(Checkee(i)) \subseteq Touched
       PROVE  HashIn(word, i)' = HashIn(word, i)
  <2>1. HashIn(word, i)' = HashIn(word', i)
    <3>1. HostedBy(Checkee(i))' = HostedBy(Checkee(i))
      BY <1>1, <1>7 DEF HostedBy, Host, Checkee
    <3> QED
      BY <1>10, <3>1 DEF HashIn, XorOf
  <2>2. CASE IsDummy(i)
    BY <2>1, <2>2 DEF HashIn
  <2>3. CASE ~IsDummy(i)
    <3>1. \A s \in HostedBy(Checkee(i)) : word'[s] = word[s]
      BY <1>4, <1>9, <1>12, <2>3 DEF Touched
    <3>2. XorOf(word', HostedBy(Checkee(i))) = XorOf(word, HostedBy(Checkee(i)))
      BY <3>1, XorAgrees
    <3> QED
      BY <2>1, <3>2 DEF HashIn
  <2> QED
    BY <2>2, <2>3
(* The guide lists what a function hosts before it lists the function.     *)
<1>13. HostedBy(Checkee(line)) \subseteq Touched
  <2> SUFFICES ASSUME NEW s \in Sites, Host(s[1]) = Checkee(line) PROVE ~Untouched(s)
    BY DEF HostedBy, Touched
  <2>1. s[1] < line
    BY <1>3, SiteFacts, GuideFacts DEF IInv
  <2> QED
    BY <1>1, <2>1 DEF IInv, Patching, Past
<1>14. HashIn(word, line)' = HashIn(word, line)
  <2>1. PICK l \in Lines : l = line
    BY <1>3
  <2>2. HashIn(word, l)' = HashIn(word, l)
    BY <1>12, <1>13, <2>1
  <2>3. HashIn(word, line)' = HashIn(word, l)'
    BY <1>1, <2>1 DEF HashIn, IsDummy, Checkee, HostedBy, Host, XorOf
  <2> QED
    BY <2>1, <2>2, <2>3
<1>15. ASSUME NEW s \in Touched' PROVE Settled(s)'
  <2>1. CASE s = p
    <3>1. s[1] = line /\ s[2] = field /\ word'[s] = v
      BY <1>3, <1>4, <2>1
    <3> HIDE DEF IInv
    <3>2. s[2] = 1 => word'[s] = {<<"address", FoundFunc(s[1])'>>}
      BY <1>5, <1>10, <3>1
    <3>3. s[2] = 2 => word'[s] = IF IsDummy(s[1])' THEN {} ELSE {<<"size", FoundFunc(s[1])'>>}
      BY <1>5, <1>10, <3>1
    <3>4. s[2] = 3 => /\ word'[s] = HashIn(word, s[1])'
                      /\ HostedBy(Checkee(s[1]))' \subseteq Touched'
      BY <1>1, <1>5, <1>9, <1>10, <1>11, <1>13, <1>14, <3>1
    <3> QED
      BY <3>2, <3>3, <3>4 DEF Settled
  <2>2. CASE s # p
    <3>1. s \in Touched /\ s \in Sites /\ word'[s] = word[s] /\ Settled(s)
      BY <1>4, <1>9, <2>2 DEF IInv, Words, Touched
    <3>2. s[2] = 3 => HashIn(word, s[1])' = HashIn(word, s[1])
      BY <1>12, <3>1 DEF Settled
    <3>3. s[2] = 3 /\ ~IsDummy(s[1])' => HostedBy(Checkee(s[1]))' \subseteq Touched'
      BY <1>9, <1>10, <1>11, <3>1 DEF Settled
    <3> QED
      BY <1>10, <3>1, <3>2, <3>3 DEF Settled
  <2> QED
    BY <2>1, <2>2
<1>16. HashesAreEarly'
  <2>1. ASSUME NEW f \in Func PROVE <<"modified", f>> \notin v
    <3>1. CASE field # 3
      BY <1>3, <1>5, <3>1
    <3>2. CASE field = 3
      <4>1. \A x \in XorOf(word, HostedBy(Checkee(line))) : x # <<"modified", f>>
        BY XorOfWords DEF IInv, Words, HashesAreEarly, HostedBy
      <4> QED
        BY <1>5, <3>2, <4>1 DEF HashIn
    <3> QED
      BY <3>1, <3>2
  <2> QED
    BY <1>4, <1>7, <2>1 DEF IInv, Words, HashesAreEarly
<1>17. Words'
  BY <1>3, <1>4, <1>7, <1>15, <1>16 DEF Words
<1>18. Patching'
  <2>1. ASSUME NEW s \in Sites
        PROVE  /\ Past(s)' => ~Untouched(s)'
               /\ Current(s)' => (Untouched(s)' <=> s[3] \in todo')
               /\ ~Past(s)' /\ ~Current(s)' =>
                    (Untouched(s)' <=> s[3] \in addresses'[<<s[1], s[2]>>])
    <3>1. (Past(s)' <=> Past(s)) /\ (Current(s)' <=> Current(s))
      BY <1>1 DEF Past, Current
    <3>2. CASE s = p
      <4>1. Current(s) /\ s[3] \notin todo' /\ ~Untouched(s)'
        BY <1>2, <1>3, <1>8, <3>2 DEF Current
      <4>2. ~Past(s)
        BY <1>3, <3>2, GuideFacts DEF Past, IInv
      <4> QED
        BY <3>1, <4>1, <4>2
    <3>3. CASE s # p
      <4>1. Current(s) => s[3] # c
        BY <3>3, SiteFacts DEF Current, p
      <4> QED
        BY <1>1, <1>2, <1>8, <3>1, <3>3, <4>1 DEF IInv, Patching
    <3> QED
      BY <3>2, <3>3
  <2>2. DOMAIN addresses' = Lines' \X (1..3)
    BY <1>1, <1>7 DEF IInv, Patching
  <2>3. field' = 3 => expectedHash' = HashIn(word, line)'
    BY <1>1, <1>3, <1>14
  <2> QED
    BY <1>1, <1>3, <1>7, <2>1, <2>2, <2>3 DEF Patching
<1>19. /\ totalPatches' <= Cardinality(Touched') /\ totalPatches' \in 0..Cardinality(Sites')
  <2>1. Cardinality(Touched') = Cardinality(Touched) + 1
    BY <1>9, SitesFinite, FS_AddElement DEF IInv
  <2>2. Touched' \subseteq Sites
    BY <1>4, <1>9 DEF Touched
  <2>3. Cardinality(Touched') <= Cardinality(Sites)
    BY <2>2, SitesFinite, FS_Subset DEF IInv
  <2>4. totalPatches \in 0..Cardinality(Sites) /\ totalPatches <= Cardinality(Touched)
    BY DEF IInv, TypeOK, Counted
  <2>5. Cardinality(Touched) \in Nat /\ Cardinality(Sites) \in Nat
    BY SitesFinite DEF IInv
  <2> QED
    BY <1>1, <1>7, <2>1, <2>3, <2>4, <2>5
<1>20. TypeOK'
  <2>1. pc' = "patch" => /\ line' \in Lines' /\ field' \in 1..3
                         /\ todo' \subseteq addresses'[<<line', field'>>]
    BY <1>1, <1>2, <1>7 DEF IInv, TypeOK
  <2> QED
    BY <1>1, <1>4, <1>7, <1>19, <2>1 DEF IInv, TypeOK
<1>21. Counted' /\ ChangedLast' /\ PatchedMeansComplete'
  BY <1>1, <1>3, <1>19 DEF Counted, ChangedLast, PatchedMeansComplete
<1>22. Reports' /\ RefusalWritesNothing' /\ AtFirst'
  BY <1>1 DEF IInv, Reports, RefusalWritesNothing, AtFirst
<1> QED
  BY <1>3, <1>4, <1>7, <1>9, <1>17, <1>18, <1>20, <1>21, <1>22 DEF IInv

-----------------------------------------------------------------------------
(* The invariant                                                           *)

LEMMA InitHolds == Init => IInv
<1> SUFFICES ASSUME Init PROVE IInv
  OBVIOUS
<1>1. Touched = {} /\ DOMAIN word = Sites
  BY DEF Init, Touched, Untouched
<1>2. HashesAreEarly
  <2> SUFFICES ASSUME NEW s \in Sites, NEW f \in Func PROVE <<"modified", f>> \notin word[s]
    BY DEF HashesAreEarly
  <2>1. word[s] = {<<"placeholder", s[1], Fields[s[2]]>>}
    BY DEF Init, Placeholder
  <2>2. <<"modified", f>> # <<"placeholder", s[1], Fields[s[2]]>>
    OBVIOUS
  <2> QED
    BY <2>1, <2>2
<1>3. Words
  BY <1>1, <1>2 DEF Words
<1>4. guide \in Guides /\ copies \in [Lines -> 0..MaxCopies] /\ modified \subseteq Func
  BY DEF Init
<1>5. run \in 1..MaxRuns
  BY BoundAssumption DEF Init
<1>6. \A s \in DOMAIN addresses : addresses[s] \subseteq 1..copies[s[1]]
  BY DEF Init, NothingFound
<1>7. Cardinality(Sites) \in Nat /\ Cardinality(Touched) = 0
  <2>1. Len(guide) \in Nat
    <3>1. guide \in Seq([host : Func, checkee : Func])
      BY <1>4, GuideAssumption
    <3> QED
      BY <3>1, LenProperties
  <2>2. IsFiniteSet(Sites)
    BY <2>1, SitesOfGuideFinite
  <2> QED
    BY <1>1, <2>2, FS_CardinalityType, FS_EmptySet
<1>8. totalPatches \in 0..Cardinality(Sites) /\ Counted
  BY <1>7 DEF Init, Counted
<1>9. TypeOK
  BY <1>1, <1>4, <1>5, <1>6, <1>8 DEF Init, TypeOK
<1> QED
  BY <1>3, <1>8, <1>9
     DEF Init, IInv, Patching, Reports, AtFirst, ChangedLast, PatchedMeansComplete,
         RefusalWritesNothing

LEMMA StutterKeeps ==
  ASSUME IInv, UNCHANGED vars
  PROVE  IInv'
<1>1. /\ guide' = guide /\ copies' = copies /\ answer' = answer /\ word' = word
      /\ modified' = modified /\ run' = run /\ pc' = pc /\ addresses' = addresses
      /\ line' = line /\ field' = field /\ todo' = todo /\ expectedHash' = expectedHash
      /\ totalPatches' = totalPatches /\ dumpPatch' = dumpPatch /\ message' = message
  BY DEF vars, target, binary, progress
<1>2. /\ Words' /\ Sites' = Sites /\ Lines' = Lines /\ Touched' = Touched
      /\ AllPresent' = AllPresent /\ Complete' = Complete
      /\ \A s : Untouched(s)' = Untouched(s)
  BY <1>1, WordsStay DEF IInv, target
<1>3. HashIn(word, line)' = HashIn(word, line)
  BY <1>1, <1>2 DEF HashIn, IsDummy, Checkee, HostedBy, Host, XorOf
<1>4. \A s : (Past(s)' <=> Past(s)) /\ (Current(s)' <=> Current(s))
  BY <1>1 DEF Past, Current
<1>5. TypeOK'
  BY <1>1, <1>2 DEF IInv, TypeOK
<1>6. Patching'
  BY <1>1, <1>2, <1>3, <1>4 DEF IInv, Patching
<1>7. Counted' /\ ChangedLast' /\ PatchedMeansComplete'
  BY <1>1, <1>2 DEF IInv, Counted, ChangedLast, PatchedMeansComplete
<1>8. Reports' /\ RefusalWritesNothing' /\ AtFirst'
  BY <1>1 DEF IInv, Reports, RefusalWritesNothing, AtFirst
<1> QED
  BY <1>2, <1>5, <1>6, <1>7, <1>8 DEF IInv

LEMMA StepKeeps == IInv /\ [Next]_vars => IInv'
<1> SUFFICES ASSUME IInv, [Next]_vars PROVE IInv'
  OBVIOUS
<1>1. CASE Patch
  BY <1>1, NothingToPatchKeeps, ReadGuideKeeps, FindAllKeeps, PatchCopyKeeps,
     PackErrorKeeps, NextFieldKeeps, NextLineKeeps, FinishKeeps DEF Patch
<1>2. CASE Kill
  BY <1>2, KillKeeps
<1>3. CASE RunAgain
  BY <1>3, RunAgainKeeps
<1>4. CASE \E f \in Func : Modify(f)
  BY <1>4, ModifyKeeps
<1>5. CASE UNCHANGED vars
  BY <1>5, StutterKeeps
<1> QED
  BY <1>1, <1>2, <1>3, <1>4, <1>5 DEF Next

(* The invariant holds of every reachable state.                           *)
THEOREM PatcherInvariance == Spec => []IInv
BY InitHolds, StepKeeps, PTL DEF Spec

(* Type correctness, with the count of the patches bounded by the words.   *)
THEOREM PatcherTypeCorrect == Spec => []TypeOK
<1>1. IInv => TypeOK
  BY DEF IInv
<1> QED
  BY <1>1, PatcherInvariance, PTL

(* A run that says there is nothing to patch has it from the stats.        *)
Told == message = "nothing" => NoGuards

LEMMA ToldInvariance == Spec => []Told
<1>1. Init => Told
  BY DEF Init, Told
<1>2. Told /\ [Next]_vars => Told'
  <2> SUFFICES ASSUME Told, [Next]_vars PROVE Told'
    OBVIOUS
  <2>1. mode' = mode /\ numberOfGuards' = numberOfGuards
    BY DEF Next, Patch, NothingToPatch, ReadGuide, FindAllPlaceholders, PatchCopy, PackError,
           NextField, NextLine, Finish, Kill, RunAgain, Modify, vars, target
  <2>2. message' = "nothing" => message = "nothing" \/ NothingToPatch
    BY DEF Next, Patch, ReadGuide, FindAllPlaceholders, PatchCopy, PackError,
           NextField, NextLine, Finish, Kill, RunAgain, Modify, vars
  <2> QED
    BY <2>1, <2>2 DEF Told, NoGuards, NothingToPatch
<1> QED
  BY <1>1, <1>2, PTL DEF Spec

(* dump_pipe.py ends in success only over a binary without placeholders,   *)
(* whatever was killed before, unless it was given stale stats.            *)
THEOREM SuccessIsComplete == Spec => []DoneMeansComplete
<1>1. ASSUME IInv, Told PROVE DoneMeansComplete
  <2> SUFFICES ASSUME pc = "done", StatsOfGuide PROVE Complete
    BY DEF DoneMeansComplete
  <2>1. CASE message # "nothing"
    BY <1>1, <2>1 DEF IInv, PatchedMeansComplete
  <2>2. CASE message = "nothing"
    <3>1. guide = <<>>
      BY <1>1, <2>2 DEF Told, NoGuards, StatsOfGuide
    <3>2. Lines = {}
      BY <3>1, EmptySeq DEF Lines
    <3> QED
      BY <3>2, SiteFacts DEF Complete
  <2> QED
    BY <2>1, <2>2
<1> QED
  BY <1>1, PatcherInvariance, ToldInvariance, PTL

(* dump_pipe.py gives up with an error before its first write.             *)
THEOREM RefusalIsClean == Spec => []RefusalWritesNothing
<1>1. IInv => RefusalWritesNothing
  BY DEF IInv
<1> QED
  BY <1>1, PatcherInvariance, PTL

-----------------------------------------------------------------------------
(* The guards of a complete binary                                         *)

LEMMA SameAddress ==
  ASSUME NEW f, NEW g, {<<"address", f>>} = {<<"address", g>>}
  PROVE  g = f
<1>1. <<"address", f>> \in {<<"address", g>>}
  OBVIOUS
<1>2. <<"address", f>>[2] = <<"address", g>>[2]
  BY <1>1
<1> QED
  BY <1>2

(* guardMe compares the bytes of the function with the hash in its words;  *)
(* they are the bytes that were hashed unless its own code was changed.    *)
LEMMA GuardIsRight ==
  ASSUME IInv, Complete, NEW i \in Lines, NEW c \in 1..copies[i]
  PROVE  Passes(i, c) <=> IsDummy(i) \/ Checkee(i) \notin modified
<1>1. Touched = Sites /\ Checkee(i) \in Func
  BY CompleteTouched, GuideFacts DEF IInv
<1>2. c \in 1..MaxCopies /\ c <= copies[i]
  BY GuideFacts, BoundAssumption DEF IInv
<1>3. <<i, 1, c>> \in Touched /\ <<i, 2, c>> \in Touched /\ <<i, 3, c>> \in Touched
  BY <1>1, <1>2, SiteExists
<1>4. /\ word[<<i, 1, c>>] = {<<"address", FoundFunc(i)>>}
      /\ word[<<i, 2, c>>] = IF IsDummy(i) THEN {} ELSE {<<"size", FoundFunc(i)>>}
      /\ word[<<i, 3, c>>] = HashIn(word, i)
  BY <1>3 DEF IInv, Words, Settled
<1>5. CASE IsDummy(i)
  BY <1>4, <1>5 DEF Passes, GuardMe, HashIn
<1>6. CASE ~IsDummy(i)
  <2> DEFINE f == Checkee(i)
             X == XorOf(word, HostedBy(f))
  <2>1. /\ word[<<i, 1, c>>] = {<<"address", f>>} /\ word[<<i, 2, c>>] = {<<"size", f>>}
        /\ word[<<i, 3, c>>] = {<<"code", f>>} \cup X
    BY <1>4, <1>6 DEF HashIn, FoundFunc
  <2>2. Hash(f) = OwnCode(f) \cup X
    BY DEF Hash, Xor, XorOf, HostedBy
  <2>3. \A g \in Func : {<<"address", f>>} = {<<"address", g>>} => g = f
    BY SameAddress
  <2>4. {g \in Func : {<<"address", f>>} = {<<"address", g>>}
                      /\ {<<"size", f>>} = {<<"size", g>>}} = {f}
    BY <1>1, <2>3
  <2>5. UNION {Hash(g) : g \in {f}} = Hash(f)
    OBVIOUS
  <2>6. Passes(i, c) <=> Hash(f) = {<<"code", f>>} \cup X
    <3>1. {<<"size", f>>} # {}
      OBVIOUS
    <3>2. GuardMe({<<"address", f>>}, {<<"size", f>>}, {<<"code", f>>} \cup X)
            <=> UNION {Hash(g) : g \in {f}} = {<<"code", f>>} \cup X
      BY <2>4, <3>1, Zenon DEF GuardMe
    <3> QED
      BY <2>1, <2>5, <3>2 DEF Passes
  <2>7. f \notin modified => Passes(i, c)
    BY <2>2, <2>6 DEF OwnCode
  <2>8. f \in modified => ~Passes(i, c)
    <3>1. <<"modified", f>> \notin {<<"code", f>>} \cup X
      BY <1>1, <1>3, <2>1 DEF IInv, Words, HashesAreEarly
    <3>2. f \in modified => <<"modified", f>> \in Hash(f)
      BY <2>2 DEF OwnCode
    <3> QED
      BY <2>6, <3>1, <3>2
  <2> QED
    BY <1>6, <2>7, <2>8
<1> QED
  BY <1>5, <1>6

(* The guards of a binary without placeholders raise an alarm exactly when *)
(* the code they watch has been changed, whatever runs have patched it.    *)
THEOREM GuardsAreRight == Spec => []AlarmsExactlyOnChange
<1>1. IInv => AlarmsExactlyOnChange
  BY GuardIsRight DEF AlarmsExactlyOnChange
<1> QED
  BY <1>1, PatcherInvariance, PTL

-----------------------------------------------------------------------------
(* The patcher implements GuardedBinary                                    *)

LEMMA StateFacts ==
  /\ State = "raw" <=> Touched = {}
  /\ State = "complete" <=> Touched = Sites /\ Sites # {}
  /\ State \in {"raw", "torn", "complete"}
<1>1. (Sites = {} \/ \A s \in Sites : word[s] = Placeholder(s[1], s[2])) <=> Touched = {}
  BY DEF Touched, Untouched
<1>2. CASE Touched = {}
  BY <1>1, <1>2, CompleteTouched DEF State
<1>3. CASE Touched # {}
  <2>1. Sites # {}
    BY <1>3 DEF Touched
  <2> QED
    BY <1>1, <1>3, <2>1, CompleteTouched DEF State
<1> QED
  BY <1>2, <1>3

(* Alarms are those of the changed functions, once there are any.          *)
LEMMA AlarmsFacts ==
  ASSUME IInv
  PROVE  Alarms = Binary!AlarmsOf(State, modified)
<1>1. DOMAIN Watched = Lines /\ \A i \in Lines : Watched[i] = FoundFunc(i)
  BY DEF Watched, FoundFunc
<1>2. CASE State # "complete"
  BY <1>2 DEF Alarms, Binary!AlarmsOf
<1>3. CASE State = "complete"
  <2>1. Complete /\ Touched # {} /\ AllPresent
    BY <1>3, StateFacts, CompleteTouched DEF IInv, Words
  <2>2. ASSUME NEW i \in Lines
        PROVE  (\E c \in 1..copies[i] : ~Passes(i, c)) <=> Watched[i] \in modified
    <3>1. 1 \in 1..copies[i]
      BY <2>1, GuideFacts DEF AllPresent, IInv
    <3>2. (\E c \in 1..copies[i] : ~Passes(i, c)) <=> ~IsDummy(i) /\ Checkee(i) \in modified
      BY <2>1, <3>1, GuardIsRight
    <3>3. Other \notin modified
      BY FuncAssumption DEF IInv, TypeOK
    <3> QED
      BY <1>1, <3>2, <3>3 DEF FoundFunc
  <2> QED
    BY <1>1, <1>3, <2>2 DEF Alarms, Binary!AlarmsOf
<1> QED
  BY <1>2, <1>3

LEMMA BinaryInit == Init => Binary!Init
<1> SUFFICES ASSUME Init PROVE Binary!Init
  OBVIOUS
<1>1. Touched = {} /\ modified = {}
  BY DEF Init, Touched, Untouched
<1>2. State = "raw"
  BY <1>1, StateFacts
<1> QED
  BY <1>1, <1>2 DEF Binary!Init, Alarms

AlarmsRight == Alarms = Binary!AlarmsOf(State, modified)

(* A step that writes nothing and changes no code is none of the binary.   *)
LEMMA BinaryStays ==
  ASSUME IInv, AlarmsRight, AlarmsRight', UNCHANGED <<target, binary>>
  PROVE  UNCHANGED Binary!bvars
<1>1. /\ guide' = guide /\ answer' = answer /\ modified' = modified /\ word' = word
      /\ copies' = copies
  BY DEF target, binary
<1>2. Touched' = Touched /\ Sites' = Sites /\ Lines' = Lines
  BY <1>1, WordsStay DEF IInv, target
<1>3. Watched' = Watched
  BY <1>1, <1>2 DEF Watched, IsDummy, Checkee
<1>4. State' = State
  BY <1>1, <1>2 DEF State, Complete, Placeholder
<1>5. Alarms' = Alarms
  BY <1>1, <1>3, <1>4 DEF AlarmsRight, Binary!AlarmsOf
<1> QED
  BY <1>1, <1>3, <1>4, <1>5 DEF Binary!bvars

(* The first write tears a raw binary, the last one completes it: there    *)
(* are three words at least.                                               *)
LEMMA BinaryWrite ==
  ASSUME IInv, AlarmsRight, AlarmsRight', PatchCopy,
         State' = "raw" <=> Touched' = {},
         State' = "complete" <=> Touched' = Sites' /\ Sites' # {},
         State' \in {"raw", "torn", "complete"}
  PROVE  [Binary!Next]_(Binary!bvars)
<1>1. /\ guide' = guide /\ answer' = answer /\ modified' = modified
      /\ pc = "patch"
  BY DEF PatchCopy, target
<1>2. PICK p \in Sites : /\ p[1] = line /\ p[2] = field /\ p \notin Touched
                         /\ Touched' = Touched \cup {p}
  BY PatchCopyKeeps
<1>3. Sites' = Sites /\ Lines' = Lines
  BY <1>1, PatchCopyKeeps DEF Lines
<1>4. Watched' = Watched
  BY <1>1, <1>3 DEF Watched, IsDummy, Checkee
<1>5. State # "complete" /\ State' # "raw"
  BY <1>2, StateFacts
<1>6. Alarms = {} /\ Alarms' = IF State' = "complete" THEN Binary!AlarmsOf("complete", modified) ELSE {}
  BY <1>1, <1>4, <1>5 DEF AlarmsRight, Binary!AlarmsOf
<1>7. CASE State = "raw"
  <2>1. Touched = {} /\ Touched' = {p}
    BY <1>2, <1>7, StateFacts
  <2>2. PICK n \in 1..3 : n # field
    <3>1. 1 # field \/ 2 # field
      OBVIOUS
    <3> QED
      BY <3>1
  <2>3. <<p[1], n, p[3]>> \in Sites
    BY SiteFacts, SiteExists
  <2>4. <<p[1], n, p[3]>> # p
    BY <1>2, <2>2
  <2>5. State' = "torn"
    BY <1>3, <1>5, <2>1, <2>3, <2>4
  <2> QED
    BY <1>1, <1>4, <1>6, <1>7, <2>5 DEF Binary!Next, Binary!Tear
<1>8. CASE State = "torn" /\ State' = "torn"
  BY <1>1, <1>4, <1>6, <1>8 DEF Binary!bvars
<1>9. CASE State = "torn" /\ State' = "complete"
  BY <1>1, <1>4, <1>6, <1>9 DEF Binary!Next, Binary!Complete
<1> QED
  BY <1>5, <1>7, <1>8, <1>9, StateFacts

LEMMA BinaryModify ==
  ASSUME IInv, AlarmsRight, AlarmsRight', NEW f \in Func, Modify(f)
  PROVE  Binary!Next
<1>1. /\ guide' = guide /\ answer' = answer /\ word' = word /\ copies' = copies
      /\ modified' = modified \cup {f}
  BY DEF Modify, target
<1>2. Touched' = Touched /\ Sites' = Sites /\ Lines' = Lines
  BY <1>1, WordsStay DEF IInv, target
<1>3. Watched' = Watched
  BY <1>1, <1>2 DEF Watched, IsDummy, Checkee
<1>4. State' = State
  BY <1>1, <1>2 DEF State, Complete, Placeholder
<1>5. Alarms' = Binary!AlarmsOf(State, modified')
  BY <1>3, <1>4 DEF AlarmsRight, Binary!AlarmsOf
<1>6. Binary!Modify(f)
  BY <1>1, <1>3, <1>4, <1>5 DEF Binary!Modify
<1> QED
  BY <1>6 DEF Binary!Next

StateRight ==
  /\ State = "raw" <=> Touched = {}
  /\ State = "complete" <=> Touched = Sites /\ Sites # {}
  /\ State \in {"raw", "torn", "complete"}

BInv == IInv /\ AlarmsRight /\ StateRight

LEMMA BinaryInvariance == Spec => []BInv
<1>1. IInv => BInv
  BY AlarmsFacts, StateFacts DEF BInv, AlarmsRight, StateRight
<1> QED
  BY <1>1, PatcherInvariance, PTL

LEMMA BinaryNext == BInv /\ BInv' /\ [Next]_vars => [Binary!Next]_(Binary!bvars)
<1> SUFFICES ASSUME BInv, BInv', [Next]_vars PROVE [Binary!Next]_(Binary!bvars)
  OBVIOUS
<1>1. IInv /\ AlarmsRight /\ AlarmsRight'
  BY DEF BInv
<1>2. CASE PatchCopy
  BY <1>1, <1>2, BinaryWrite DEF BInv, StateRight
<1>3. CASE \E f \in Func : Modify(f)
  BY <1>1, <1>3, BinaryModify
<1>4. CASE ~PatchCopy /\ ~(\E f \in Func : Modify(f))
  <2>1. UNCHANGED <<target, binary>>
    BY <1>4 DEF Next, Patch, NothingToPatch, ReadGuide, FindAllPlaceholders, PackError,
                NextField, NextLine, Finish, Kill, RunAgain, vars
  <2> QED
    BY <1>1, <2>1, BinaryStays
<1> QED
  BY <1>2, <1>3, <1>4

(* The patcher keeps the promise of GuardedBinary: a binary is raw until   *)
(* the first write, complete from the last one on, and its guards raise    *)
(* alarms exactly of the functions that have been changed.                 *)
THEOREM PatcherRefinement == Spec => ImplementsGuardedBinary
<1>1. Spec => Binary!Init /\ [][Binary!Next]_(Binary!bvars)
  BY BinaryInit, BinaryInvariance, BinaryNext, PTL DEF Spec
<1> QED
  BY <1>1 DEF ImplementsGuardedBinary, Binary!Spec
=============================================================================
