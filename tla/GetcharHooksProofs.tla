------------------------- MODULE GetcharHooksProofs -------------------------
(***************************************************************************)
(* Proofs about GetcharHooks, for every set of characters, every recording *)
(* put in place and any number of calls and runs.                          *)
(*                                                                         *)
(* Two facts carry the argument.  The disk is never more than one number   *)
(* ahead of what the recorded program saw, and only between the write and  *)
(* the return of a call; if no write failed, it is not behind either.  And *)
(* the pointer f tells what a replaying run has done so far: with NULL it  *)
(* has only asked the terminal, with an open file it has played the first  *)
(* pos numbers, with a closed one the whole file.                          *)
(***************************************************************************)
EXTENDS GetcharHooks, SequenceTheorems, TLAPS

-----------------------------------------------------------------------------
(* The inductive invariant                                                 *)

Value  == Char \cup {Garbage}
Source == {"terminal", "file", "nowhere"}
Answer == [value : Value, from : Source]

AllFrom(source) == \A i \in 1..Len(returned) : returned[i].from = source

(* A call in progress has its place in the bound.                          *)
Bounded == pc # "caller" => Len(returned) < MaxCalls

(* Between two runs nothing is left of the process.                        *)
Between ==
  hook = "none" => pc = "caller" /\ f = "NULL" /\ ~tried /\ pos = 0 /\ returned = <<>>

(* What is on disk is what the recorded program got to see, and at most    *)
(* one number more; if a write failed, no more than that.                  *)
OnDisk ==
  /\ file = NoFile <=> recorded = NoFile
  /\ file # NoFile => Len(file) <= Len(recorded) + 1
  /\ file # NoFile /\ ~lost =>
       /\ file \in Seq(Char)
       /\ Len(recorded) <= Len(file)
       /\ \A i \in 1..Len(recorded) : file[i] = recorded[i]

(* A recording run that has opened the file has its answers in recorded;   *)
(* the number more is that of the call in progress, once it is written.    *)
Recording ==
  hook = "record" =>
    /\ ~tried /\ pos = 0 /\ pc # "looked"
    /\ AllFrom("terminal")
    /\ f = "NULL" => returned = <<>> /\ pc = "caller"
    /\ f = "closed" /\ pc = "caller" => returned # <<>>
    /\ f # "NULL" => /\ file # NoFile
                     /\ Len(recorded) = Len(returned)
                     /\ \A i \in 1..Len(returned) : returned[i].value = recorded[i]
                     /\ pc # "written" => Len(file) <= Len(recorded)
                     /\ pc = "written" /\ ~lost =>
                          /\ Len(file) = Len(recorded) + 1
                          /\ file[Len(recorded) + 1] = result

(* A replaying run has asked the terminal, or played the first pos numbers *)
(* and then, past the end, returned nothing.                               *)
Played(i) == returned[i].from = "file" /\ returned[i].value \in Scanned(file[i])

Replaying ==
  hook = "replay" =>
    /\ pc \in {"caller", "looked"}
    /\ pc = "looked" => tried
    /\ ~tried => f = "NULL" /\ pos = 0 /\ returned = <<>>
    /\ f = "NULL" => AllFrom("terminal")
    /\ f # "NULL" =>
         /\ file # NoFile
         /\ pos <= Len(file) /\ pos <= Len(returned)
         /\ \A i \in 1..Len(returned) :
              IF i <= pos THEN Played(i) ELSE returned[i].from = "nowhere"
    /\ f = "open" => Len(returned) = pos
    /\ f = "closed" => pos = Len(file)

IInv == TypeOK /\ Bounded /\ Between /\ Recording /\ Replaying /\ OnDisk

-----------------------------------------------------------------------------
(* Lemmas                                                                  *)

(* A sequence with one more element.                                       *)
LEMMA AppendFacts ==
  ASSUME NEW S, NEW s \in Seq(S), NEW e \in S
  PROVE  /\ Append(s, e) \in Seq(S)
         /\ Len(s) \in Nat
         /\ Len(Append(s, e)) = Len(s) + 1
         /\ Append(s, e) # <<>>
         /\ \A i \in 1..Len(s) : Append(s, e)[i] = s[i]
         /\ Append(s, e)[Len(s) + 1] = e
<1>1. Len(s) \in Nat /\ Len(<<>>) = 0
  BY LenProperties
<1> QED
  BY <1>1

(* What a return does to the answers of the run.                           *)
LEMMA ReturnFacts ==
  ASSUME TypeOK, Len(returned) < MaxCalls,
         NEW c \in Value, NEW source \in Source, Return(c, source)
  PROVE  /\ pc' = "caller"
         /\ returned' \in Seq(Answer)
         /\ Len(returned) \in Nat
         /\ Len(returned') = Len(returned) + 1
         /\ Len(returned') <= MaxCalls
         /\ returned' # <<>>
         /\ \A i \in 1..Len(returned) : returned'[i] = returned[i]
         /\ returned'[Len(returned) + 1] = [value |-> c, from |-> source]
<1> DEFINE e == [value |-> c, from |-> source]
<1>1. returned \in Seq(Answer) /\ e \in Answer
  BY DEF TypeOK, Answer, Value, Source
<1>2. returned' = Append(returned, e) /\ pc' = "caller"
  BY DEF Return
<1> HIDE DEF e
<1>3. /\ returned' \in Seq(Answer)
      /\ Len(returned) \in Nat
      /\ Len(returned') = Len(returned) + 1
      /\ returned' # <<>>
      /\ \A i \in 1..Len(returned) : returned'[i] = returned[i]
      /\ returned'[Len(returned) + 1] = e
  BY <1>1, <1>2, AppendFacts
<1>4. Len(returned') <= MaxCalls
  BY <1>3, BoundAssumption
<1> QED
  BY <1>2, <1>3, <1>4 DEF e

(* A recording that nothing has spoiled is one that may be on disk.        *)
LEMMA CharsAreNumbers == Seq(Char) \subseteq Seq(Number)
<1>1. Char \subseteq Number
  BY DEF Number
<1> QED
  BY <1>1, SeqMonotonic

(* A process that is gone leaves the disk as it is.                        *)
LEMMA GoneKeeps ==
  ASSUME IInv, Gone
  PROVE  IInv'
<1>1. /\ hook' = "none" /\ pc' = "caller" /\ f' = "NULL"
      /\ tried' = FALSE /\ pos' = 0 /\ returned' = <<>>
      /\ file' = file /\ recorded' = recorded /\ lost' = lost /\ runs' = runs
      /\ result' = Garbage
  BY DEF Gone, disk
<1>2. <<>> \in Seq(Answer) /\ Len(<<>>) = 0 /\ 0 <= MaxCalls
  BY EmptySeq, BoundAssumption
<1>3. TypeOK'
  BY <1>1, <1>2 DEF IInv, TypeOK, Answer, Value, Source
<1> QED
  BY <1>1, <1>3 DEF IInv, Bounded, Between, Recording, Replaying, OnDisk

-----------------------------------------------------------------------------
(* The steps of a run that records                                         *)

LEMMA OpenRecordKeeps ==
  ASSUME IInv, OpenRecord
  PROVE  IInv'
<1>1. /\ hook = "record" /\ pc = "caller" /\ Len(returned) < MaxCalls
      /\ f' = "open" /\ pc' = "reading" /\ runs' = runs /\ hook' = hook
      /\ result' = result /\ tried' = tried /\ pos' = pos /\ returned' = returned
      /\ lost' = (returned # <<>> /\ lost)
  BY DEF OpenRecord, Calling
<1>2. /\ file' \in Seq(Number) /\ recorded' \in Seq(Char)
      /\ OnDisk'
      /\ Len(recorded') = Len(returned) /\ Len(file') <= Len(recorded')
      /\ \A i \in 1..Len(returned) : returned[i].value = recorded'[i]
  <2>1. CASE f = "NULL"
    <3>1. returned = <<>> /\ file' = <<>> /\ recorded' = <<>> /\ lost' = FALSE
      BY <1>1, <2>1 DEF IInv, Recording, OpenRecord, Truncates
    <3>2. /\ <<>> \in Seq(Number) /\ <<>> \in Seq(Char) /\ Len(<<>>) = 0
          /\ <<>> # NoFile
      BY EmptySeq, FileAssumption
    <3> QED
      BY <3>1, <3>2 DEF OnDisk
  <2>2. CASE f # "NULL"
    <3>1. f = "closed" /\ returned # <<>> /\ file # NoFile
      BY <1>1, <2>2 DEF IInv, TypeOK, Recording
    <3>2. file' = file /\ recorded' = recorded /\ lost' = lost
      BY <1>1, <2>2, <3>1 DEF OpenRecord, Truncates, IInv, TypeOK
    <3>3. file \in Seq(Number) /\ recorded \in Seq(Char)
      BY <3>1 DEF IInv, TypeOK, OnDisk
    <3> QED
      BY <1>1, <3>1, <3>2, <3>3 DEF IInv, Recording, OnDisk
  <2> QED
    BY <2>1, <2>2
<1>3. file' # NoFile
  BY <1>2, FileAssumption
<1>4. TypeOK'
  BY <1>1, <1>2 DEF IInv, TypeOK
<1>5. Recording'
  BY <1>1, <1>2, <1>3 DEF IInv, Recording, AllFrom
<1> QED
  BY <1>1, <1>2, <1>4, <1>5 DEF IInv, Bounded, Between, Replaying

LEMMA ReadTerminalKeeps ==
  ASSUME IInv, NEW c \in Char, ReadTerminal(c)
  PROVE  IInv'
<1>1. /\ hook = "record" /\ pc = "reading" /\ result' = c /\ pc' = "read"
      /\ file' = file /\ recorded' = recorded /\ lost' = lost /\ runs' = runs
      /\ hook' = hook /\ f' = f /\ tried' = tried /\ pos' = pos /\ returned' = returned
  BY DEF ReadTerminal, disk
<1>2. f = "open"
  BY <1>1 DEF IInv, TypeOK
<1>3. TypeOK'
  BY <1>1, <1>2 DEF IInv, TypeOK
<1>4. Recording'
  BY <1>1, <1>2 DEF IInv, Recording, AllFrom
<1>5. OnDisk'
  BY <1>1 DEF IInv, OnDisk
<1> QED
  BY <1>1, <1>3, <1>4, <1>5 DEF IInv, Bounded, Between, Replaying

(* What a write leaves, if it succeeds and if it does not.                 *)
LEMMA WriteFacts ==
  ASSUME file \in Seq(Number), result \in Char, NEW after \in Written \cup Cut
  PROVE  after \in Seq(Number) /\ Len(after) <= Len(file) + 1
<1>1. Len(file) \in Nat /\ result \in Number /\ Garbage \in Number /\ Torn \in Number
  BY LenProperties DEF Number
<1>2. CASE EndsTorn
  <2>1. Mended \in Seq(Number) /\ Len(Mended) = Len(file)
    <3>1. Len(file) \in 1..Len(file)
      BY <1>1, <1>2, EmptySeq DEF EndsTorn
    <3> QED
      BY <1>1, <3>1, ExceptSeq DEF Mended
  <2>2. \A e \in Number : /\ Append(Mended, e) \in Seq(Number)
                          /\ Len(Append(Mended, e)) = Len(file) + 1
    BY <2>1, AppendFacts
  <2>3. after \in {file, Mended, Append(Mended, Garbage), Append(Mended, Torn)}
    BY <1>2 DEF Written, Cut
  <2> QED
    BY <1>1, <2>1, <2>2, <2>3
<1>3. CASE ~EndsTorn
  <2>1. \A e \in Number : /\ Append(file, e) \in Seq(Number)
                          /\ Len(Append(file, e)) = Len(file) + 1
    BY AppendFacts
  <2>2. after \in {file, Append(file, result), Append(file, Torn)}
    BY <1>3 DEF Written, Cut
  <2> QED
    BY <1>1, <2>1, <2>2
<1> QED
  BY <1>2, <1>3

LEMMA WriteOutKeeps ==
  ASSUME IInv, WriteOut
  PROVE  IInv'
<1>1. /\ hook = "record" /\ pc = "read" /\ f' = "closed" /\ pc' = "written"
      /\ recorded' = recorded /\ runs' = runs /\ hook' = hook /\ result' = result
      /\ tried' = tried /\ pos' = pos /\ returned' = returned
      /\ file' \in Written \cup Cut
  BY DEF WriteOut
<1>2. \/ file' \in Written /\ lost' = lost
      \/ lost' = TRUE
  BY DEF WriteOut
<1>3. f = "open" /\ result \in Char /\ file # NoFile
  BY <1>1 DEF IInv, TypeOK, Recording
<1>4. file \in Seq(Number) /\ recorded \in Seq(Char) /\ recorded # NoFile
  BY <1>3 DEF IInv, TypeOK, OnDisk
<1>5. Len(file) \in Nat /\ Len(recorded) \in Nat /\ Len(file) <= Len(recorded)
  BY <1>1, <1>3, <1>4, LenProperties DEF IInv, Recording
<1>6. /\ file' \in Seq(Number) /\ Len(file') \in Nat
      /\ Len(file') <= Len(file) + 1 /\ file' # NoFile
  BY <1>1, <1>3, <1>4, WriteFacts, LenProperties, FileAssumption
<1>7. ASSUME ~lost'
      PROVE  /\ file' \in Seq(Char) /\ Len(file') = Len(recorded) + 1
             /\ \A i \in 1..Len(recorded) : file'[i] = recorded[i]
             /\ file'[Len(recorded) + 1] = result
  <2>1. ~lost /\ file' \in Written
    BY <1>2, <1>7
  <2>2. /\ file \in Seq(Char) /\ Len(file) = Len(recorded)
        /\ \A i \in 1..Len(recorded) : file[i] = recorded[i]
    BY <1>3, <1>5, <2>1 DEF IInv, OnDisk
  <2>3. ~EndsTorn
    <3>1. ASSUME EndsTorn PROVE FALSE
      <4>1. Len(file) \in 1..Len(file)
        BY <1>5, <2>2, <3>1, EmptySeq DEF EndsTorn
      <4>2. Torn \in Char
        BY <2>2, <3>1, <4>1, ElementOfSeq DEF EndsTorn
      <4> QED
        BY <4>2, CharAssumption
    <3> QED
      BY <3>1
  <2>4. file' = Append(file, result)
    BY <2>1, <2>3 DEF Written
  <2> QED
    BY <1>3, <2>2, <2>4, AppendFacts
<1>8. TypeOK'
  BY <1>1, <1>2, <1>3, <1>6 DEF IInv, TypeOK
<1>9. Recording'
  BY <1>1, <1>3, <1>6, <1>7 DEF IInv, Recording, AllFrom
<1>10. OnDisk'
  BY <1>1, <1>4, <1>5, <1>6, <1>7 DEF OnDisk
<1> QED
  BY <1>1, <1>8, <1>9, <1>10 DEF IInv, Bounded, Between, Replaying

LEMMA ReturnRecordedKeeps ==
  ASSUME IInv, ReturnRecorded
  PROVE  IInv'
<1>1. /\ hook = "record" /\ pc = "written" /\ Return(result, "terminal")
      /\ recorded' = Append(recorded, result) /\ result' = Garbage
      /\ file' = file /\ lost' = lost /\ runs' = runs /\ hook' = hook /\ f' = f
      /\ tried' = tried /\ pos' = pos
  BY DEF ReturnRecorded
<1>2. /\ f = "closed" /\ result \in Char /\ Len(returned) < MaxCalls
      /\ file # NoFile
  BY <1>1 DEF IInv, TypeOK, Bounded, Recording
<1>3. /\ file \in Seq(Number) /\ recorded \in Seq(Char)
      /\ Len(recorded) = Len(returned)
      /\ Len(file) <= Len(recorded) + 1
      /\ \A i \in 1..Len(returned) : returned[i].value = recorded[i]
  BY <1>1, <1>2 DEF IInv, TypeOK, Recording, OnDisk
<1>4. /\ pc' = "caller" /\ returned' \in Seq(Answer) /\ Len(returned) \in Nat
      /\ Len(returned') = Len(returned) + 1 /\ Len(returned') <= MaxCalls
      /\ returned' # <<>>
      /\ \A i \in 1..Len(returned) : returned'[i] = returned[i]
      /\ returned'[Len(returned) + 1] = [value |-> result, from |-> "terminal"]
  BY <1>1, <1>2, ReturnFacts DEF IInv, Value, Source
<1>5. /\ recorded' \in Seq(Char) /\ Len(recorded') = Len(recorded) + 1
      /\ \A i \in 1..Len(recorded) : recorded'[i] = recorded[i]
      /\ recorded'[Len(recorded) + 1] = result
  BY <1>1, <1>2, <1>3, AppendFacts
<1>6. \A i \in 1..Len(returned') :
        returned'[i].from = "terminal" /\ returned'[i].value = recorded'[i]
  <2> SUFFICES ASSUME NEW i \in 1..Len(returned')
               PROVE  returned'[i].from = "terminal" /\ returned'[i].value = recorded'[i]
    OBVIOUS
  <2>1. CASE i \in 1..Len(returned)
    BY <1>1, <1>3, <1>4, <1>5, <2>1 DEF IInv, Recording, AllFrom
  <2>2. CASE i = Len(returned) + 1
    BY <1>3, <1>4, <1>5, <2>2
  <2> QED
    BY <1>4, <2>1, <2>2
<1>7. recorded' # NoFile
  BY <1>5, FileAssumption, CharsAreNumbers
<1>8. ASSUME ~lost
      PROVE  /\ file \in Seq(Char) /\ Len(file) = Len(recorded')
             /\ \A i \in 1..Len(recorded') : file[i] = recorded'[i]
  <2>1. /\ file \in Seq(Char) /\ Len(file) = Len(recorded) + 1
        /\ file[Len(recorded) + 1] = result
        /\ \A i \in 1..Len(recorded) : file[i] = recorded[i]
    BY <1>1, <1>2, <1>8 DEF IInv, OnDisk, Recording
  <2> SUFFICES ASSUME NEW i \in 1..Len(recorded') PROVE file[i] = recorded'[i]
    BY <1>5, <2>1
  <2>2. CASE i \in 1..Len(recorded)
    BY <1>5, <2>1, <2>2
  <2>3. CASE i = Len(recorded) + 1
    BY <1>5, <2>1, <2>3
  <2> QED
    BY <1>3, <1>4, <1>5, <2>2, <2>3
<1>9. TypeOK'
  BY <1>1, <1>2, <1>4, <1>5 DEF IInv, TypeOK, Answer, Value, Source
<1>10. Len(file) \in Nat /\ Len(recorded) \in Nat
  BY <1>3, LenProperties
<1>11. Recording'
  BY <1>1, <1>2, <1>3, <1>4, <1>5, <1>6, <1>10 DEF IInv, Recording, AllFrom
<1>12. OnDisk'
  BY <1>1, <1>2, <1>3, <1>5, <1>7, <1>8, <1>10 DEF OnDisk
<1> QED
  BY <1>1, <1>4, <1>9, <1>11, <1>12 DEF IInv, Bounded, Between, Replaying

-----------------------------------------------------------------------------
(* The steps of a run that replays                                         *)

LEMMA LookForFileKeeps ==
  ASSUME IInv, LookForFile
  PROVE  IInv'
<1>1. /\ hook = "replay" /\ Len(returned) < MaxCalls
      /\ f = "NULL" /\ tried = FALSE /\ tried' = TRUE /\ pc' = "looked"
      /\ f' = IF file = NoFile THEN "NULL" ELSE "open"
      /\ file' = file /\ recorded' = recorded /\ lost' = lost /\ runs' = runs
      /\ hook' = hook /\ result' = result /\ pos' = pos /\ returned' = returned
  BY DEF LookForFile, Calling, Looks, disk
<1>2. pos = 0 /\ returned = <<>> /\ Len(returned) = 0
  BY <1>1, EmptySeq DEF IInv, Replaying
<1>3. f' = "open" => file # NoFile /\ Len(file) \in Nat
  BY <1>1, LenProperties DEF IInv, TypeOK
<1>4. TypeOK'
  BY <1>1 DEF IInv, TypeOK
<1>5. Replaying'
  BY <1>1, <1>2, <1>3 DEF Replaying, AllFrom
<1> QED
  BY <1>1, <1>4, <1>5 DEF IInv, Bounded, Between, Recording, OnDisk

(* A step that goes past the opening is one of a replaying run.            *)
LEMMA PastFacts ==
  ASSUME IInv, Past
  PROVE  /\ hook = "replay" /\ Len(returned) < MaxCalls
         /\ pc \in {"caller", "looked"} /\ (f = "NULL" => tried)
<1>1. CASE hook = "replay" /\ pc = "looked"
  BY <1>1 DEF IInv, Bounded, Replaying
<1>2. CASE Calling("replay") /\ ~Looks
  BY <1>2 DEF IInv, TypeOK, Calling, Looks
<1> QED
  BY <1>1, <1>2 DEF Past

(* What every return of a replaying run keeps, if it keeps Replaying.      *)
LEMMA ReplayReturnKeeps ==
  ASSUME IInv, Past, NEW c \in Value, NEW source \in Source, Return(c, source),
         UNCHANGED <<disk, runs, hook, result, tried>>,
         f' \in {"NULL", "open", "closed"}, pos' \in Nat, Replaying'
  PROVE  IInv'
<1>1. /\ hook = "replay" /\ Len(returned) < MaxCalls
      /\ file' = file /\ recorded' = recorded /\ lost' = lost /\ runs' = runs
      /\ hook' = hook /\ result' = result /\ tried' = tried
  BY PastFacts DEF disk
<1>2. pc' = "caller" /\ returned' \in Seq(Answer) /\ Len(returned') <= MaxCalls
  BY <1>1, ReturnFacts DEF IInv
<1>3. TypeOK'
  BY <1>1, <1>2 DEF IInv, TypeOK, Answer, Value, Source
<1> QED
  BY <1>1, <1>2, <1>3 DEF IInv, Bounded, Between, Recording, OnDisk

LEMMA ReplayCharKeeps ==
  ASSUME IInv, ReplayChar
  PROVE  IInv'
<1>1. /\ Past /\ f = "open" /\ pos # Len(file) /\ pos' = pos + 1 /\ f' = f
      /\ UNCHANGED <<disk, runs, hook, result, tried>> /\ file' = file /\ tried' = tried
  BY DEF ReplayChar, AtEnd, disk
<1>2. hook = "replay" /\ hook' = hook /\ Len(returned) < MaxCalls
  BY <1>1, PastFacts
<1>3. /\ file # NoFile /\ Len(returned) = pos
      /\ pos \in Nat /\ Len(file) \in Nat /\ pos <= Len(file)
      /\ \A i \in 1..Len(returned) : Played(i)
  BY <1>1, <1>2, LenProperties DEF IInv, TypeOK, Replaying
<1>4. PICK c \in Scanned(file[pos + 1]) : Return(c, "file")
  BY DEF ReplayChar
<1>5. c \in Value /\ "file" \in Source
  BY DEF Scanned, Value, Source
<1>6. /\ pc' = "caller" /\ Len(returned') = pos + 1
      /\ \A i \in 1..pos : returned'[i] = returned[i]
      /\ returned'[pos + 1] = [value |-> c, from |-> "file"]
  BY <1>2, <1>3, <1>4, <1>5, ReturnFacts DEF IInv
<1>7. \A i \in 1..Len(returned') : Played(i)'
  <2> SUFFICES ASSUME NEW i \in 1..Len(returned') PROVE Played(i)'
    OBVIOUS
  <2>1. CASE i \in 1..pos
    BY <1>1, <1>3, <1>6, <2>1 DEF Played, Scanned
  <2>2. CASE i = pos + 1
    BY <1>1, <1>4, <1>6, <2>2 DEF Played, Scanned
  <2> QED
    BY <1>3, <1>6, <2>1, <2>2
<1>8. pos + 1 <= Len(file) /\ tried
  BY <1>1, <1>2, <1>3 DEF IInv, TypeOK, Replaying
<1>9. Replaying'
  BY <1>1, <1>2, <1>3, <1>6, <1>7, <1>8 DEF Replaying
<1>10. f' \in {"NULL", "open", "closed"} /\ pos' \in Nat
  BY <1>1, <1>3
<1> QED
  BY <1>1, <1>4, <1>5, <1>9, <1>10, ReplayReturnKeeps

(* Past the end nothing is returned, and what has been played stays.       *)
LEMMA NowhereKeeps ==
  ASSUME IInv, Past, f # "NULL", pos = Len(file), NEW c \in Value, Return(c, "nowhere"),
         UNCHANGED <<disk, runs, hook, result, tried, pos>>, f' = "closed"
  PROVE  IInv'
<1>1. /\ hook = "replay" /\ Len(returned) < MaxCalls /\ file' = file
      /\ hook' = hook /\ tried' = tried /\ pos' = pos
  BY PastFacts DEF disk
<1>2. /\ file # NoFile /\ tried
      /\ pos \in Nat /\ pos <= Len(returned)
      /\ \A i \in 1..Len(returned) :
           IF i <= pos THEN Played(i) ELSE returned[i].from = "nowhere"
  BY <1>1 DEF IInv, TypeOK, Replaying
<1>3. /\ pc' = "caller" /\ Len(returned) \in Nat
      /\ Len(returned') = Len(returned) + 1
      /\ \A i \in 1..Len(returned) : returned'[i] = returned[i]
      /\ returned'[Len(returned) + 1] = [value |-> c, from |-> "nowhere"]
  BY <1>1, ReturnFacts DEF IInv, Source
<1>4. \A i \in 1..Len(returned') :
        IF i <= pos THEN Played(i)' ELSE returned'[i].from = "nowhere"
  <2> SUFFICES ASSUME NEW i \in 1..Len(returned')
               PROVE  IF i <= pos THEN Played(i)' ELSE returned'[i].from = "nowhere"
    OBVIOUS
  <2>1. CASE i \in 1..Len(returned)
    BY <1>1, <1>2, <1>3, <2>1 DEF Played, Scanned
  <2>2. CASE i = Len(returned) + 1
    BY <1>2, <1>3, <2>2
  <2> QED
    BY <1>3, <2>1, <2>2
<1>5. Replaying'
  BY <1>1, <1>2, <1>3, <1>4 DEF Replaying
<1>6. "nowhere" \in Source /\ f' \in {"NULL", "open", "closed"} /\ pos' \in Nat
  BY <1>1, <1>2 DEF Source
<1> QED
  BY <1>5, <1>6, ReplayReturnKeeps

LEMMA RunOutKeeps ==
  ASSUME IInv, RunOut
  PROVE  IInv'
<1>1. /\ Past /\ f # "NULL" /\ pos = Len(file) /\ f' = "closed"
      /\ UNCHANGED <<disk, runs, hook, result, tried, pos>>
  BY DEF RunOut, AtEnd
<1>2. PICK c \in Value : Return(c, "nowhere")
  BY DEF RunOut, Value
<1> QED
  BY <1>1, <1>2, NowhereKeeps

LEMMA ScanClosedKeeps ==
  ASSUME IInv, ScanClosed
  PROVE  IInv'
<1>1. CASE Gone
  BY <1>1, GoneKeeps
<1>2. CASE ~Gone
  <2>1. /\ Past /\ f = "closed" /\ f' = "closed"
        /\ UNCHANGED <<disk, runs, hook, result, tried, pos>>
    BY <1>2 DEF ScanClosed
  <2>2. PICK c \in Value : Return(c, "nowhere")
    BY <1>2 DEF ScanClosed, Value
  <2>3. pos = Len(file)
    BY <2>1, PastFacts DEF IInv, Replaying
  <2> QED
    BY <2>1, <2>2, <2>3, NowhereKeeps
<1> QED
  BY <1>1, <1>2

LEMMA AskTerminalKeeps ==
  ASSUME IInv, NEW c \in Char, AskTerminal(c)
  PROVE  IInv'
<1>1. /\ Past /\ f = "NULL" /\ Return(c, "terminal")
      /\ UNCHANGED <<disk, runs, hook, result, tried>>
      /\ f' = f /\ pos' = pos /\ hook' = hook /\ tried' = tried
  BY DEF AskTerminal
<1>2. hook = "replay" /\ tried /\ Len(returned) < MaxCalls /\ AllFrom("terminal")
  BY <1>1, PastFacts DEF IInv, Replaying
<1>3. c \in Value /\ "terminal" \in Source
  BY DEF Value, Source
<1>4. /\ pc' = "caller" /\ Len(returned) \in Nat
      /\ Len(returned') = Len(returned) + 1
      /\ \A i \in 1..Len(returned) : returned'[i] = returned[i]
      /\ returned'[Len(returned) + 1] = [value |-> c, from |-> "terminal"]
  BY <1>1, <1>2, <1>3, ReturnFacts DEF IInv
<1>5. \A i \in 1..Len(returned') : returned'[i].from = "terminal"
  BY <1>2, <1>4 DEF AllFrom
<1>6. Replaying'
  BY <1>1, <1>2, <1>4, <1>5 DEF Replaying, AllFrom
<1>7. f' \in {"NULL", "open", "closed"} /\ pos' \in Nat
  BY <1>1 DEF IInv, TypeOK
<1> QED
  BY <1>1, <1>3, <1>6, <1>7, ReplayReturnKeeps

-----------------------------------------------------------------------------
(* The invariant                                                           *)

LEMMA InitHolds == Init => IInv
<1> SUFFICES ASSUME Init PROVE IInv
  OBVIOUS
<1>1. <<>> \in Seq(Answer) /\ Len(<<>>) = 0 /\ 0 <= MaxCalls /\ 0 \in 0..MaxRuns
  BY EmptySeq, BoundAssumption
<1>2. TypeOK
  BY <1>1 DEF Init, TypeOK, Answer, Value, Source
<1> QED
  BY <1>2 DEF Init, IInv, Bounded, Between, Recording, Replaying, OnDisk

LEMMA StartKeeps ==
  ASSUME IInv, NEW h \in {"record", "replay"}, Start(h)
  PROVE  IInv'
<1>1. /\ runs' = runs + 1 /\ runs < MaxRuns /\ hook = "none" /\ hook' = h
      /\ file' = file /\ recorded' = recorded /\ lost' = lost /\ pc' = pc /\ f' = f
      /\ result' = result /\ tried' = tried /\ pos' = pos /\ returned' = returned
  BY DEF Start, disk
<1>2. pc = "caller" /\ f = "NULL" /\ ~tried /\ pos = 0 /\ returned = <<>>
  BY <1>1 DEF IInv, Between
<1>3. runs' \in 0..MaxRuns
  BY <1>1, BoundAssumption DEF IInv, TypeOK
<1>4. Len(<<>>) = 0
  BY EmptySeq
<1>5. TypeOK'
  BY <1>1, <1>2, <1>3 DEF IInv, TypeOK
<1> QED
  BY <1>1, <1>2, <1>4, <1>5
     DEF IInv, Bounded, Between, Recording, Replaying, AllFrom, OnDisk

LEMMA PutInPlaceKeeps ==
  ASSUME IInv, NEW r \in Recordings \cup {NoFile}, PutInPlace(r)
  PROVE  IInv'
<1>1. /\ f = "NULL" /\ file' = r /\ recorded' = r /\ lost' = FALSE /\ runs' = runs
      /\ hook' = hook /\ pc' = pc /\ f' = f /\ result' = result /\ tried' = tried
      /\ pos' = pos /\ returned' = returned
  BY DEF PutInPlace, process
<1>2. r # NoFile => r \in Seq(Char) /\ r \in Seq(Number) /\ Len(r) \in Nat
  BY FileAssumption, CharsAreNumbers, LenProperties
<1>3. TypeOK'
  BY <1>1, <1>2 DEF IInv, TypeOK
<1>4. OnDisk'
  BY <1>1, <1>2 DEF OnDisk
<1>5. Recording' /\ Replaying'
  BY <1>1 DEF IInv, Recording, Replaying, AllFrom
<1> QED
  BY <1>1, <1>3, <1>4, <1>5 DEF IInv, Bounded, Between

LEMMA StepKeeps == IInv /\ [Next]_vars => IInv'
<1> SUFFICES ASSUME IInv, [Next]_vars PROVE IInv'
  OBVIOUS
<1>1. CASE \E h \in {"record", "replay"} : Start(h)
  BY <1>1, StartKeeps
<1>2. CASE EndOrKill \/ OpenRecordFails \/ OpenReplayFails
  BY <1>2, GoneKeeps DEF EndOrKill, OpenRecordFails, OpenReplayFails
<1>3. CASE OpenRecord
  BY <1>3, OpenRecordKeeps
<1>4. CASE \E c \in Char : ReadTerminal(c)
  BY <1>4, ReadTerminalKeeps
<1>5. CASE LookForFile
  BY <1>5, LookForFileKeeps
<1>6. CASE ReplayChar
  BY <1>6, ReplayCharKeeps
<1>7. CASE RunOut
  BY <1>7, RunOutKeeps
<1>8. CASE ScanClosed
  BY <1>8, ScanClosedKeeps
<1>9. CASE \E c \in Char : AskTerminal(c)
  BY <1>9, AskTerminalKeeps
<1>10. CASE \E r \in Recordings \cup {NoFile} : PutInPlace(r)
  BY <1>10, PutInPlaceKeeps
<1>11. CASE WriteOut
  BY <1>11, WriteOutKeeps
<1>12. CASE ReturnRecorded
  BY <1>12, ReturnRecordedKeeps
<1>13. CASE UNCHANGED vars
  BY <1>13 DEF vars, disk, process, IInv, TypeOK, Bounded, Between, Recording,
               Replaying, Played, AllFrom, OnDisk
<1> QED
  BY <1>1, <1>2, <1>3, <1>4, <1>5, <1>6, <1>7, <1>8, <1>9, <1>10, <1>11,
     <1>12, <1>13 DEF Next

(* The invariant holds of every reachable state.                           *)
THEOREM HooksInvariance == Spec => []IInv
BY InitHolds, StepKeeps, PTL DEF Spec

-----------------------------------------------------------------------------
(* What the invariant means for those who use the hooks                    *)

(* The answers of a run have indices that are natural numbers.             *)
LEMMA ReturnedDomain ==
  ASSUME IInv
  PROVE  DOMAIN returned = 1..Len(returned) /\ Len(returned) \in Nat
<1>1. returned \in Seq(Answer)
  BY DEF IInv, TypeOK, Answer, Value, Source
<1> QED
  BY <1>1, LenProperties

(* Type correctness, for any recordings and any number of calls and runs.  *)
THEOREM HooksTypeCorrect == Spec => []TypeOK
<1>1. IInv => TypeOK
  BY DEF IInv
<1> QED
  BY <1>1, HooksInvariance, PTL

(* libintercept: at any moment, a kill between the write and the return    *)
(* included, the file holds what the program has seen and at most one      *)
(* number more, unless a failed write went unnoticed: then it holds no     *)
(* more than that.                                                         *)
THEOREM RecordingKeepsWhatIsSeen == Spec => []RecordsWhatIsSeen
<1>1. ASSUME IInv PROVE RecordsWhatIsSeen
  <2>1. file # NoFile => DOMAIN recorded = 1..Len(recorded)
    BY <1>1, LenProperties DEF IInv, TypeOK, OnDisk
  <2> QED
    BY <1>1, <2>1, ReturnedDomain DEF IInv, OnDisk, Recording, RecordsWhatIsSeen
<1> QED
  BY <1>1, HooksInvariance, PTL

(* libminm: a replay gives the program what the recorded one got, whatever *)
(* has been run, killed or put in place before.                            *)
THEOREM ReplayIsFaithful == Spec => []ReplayRepeats
<1>1. ASSUME IInv PROVE ReplayRepeats
  <2> SUFFICES ASSUME hook = "replay", NEW i \in DOMAIN returned, returned[i].from = "file"
               PROVE  /\ i <= Len(recorded) + 1
                      /\ ~lost /\ i <= Len(recorded) => returned[i].value = recorded[i]
    BY DEF ReplayRepeats
  <2>1. i \in 1..Len(returned) /\ i \in Nat
    BY <1>1, ReturnedDomain
  <2>2. f # "NULL"
    BY <1>1, <2>1 DEF IInv, Replaying, AllFrom
  <2>3. /\ file # NoFile /\ pos \in Nat /\ pos <= Len(file)
        /\ i <= pos /\ Played(i)
    BY <1>1, <2>1, <2>2 DEF IInv, TypeOK, Replaying
  <2>4. file \in Seq(Number) /\ recorded \in Seq(Char)
    BY <1>1, <2>3 DEF IInv, TypeOK, OnDisk
  <2>5. Len(file) \in Nat /\ Len(recorded) \in Nat /\ Len(file) <= Len(recorded) + 1
    BY <1>1, <2>3, <2>4, LenProperties DEF IInv, OnDisk
  <2>6. ASSUME ~lost, i <= Len(recorded) PROVE returned[i].value = recorded[i]
    <3>1. i \in 1..Len(recorded)
      BY <2>1, <2>5, <2>6
    <3>2. file[i] = recorded[i] /\ recorded[i] \in Char
      BY <1>1, <2>3, <2>4, <2>6, <3>1, ElementOfSeq DEF IInv, OnDisk
    <3> QED
      BY <2>3, <3>2 DEF Played, Scanned
  <2> QED
    BY <2>1, <2>3, <2>5, <2>6
<1> QED
  BY <1>1, HooksInvariance, PTL

(* What a run has answered is all from the terminal or none of it.         *)
LEMMA OneKind ==
  ASSUME IInv
  PROVE  \/ AllFrom("terminal")
         \/ \A i \in 1..Len(returned) : returned[i].from # "terminal"
<1>1. CASE hook = "none"
  <2>1. Len(returned) = 0
    BY <1>1, EmptySeq DEF IInv, Between
  <2> QED
    BY <2>1 DEF AllFrom
<1>2. CASE hook = "record"
  BY <1>2 DEF IInv, Recording
<1>3. CASE hook = "replay" /\ f = "NULL"
  BY <1>3 DEF IInv, Replaying
<1>4. CASE hook = "replay" /\ f # "NULL"
  <2> SUFFICES ASSUME NEW i \in 1..Len(returned) PROVE returned[i].from # "terminal"
    OBVIOUS
  <2>1. returned[i].from \in {"file", "nowhere"}
    BY <1>4 DEF IInv, Replaying, Played
  <2> QED
    BY <2>1
<1> QED
  BY <1>1, <1>2, <1>3, <1>4 DEF IInv, TypeOK

(* libminm looks for the file once: a run is replayed or it is interactive.*)
THEOREM SourcesNeverMix == Spec => []OneSource
<1>1. ASSUME IInv PROVE OneSource
  BY <1>1, OneKind, ReturnedDomain DEF OneSource, AllFrom
<1> QED
  BY <1>1, HooksInvariance, PTL

(* libminm: no undefined value before the end of the file.                 *)
THEOREM PlayedToTheEnd == Spec => []PlaysToTheEnd
<1>1. ASSUME IInv PROVE PlaysToTheEnd
  <2> SUFFICES ASSUME NEW i \in DOMAIN returned, returned[i].from = "nowhere"
               PROVE  i > Len(file) /\ (~lost => i > Len(recorded))
    BY DEF PlaysToTheEnd
  <2>1. i \in 1..Len(returned) /\ i \in Nat /\ Len(returned) \in Nat
    BY <1>1, ReturnedDomain
  <2>2. ~AllFrom("terminal")
    BY <2>1 DEF AllFrom
  <2>3. hook = "replay" /\ f # "NULL"
    BY <1>1, <2>1, <2>2, EmptySeq
       DEF IInv, TypeOK, Between, Recording, Replaying
  <2>4. pos \in Nat /\ ~(i <= pos) /\ f # "open" /\ file # NoFile
    <3>1. /\ pos \in Nat /\ file # NoFile
          /\ i <= pos => Played(i)
          /\ f = "open" => Len(returned) = pos
      BY <1>1, <2>1, <2>3 DEF IInv, TypeOK, Replaying
    <3>2. ~(i <= pos)
      BY <3>1 DEF Played
    <3> QED
      BY <2>1, <3>1, <3>2
  <2>5. pos = Len(file)
    BY <1>1, <2>3, <2>4 DEF IInv, TypeOK, Replaying
  <2>6. Len(recorded) \in Nat /\ (~lost => Len(recorded) <= Len(file))
    BY <1>1, <2>4, LenProperties DEF IInv, TypeOK, OnDisk
  <2> QED
    BY <2>1, <2>4, <2>5, <2>6
<1> QED
  BY <1>1, HooksInvariance, PTL
=============================================================================
