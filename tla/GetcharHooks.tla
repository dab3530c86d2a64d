---------------------------- MODULE GetcharHooks ----------------------------
(***************************************************************************)
(* The hooks that replace getchar of a program by preloading: libintercept *)
(* records what the terminal gives, libminm plays a recording back.  A run *)
(* of the program is preloaded with one of them; the runs follow each      *)
(* other and share the file intercept_<name of the program>.  A run may    *)
(* end, or be killed, between any two steps.                               *)
(*                                                                         *)
(* The program calls getchar from one thread.                              *)
(***************************************************************************)
EXTENDS Integers, Sequences

CONSTANTS Char,         \* what getchar may return, EOF included
          Garbage,      \* any number: an uninitialized one, or one read amiss
          Torn,         \* the end of a number is missing, and its comma
          NoFile,       \* there is no recording
          Recordings,   \* recordings the user may put in place
          MaxCalls,     \* bound on the calls of getchar in a run
          MaxRuns       \* bound on the runs of the program

Number == Char \cup {Garbage, Torn}

ASSUME CharAssumption  == Garbage \notin Char /\ Torn \notin Char
ASSUME FileAssumption  == Recordings \subseteq Seq(Char) /\ NoFile \notin Seq(Number)
ASSUME BoundAssumption == MaxCalls \in Nat /\ MaxRuns \in Nat

VARIABLES
  file,             \* the recording on disk, or NoFile
  runs,             \* runs begun
  hook,             \* "record", "replay"; "none" between two runs
  pc,               \* where the call of getchar is; "caller" outside of it
  f,                \* the static FILE pointer: "NULL", "open", "closed"
  result,           \* what the terminal gave; Garbage outside of the call
  tried,            \* triedToAccessFile
  pos,              \* how many characters have been scanned
  returned,         \* what getchar has returned in this run, and from where
  recorded,         \* history: what the run that made the file got to see
  lost              \* history: a failed write of that run went unnoticed

process == <<hook, pc, f, result, tried, pos, returned>>
disk    == <<file, recorded, lost>>
vars    == <<disk, runs, process>>

Init ==
  /\ file = NoFile /\ recorded = NoFile /\ lost = FALSE
  /\ runs = 0 /\ hook = "none" /\ pc = "caller"
  /\ f = "NULL" /\ result = Garbage /\ tried = FALSE /\ pos = 0 /\ returned = <<>>

-----------------------------------------------------------------------------
(* run-intercept.sh and run-mitm.sh: the statics start out anew.           *)
Start(h) ==
  /\ hook = "none" /\ runs < MaxRuns
  /\ runs' = runs + 1 /\ hook' = h
  /\ UNCHANGED <<disk, pc, f, result, tried, pos, returned>>

(* The process is gone: its last call, exit(1), a signal, a crash.         *)
Gone ==
  /\ hook' = "none" /\ pc' = "caller"
  /\ f' = "NULL" /\ result' = Garbage /\ tried' = FALSE /\ pos' = 0 /\ returned' = <<>>
  /\ UNCHANGED <<disk, runs>>

EndOrKill == hook # "none" /\ Gone

Return(c, from) ==
  /\ returned' = Append(returned, [value |-> c, from |-> from])
  /\ pc' = "caller"

Calling(h) == hook = h /\ pc = "caller" /\ Len(returned) < MaxCalls

-----------------------------------------------------------------------------
(* Mutants of the definition below: one mode of fopen in both branches.    *)
NeverTruncates  == file = NoFile
AlwaysTruncates == TRUE

(* libintercept.  The first call of a run truncates, the others append.    *)
Truncates == f = "NULL"

OpenRecord ==
  /\ Calling("record")
  /\ file' = IF Truncates \/ file = NoFile THEN <<>> ELSE file
  /\ recorded' = IF returned = <<>> THEN <<>> ELSE recorded
  /\ lost' = (returned # <<>> /\ lost)
  /\ f' = "open" /\ pc' = "reading"
  /\ UNCHANGED <<runs, hook, result, tried, pos, returned>>

OpenRecordFails == Calling("record") /\ Gone

(* The terminal answers.                                                   *)
ReadTerminal(c) ==
  /\ hook = "record" /\ pc = "reading"
  /\ result' = c /\ pc' = "read"
  /\ UNCHANGED <<disk, runs, hook, f, tried, pos, returned>>

(* The disk after a write, and after one that fails, wholly or in part: a  *)
(* number that follows a torn one is read together with it, or as another. *)
EndsTorn == file # <<>> /\ file[Len(file)] = Torn
Mended   == [file EXCEPT ![Len(file)] = Garbage]

Written == IF EndsTorn THEN {Mended, Append(Mended, Garbage)} ELSE {Append(file, result)}
Cut     == IF EndsTorn THEN {file, Append(Mended, Torn)} ELSE {file, Append(file, Torn)}

(* Mutant of the definition below: without fclose.                         *)
WriteUnclosed ==
  /\ hook = "record" /\ pc = "read" /\ pc' = "written"
  /\ UNCHANGED <<disk, runs, hook, f, result, tried, pos, returned>>

(* fprintf and fclose write the number out; nobody asks whether they did.  *)
WriteOut ==
  /\ hook = "record" /\ pc = "read"
  /\ \/ file' \in Written /\ lost' = lost
     \/ file' \in Cut /\ lost' = TRUE
  /\ f' = "closed" /\ pc' = "written"
  /\ UNCHANGED <<recorded, runs, hook, result, tried, pos, returned>>

ReturnRecorded ==
  /\ hook = "record" /\ pc = "written"
  /\ Return(result, "terminal")
  /\ recorded' = Append(recorded, result) /\ result' = Garbage
  /\ UNCHANGED <<file, lost, runs, hook, f, tried, pos>>

-----------------------------------------------------------------------------
(* Mutant of the definition below: without triedToAccessFile.              *)
LooksEachTime == f = "NULL"

(* libminm.  The file is looked for once in a run.                         *)
Looks == f = "NULL" /\ ~tried

LookForFile ==
  /\ Calling("replay") /\ Looks
  /\ tried' = TRUE /\ pc' = "looked"
  /\ f' = IF file = NoFile THEN "NULL" ELSE "open"
  /\ UNCHANGED <<disk, runs, hook, result, pos, returned>>

OpenReplayFails == Calling("replay") /\ Looks /\ file # NoFile /\ Gone

Past == \/ hook = "replay" /\ pc = "looked"
        \/ Calling("replay") /\ ~Looks

(* Mutant of the definition below: one number is left unread.              *)
AtLastNumber == pos + 1 >= Len(file)

AtEnd == pos = Len(file)

(* What fscanf makes of a number on disk.                                  *)
Scanned(number) == IF number \in Char THEN {number} ELSE Char \cup {Garbage}

ReplayChar ==
  /\ Past /\ f = "open" /\ ~AtEnd
  /\ pos' = pos + 1
  /\ \E c \in Scanned(file[pos + 1]) : Return(c, "file")
  /\ UNCHANGED <<disk, runs, hook, f, result, tried>>

(* The file is closed and control leaves the function without a return.    *)
RunOut ==
  /\ Past /\ f = "open" /\ AtEnd
  /\ f' = "closed"
  /\ \E c \in Char \cup {Garbage} : Return(c, "nowhere")
  /\ UNCHANGED <<disk, runs, hook, result, tried, pos>>

(* f is not null, so the closed file is scanned: anything, or a crash.     *)
ScanClosed ==
  /\ Past /\ f = "closed"
  /\ \/ /\ \E c \in Char \cup {Garbage} : Return(c, "nowhere")
        /\ UNCHANGED <<disk, runs, hook, f, result, tried, pos>>
     \/ Gone

AskTerminal(c) ==
  /\ Past /\ f = "NULL"
  /\ Return(c, "terminal")
  /\ UNCHANGED <<disk, runs, hook, f, result, tried, pos>>

-----------------------------------------------------------------------------
(* The user copies a recording, of the directory intercepts say, or removes *)
(* it, also while a program runs that has not opened it.                    *)
PutInPlace(r) ==
  /\ f = "NULL" /\ r # file
  /\ file' = r /\ recorded' = r /\ lost' = FALSE
  /\ UNCHANGED <<runs, process>>

Next ==
  \/ \E h \in {"record", "replay"} : Start(h)
  \/ EndOrKill
  \/ OpenRecord \/ OpenRecordFails
  \/ \E c \in Char : ReadTerminal(c)
  \/ WriteOut \/ ReturnRecorded
  \/ LookForFile \/ OpenReplayFails
  \/ ReplayChar \/ RunOut \/ ScanClosed
  \/ \E c \in Char : AskTerminal(c)
  \/ \E r \in Recordings \cup {NoFile} : PutInPlace(r)

Spec == Init /\ [][Next]_vars

-----------------------------------------------------------------------------
(* Every variable keeps its type, in and between the runs; a recording run *)
(* has the file open only from fopen to fclose of one call.                *)
TypeOK ==
  /\ file \in Seq(Number) \cup {NoFile}
  /\ recorded \in Seq(Char) \cup {NoFile}
  /\ lost \in BOOLEAN
  /\ runs \in 0..MaxRuns
  /\ hook \in {"none", "record", "replay"}
  /\ pc \in {"caller", "reading", "read", "written", "looked"}
  /\ f \in {"NULL", "open", "closed"}
  /\ result \in Char \cup {Garbage}
  /\ pc \in {"read", "written"} => result \in Char
  /\ tried \in BOOLEAN
  /\ pos \in Nat
  /\ returned \in Seq([value : Char \cup {Garbage}, from : {"terminal", "file", "nowhere"}])
  /\ Len(returned) <= MaxCalls
  /\ hook = "record" => (f = "open" <=> pc \in {"reading", "read"})

(* A recording run leaves on disk nothing of the runs before and at most   *)
(* one number more than its program saw, wherever it is interrupted; and   *)
(* if no write failed, all the program saw, in order.                      *)
RecordsWhatIsSeen ==
  /\ file = NoFile <=> recorded = NoFile
  /\ file # NoFile => Len(file) <= Len(recorded) + 1
  /\ file # NoFile /\ ~lost =>
       /\ Len(recorded) <= Len(file)
       /\ \A i \in DOMAIN recorded : file[i] = recorded[i]
  /\ hook = "record" /\ f # "NULL" =>
       /\ Len(recorded) = Len(returned)
       /\ \A i \in DOMAIN returned : returned[i].value = recorded[i]

(* A replayed program sees, call for call, what the program saw that was   *)
(* recorded last, whatever runs came in between, unless a failed write     *)
(* went unnoticed; after that comes at most the one number that a killed   *)
(* run had written and not returned.                                       *)
ReplayRepeats ==
  hook = "replay" =>
    \A i \in DOMAIN returned :
      returned[i].from = "file" =>
        /\ i <= Len(recorded) + 1
        /\ ~lost /\ i <= Len(recorded) => returned[i].value = recorded[i]

(* A run is replayed or interactive: a recording that appears after the    *)
(* first call is not mixed with what the terminal gave.                    *)
OneSource ==
  \A i, j \in DOMAIN returned :
    returned[i].from = "terminal" => returned[j].from = "terminal"

(* getchar returns no undefined value before the whole file has been       *)
(* played, which is all that was recorded unless a write failed.           *)
PlaysToTheEnd ==
  \A i \in DOMAIN returned :
    returned[i].from = "nowhere" =>
      /\ i > Len(file)
      /\ ~lost => i > Len(recorded)

=============================================================================
