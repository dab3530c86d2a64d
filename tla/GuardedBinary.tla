--------------------------- MODULE GuardedBinary ----------------------------
(***************************************************************************)
(* What the patcher promises to those who run the protected program: the   *)
(* binary is raw until the patcher writes to it and complete when it has   *)
(* written every word; only a complete one is ready to be run, and nothing *)
(* makes it incomplete again.  In a complete binary a guard raises its     *)
(* alarm exactly when the function it watches has been changed.            *)
(***************************************************************************)
CONSTANT Func           \* functions of the binary

VARIABLES watched,      \* guard -> the function it watches, if any
          state,        \* "raw", "torn" or "complete"
          modified,     \* functions whose code has been changed
          alarms        \* guards of a complete binary that raise an alarm

bvars == <<watched, state, modified, alarms>>

-----------------------------------------------------------------------------
AlarmsOf(s, changed) ==
  IF s = "complete" THEN {i \in DOMAIN watched : watched[i] \in changed} ELSE {}

Init == state = "raw" /\ modified = {} /\ alarms = {}

Tear ==
  /\ state = "raw"
  /\ state' = "torn"
  /\ UNCHANGED <<watched, modified, alarms>>

Complete ==
  /\ state = "torn"
  /\ state' = "complete"
  /\ alarms' = AlarmsOf("complete", modified)
  /\ UNCHANGED <<watched, modified>>

Modify(f) ==
  /\ modified' = modified \cup {f}
  /\ alarms' = AlarmsOf(state, modified')
  /\ UNCHANGED <<watched, state>>

Next == Tear \/ Complete \/ \E f \in Func : Modify(f)

Spec == Init /\ [][Next]_bvars
=============================================================================
