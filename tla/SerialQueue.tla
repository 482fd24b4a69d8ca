---------------------------- MODULE SerialQueue -----------------------------
(***************************************************************************)
(* What the users of a SerialTaskRunner rely on (scheduler.h): callbacks   *)
(* run one at a time, in the order in which they were inserted, and a      *)
(* callback begins only after the one before it has returned.              *)
(***************************************************************************)
EXTENDS Sequences

CONSTANT Callbacks

VARIABLES
  pending,   \* inserted, not begun
  running    \* begun, not returned

vars == <<pending, running>>

Init == pending = <<>> /\ running = {}

Insert(f) == pending' = Append(pending, f) /\ UNCHANGED running

Begin ==
  /\ pending # <<>> /\ running = {}
  /\ running' = {Head(pending)}
  /\ pending' = Tail(pending)

Return == running # {} /\ running' = {} /\ UNCHANGED pending

Next == (\E f \in Callbacks : Insert(f)) \/ Begin \/ Return

Spec == Init /\ [][Next]_vars
=============================================================================
