---------------------------- MODULE MCCheckQueue ----------------------------
(* CheckQueue with a block of up to four checks, then one of up to two.     *)
EXTENDS CheckQueue

BigThenSmall == <<4, 2>>
=============================================================================
