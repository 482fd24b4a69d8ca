---------------------------- MODULE MCTxRequest -----------------------------
(* Three peers; p3 is preferred, or comes first by its hash. *)
EXTENDS TxRequest, TLC

CONSTANTS p1, p2, p3, t1, t2

Ranks == p1 :> 1 @@ p2 :> 2 @@ p3 :> 3
OtherRanks == p1 :> 2 @@ p2 :> 1 @@ p3 :> 3
PriorityOf == t1 :> Ranks @@ t2 :> OtherRanks

\* All announce t1
AnnouncersOf == t1 :> {p1, p2, p3} @@ t2 :> {p1}
=============================================================================
