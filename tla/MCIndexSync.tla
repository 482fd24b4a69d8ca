---------------------------- MODULE MCIndexSync -----------------------------
(* Two branches of two blocks each on the genesis block *)
EXTENDS IndexSync, TLC

CONSTANTS g, x1, x2, y1, y2

Tree == x1 :> g @@ x2 :> x1 @@ y1 :> g @@ y2 :> y1
=============================================================================
