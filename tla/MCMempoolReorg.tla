--------------------------- MODULE MCMempoolReorg ---------------------------
(***************************************************************************)
(*  g -- a1 -- a2               ka is a1's coinbase, spent by t5; t1 to t3 *)
(*   \-- b1 -- c2 -- c3         are a chain, and t4, in c2, conflicts with *)
(*         \-- b2 -- b3         t2.  t6 is not standard; t7 spends it.     *)
(*             (invalid)        c3 confirms t6 again; t8 spends t3 and t7. *)
(***************************************************************************)
EXTENDS MempoolReorg, TLC

CONSTANTS g, a1, a2, b1, b2, b3, c2, c3, ka, t1, t2, t3, t4, t5, t6, t7, t8

TreeBlocks == {g, a1, a2, b1, b2, b3, c2, c3}
TreeParent == a1 :> g @@ a2 :> a1 @@ b1 :> g @@ b2 :> b1 @@ b3 :> b2 @@ c2 :> b1 @@ c3 :> c2
AllTxs == {ka, t1, t2, t3, t4, t5, t6, t7, t8}
TxOut == [t \in AllTxs |-> {t}]
TxIn == ka :> {} @@ t1 :> {"f1"} @@ t2 :> {t1} @@ t3 :> {t2} @@ t4 :> {t1} @@ t5 :> {ka} @@
        t6 :> {"f2"} @@ t7 :> {t6} @@ t8 :> {t3, t7}
TreeVtx == [b \in TreeBlocks |->
  CASE b = a1 -> <<ka, t1>> [] b = a2 -> <<t2, t3, t6>> [] b = b1 -> <<t1>> [] b = c2 -> <<t4>> [] b = c3 -> <<t6>> [] OTHER -> <<>>]
=============================================================================
