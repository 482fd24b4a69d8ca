---------------------------- MODULE MCCoinsFlush ----------------------------
(***************************************************************************)
(* CoinsFlush on small trees.  On the two branches of Fork one transaction  *)
(* (it creates x) is confirmed at height 1 and at height 2; block a2 spends *)
(* x and has a second transaction that spends the first one's output; b1    *)
(* creates y and b2 spends it.  Line, a branch of four blocks, is for       *)
(* pruning.                                                                 *)
(***************************************************************************)
EXTENDS CoinsFlush

CONSTANTS g, a1, a2, b1, b2, c1, c2, c3, c4, x, y, z

Tx(in, out) == [in |-> in, out |-> out]

Fork2 == {g, a1, a2, b1, b2}
Line == {g, c1, c2, c3, c4}
AllBlocks == Fork2 \cup Line
TreeParent == [b \in AllBlocks \ {g} |->
  CASE b = a2 -> a1 [] b = b2 -> b1 [] b = c2 -> c1 [] b = c3 -> c2 [] b = c4 -> c3 [] OTHER -> g]
TreeTxs == [b \in AllBlocks |->
  CASE b = g  -> <<>>
    [] b = a1 -> <<Tx({}, {x})>>
    [] b = a2 -> <<Tx({x}, {z}), Tx({z}, {y})>>
    [] b = b1 -> <<Tx({}, {y})>>
    [] b = b2 -> <<Tx({y}, {x, z})>>
    [] b = c1 -> <<Tx({}, {x})>>
    [] b = c2 -> <<Tx({x}, {y})>>
    [] b = c3 -> <<Tx({}, {x})>>
    [] b = c4 -> <<Tx({y}, {})>>]

\* Two crashes at any point, with the last unsynced batch kept or lost
Crashes == [blocks |-> Fork2, faults |-> {"crash"}, pruning |-> FALSE, lag |-> 1, crashes |-> 2]
\* A pruning node with a full disk, failing batches and a crash.  Height 3 is the boundary: with the
\* last flush at height 1 the block there may be pruned, and a replay begins right above it.
DiskFaults == [blocks |-> Line \ {c4}, faults |-> {"crash", "lowdisk", "write"}, pruning |-> TRUE,
               lag |-> 0, crashes |-> 1]
CrashesAndDiskFaults == {Crashes, DiskFaults}

\* Settings of the findings
WriteErrors == {[blocks |-> Fork2, faults |-> {"write"}, pruning |-> FALSE, lag |-> 0, crashes |-> 0]}
PrunedCrash == {[blocks |-> Line, faults |-> {"crash"}, pruning |-> TRUE, lag |-> 0, crashes |-> 1]}
=============================================================================
