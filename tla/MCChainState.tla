---------------------------- MODULE MCChainState ----------------------------
(***************************************************************************)
(* A block tree for ChainState, and the settings its behaviours have: all  *)
(* of the tree without operator commands, and parts of it with them.  All  *)
(* blocks have proof 1 but one.                                            *)
(***************************************************************************)
EXTENDS ChainState, TLC

CONSTANTS g, a1, a2, b1, b2, b3, c2

\*  g -- a1 -- a2
\*   \-- b1 -- b2 -- b3
\*         \-- c2         (worth two)
TreeBlocks == {g, a1, a2, b1, b2, b3, c2}
TreeParent == a1 :> g @@ a2 :> a1 @@ b1 :> g @@ b2 :> b1 @@ b3 :> b2 @@ c2 :> b1
TreeProof == [b \in TreeBlocks |-> IF b = c2 THEN 2 ELSE 1]
TreeAddr == g :> 1 @@ a1 :> 2 @@ b2 :> 3 @@ b1 :> 4 @@ a2 :> 5 @@ b3 :> 6 @@ c2 :> 7

TwoBranches == TreeBlocks \ {c2}
ShortBranches == {g, a1, b1, b2}

\* One block fails ContextualCheckBlock and one ConnectBlock.
NoCommands ==
  [blocks |-> TreeBlocks, checked |-> TwoBranches, valid |-> TreeBlocks \ {b2},
   operator |-> {}, keep |-> 1, pending |-> 2, seq |-> 10]
\* One block fails ConnectBlock.
InvalidateReconsider ==
  [blocks |-> TwoBranches, checked |-> TwoBranches, valid |-> TwoBranches \ {b3},
   operator |-> {"invalidate", "reconsider"}, keep |-> 2, pending |-> 2, seq |-> 9]
PruneRestart ==
  [blocks |-> TwoBranches, checked |-> TwoBranches, valid |-> TwoBranches,
   operator |-> {"prune", "restart"}, keep |-> 1, pending |-> 1, seq |-> 8]
PrunedCommands ==
  [blocks |-> ShortBranches, checked |-> ShortBranches, valid |-> ShortBranches,
   operator |-> {"prune", "invalidate", "precious"}, keep |-> 1, pending |-> 2, seq |-> 6]
\* The siblings b2 and c2 may wait together for b1.
Siblings == [NoCommands EXCEPT !.checked = TreeBlocks]
Quiet == {NoCommands, Siblings}
Commanded == {InvalidateReconsider, PruneRestart, PrunedCommands}

\* Settings of the findings
CheckFailures == {[InvalidateReconsider EXCEPT !.checked = {g, a1, a2, b1, b3}]}
PrunedInvalidations == {[PruneRestart EXCEPT !.operator = {"prune", "invalidate"}, !.pending = 2]}
PreciousOnly == {[PruneRestart EXCEPT !.operator = {"precious"}, !.pending = 2]}
DeepReverse == -5

\* nBlockReverseSequenceId's lower limit, within reach
LeastReverse == -2
=============================================================================
