----------------------------- MODULE IndexSync ------------------------------
(***************************************************************************)
(* The optional indexes (index/base.cpp): the thread that catches up with  *)
(* the chain (Sync), the validation callbacks that follow it afterwards,   *)
(* the commits of the index's own position, and what a restart finds.      *)
(* The two indexes with running state are modelled, coinstatsindex and     *)
(* blockfilterindex.  Nothing is pruned.                                   *)
(*                                                                         *)
(* The running state of an index (the muhash, or the last filter header)   *)
(* is a fold over the blocks appended: here, the sequence of them.  The    *)
(* chain (ChainState, CoinsFlush) may move to any block; the callbacks it  *)
(* causes are run one by one and in order (Scheduler).  A crash ends the   *)
(* process: the database keeps every write made before it.                 *)
(***************************************************************************)
EXTENDS Integers, Sequences, Functions

CONSTANTS
  Blocks, Genesis, None,
  Parent,          \* [Blocks \ {Genesis} -> Blocks]
  Kind,            \* "coinstats" or "filter"
  MaxMoves, MaxFlushes, MaxCrashes   \* bounds

ASSUME IndexAssumption ==
  /\ Genesis \in Blocks /\ None \notin Blocks
  /\ Parent \in [Blocks \ {Genesis} -> Blocks]
  /\ \A S \in (SUBSET Blocks) \ {{}} : \E b \in S : b = Genesis \/ Parent[b] \notin S   \* no cycles
  /\ Kind \in {"coinstats", "filter"}

\* The chain up to a block, and the ancestors GetAncestor finds
Path[b \in Blocks] == IF b = Genesis THEN <<b>> ELSE Append(Path[Parent[b]], b)
Anc(b) == IF b = None THEN {} ELSE Range(Path[b])
Height(b) == Len(Path[b]) - 1
Prev(b) == IF b = Genesis THEN None ELSE Parent[b]
PathOf(b) == IF b = None THEN <<>> ELSE Path[b]
Heights == {Height(b) : b \in Blocks}

\* LastCommonAncestor, FindFork
Fork(a, b) ==
  CHOOSE x \in Anc(a) \cap Anc(b) : \A y \in Anc(a) \cap Anc(b) : Height(y) <= Height(x)

VARIABLES
  tip,           \* m_chain.Tip()
  flushed,       \* GetLastFlushedBlock(): the best block of the coins database
  indexed,       \* the block index on disk
  queue,         \* the validation callbacks to come: [type, block]
  heightIndex,   \* database: height -> [block, state]
  hashIndex,     \* database: block -> state
  committed,     \* database: DB_BEST_BLOCK and, with it, DB_MUHASH
  best,          \* m_best_block_index
  synced,        \* m_synced
  state,         \* m_muhash or m_last_header
  sync, event,   \* where the sync thread and the callback thread stand
  at,            \* Sync's pindex
  todo,          \* the block being indexed, and how far its Rewind is: [block, iter]
  interrupt,     \* m_interrupt
  caller,        \* a caller of BlockUntilSyncedToCurrentChain: [pc, block, left]
  failed,        \* "no", or what failed for good: "init", "append" or "rewind"
  moves, flushes, crashes

chain == <<tip, flushed, indexed, moves, flushes>>
database == <<heightIndex, hashIndex, committed>>
vars == <<chain, queue, database, best, synced, state, sync, event, at, todo, interrupt, caller,
          failed, crashes>>

NoTask == [block |-> None, iter |-> None]
NoCaller == [pc |-> "idle", block |-> None, left |-> 0]
NoEntry == [block |-> None, state |-> <<>>]

Init ==
  /\ tip = Genesis /\ flushed = Genesis /\ indexed = {Genesis} /\ queue = <<>>
  /\ heightIndex = [h \in Heights |-> NoEntry] /\ hashIndex = [b \in Blocks |-> <<>>]
  /\ committed = NoEntry
  /\ best = None /\ synced = FALSE /\ state = <<>>
  /\ sync = "down" /\ event = "idle" /\ at = None /\ todo = NoTask
  /\ interrupt = FALSE /\ caller = NoCaller /\ failed = "no"
  /\ moves = 0 /\ flushes = 0 /\ crashes = 0

Up == sync # "down" /\ failed = "no"

-----------------------------------------------------------------------------
(* The chain *)

\* ActivateBestChain or InvalidateBlock: the tip moves, and the blocks connected are announced.
MoveTip(b) ==
  LET fork == Height(Fork(b, tip)) IN
  /\ Up /\ moves < MaxMoves /\ b # tip
  /\ moves' = moves + 1
  /\ tip' = b
  /\ queue' = queue \o [i \in 1 .. Height(b) - fork |->
                          [type |-> "connected", block |-> Path[b][fork + 1 + i]]]
  /\ UNCHANGED <<flushed, indexed, flushes, database, best, synced, state, sync, event, at, todo, interrupt,
                 caller, failed, crashes>>

FlushStateToDisk ==
  /\ Up /\ flushes < MaxFlushes
  /\ flushes' = flushes + 1
  /\ flushed' = tip
  /\ indexed' = indexed \cup Anc(tip)
  /\ queue' = Append(queue, [type |-> "flushed", block |-> tip])
  /\ UNCHANGED <<tip, moves, database, best, synced, state, sync, event, at, todo, interrupt, caller,
                 failed, crashes>>

-----------------------------------------------------------------------------
(* The database of the index *)

\* The entry of the height index if it is this block's, and <<>> if it is not
AtHeight(b) ==
  LET entry == heightIndex[Height(b)]
  IN IF entry.block = b THEN entry.state ELSE <<>>

\* LookUpOne: the hash index has the blocks that are no longer on the chain.
LookUpOne(b) ==
  IF AtHeight(b) = <<>> /\ heightIndex[Height(b)] # NoEntry THEN hashIndex[b] ELSE AtHeight(b)

\* Mutant: a position is committed that the chainstate may forget.
CommitAlways(b) == b # None

\* The index is not ahead of the chainstate on disk.
MayCommit(b) == b # None /\ b \in Anc(flushed)

\* SetBestBlockIndex and Commit
Commit(b) ==
  /\ best' = b
  /\ committed' = IF MayCommit(b) THEN [block |-> b, state |-> state'] ELSE committed

\* CustomAppend: coinstatsindex checks that the block follows the last one.
CustomAppend(b) ==
  IF Kind = "coinstats" /\ b # Genesis /\ (state = <<>> \/ state[Len(state)] # Parent[b])
  THEN failed' = "append" /\ UNCHANGED <<state, heightIndex>>
  ELSE /\ state' = Append(state, b)
       /\ heightIndex' = [heightIndex EXCEPT ![Height(b)] = [block |-> b, state |-> state']]
       /\ UNCHANGED failed

\* Mutant: the running state stays that of the removed block.
RevertNothing(b) == UNCHANGED <<state, failed>>

\* RevertBlock, or the cached filter header: the state becomes that of the previous block's
\* entry; the muhash without the block must be the same.  RevertBlock turns to the hash index
\* where the height index has another block, but reads a pair there: CopyHeightIndexToHashIndex
\* stored the second half only, the value is too short, and the read fails.
Revert(b) ==
  LET previous == AtHeight(Parent[b])
  IN /\ state' = previous
     /\ failed' = IF previous = <<>> \/ (Kind = "coinstats" /\ state # Append(previous, b))
                  THEN "rewind" ELSE failed

\* Mutant: the entry of the height index is left to be overwritten.
RemoveWithoutCopy(b) == Revert(b) /\ UNCHANGED <<heightIndex, hashIndex>>

\* CustomRemove: CopyHeightIndexToHashIndex first.  The height always has an entry, of this
\* block or of another one.
CustomRemove(b) ==
  LET entry == heightIndex[Height(b)]
  IN /\ hashIndex' = [hashIndex EXCEPT ![entry.block] = entry.state]
     /\ Revert(b)
     /\ UNCHANGED heightIndex

-----------------------------------------------------------------------------
(* Indexing a block: Rewind to its parent where necessary, then ProcessBlock *)

\* One round of Rewind's loop
RewindStep ==
  /\ CustomRemove(todo.iter)
  /\ todo' = [todo EXCEPT !.iter = Prev(todo.iter)]

Rewinding == todo.iter # Prev(todo.block)

-----------------------------------------------------------------------------
(* Init and Sync *)

\* BaseIndex::Init with CustomInit, which looks the committed block up (coinstatsindex) or reads
\* its entry of the height index (ReadFilterHeader); the chain was loaded from what was flushed.
Start ==
  LET b == committed.block
      found == IF b = None THEN <<>>
               ELSE IF Kind = "coinstats" THEN LookUpOne(b) ELSE AtHeight(b)
      bad == /\ b # None
             /\ b \notin indexed \/ found = <<>> \/ (Kind = "coinstats" /\ found # committed.state)
  IN /\ sync = "down" /\ failed = "no"
     /\ failed' = IF bad THEN "init" ELSE "no"
     /\ best' = b /\ at' = b /\ state' = found
     /\ synced' = (b = tip)
     /\ sync' = IF b = tip THEN "done" ELSE "next"
     /\ UNCHANGED <<chain, queue, database, event, todo, interrupt, caller, crashes>>

\* NextSyncBlock: the block of the active chain after the last one shared with it
NextSyncBlock(b) ==
  IF b = None THEN Genesis
  ELSE IF Fork(b, tip) = tip THEN None ELSE Path[tip][Height(Fork(b, tip)) + 2]

Begin(next) == sync' = "index" /\ todo' = [block |-> next, iter |-> at]

SyncInterrupted ==
  /\ Up /\ sync = "next" /\ interrupt
  /\ sync' = "done"
  /\ UNCHANGED state /\ Commit(at)
  /\ UNCHANGED <<chain, queue, heightIndex, hashIndex, synced, event, at, todo, interrupt, caller, failed, crashes>>

SyncNext ==
  /\ Up /\ sync = "next" /\ ~interrupt
  /\ UNCHANGED state
  /\ IF NextSyncBlock(at) = None
     THEN sync' = "check" /\ Commit(at) /\ UNCHANGED todo
     ELSE Begin(NextSyncBlock(at)) /\ UNCHANGED <<best, committed>>
  /\ UNCHANGED <<chain, queue, heightIndex, hashIndex, synced, event, at, interrupt, caller, failed, crashes>>

\* Mutant: the tip is not looked at again before the callbacks take over.
SyncDone ==
  /\ Up /\ sync = "check"
  /\ synced' = TRUE /\ sync' = "done"
  /\ UNCHANGED <<chain, queue, database, best, state, event, at, todo, interrupt, caller, failed, crashes>>

\* Under cs_main: the last block is still the tip, or there is more to do.
SyncCheck ==
  /\ Up /\ sync = "check"
  /\ IF NextSyncBlock(at) = None
     THEN synced' = TRUE /\ sync' = "done" /\ UNCHANGED todo
     ELSE Begin(NextSyncBlock(at)) /\ UNCHANGED synced
  /\ UNCHANGED <<chain, queue, database, best, state, event, at, interrupt, caller, failed, crashes>>

SyncRewind ==
  /\ Up /\ sync = "index" /\ Rewinding
  /\ RewindStep
  /\ best' = IF failed' = "no" /\ todo'.iter = Prev(todo.block) THEN todo'.iter ELSE best
  /\ UNCHANGED <<chain, queue, committed, synced, sync, event, at, interrupt, caller, crashes>>

\* ProcessBlock; every thirty seconds the position is committed.
SyncAppend ==
  /\ Up /\ sync = "index" /\ ~Rewinding
  /\ CustomAppend(todo.block)
  /\ IF failed' # "no" THEN UNCHANGED <<at, sync, best, committed>>
     ELSE /\ at' = todo.block /\ sync' = "next"
          /\ \/ Commit(todo.block)
             \/ UNCHANGED <<best, committed>>
  /\ todo' = NoTask
  /\ UNCHANGED <<chain, queue, hashIndex, synced, event, interrupt, caller, crashes>>

Interrupt ==
  /\ Up /\ ~interrupt
  /\ interrupt' = TRUE
  /\ UNCHANGED <<chain, queue, database, best, synced, state, sync, event, at, todo, caller, failed, crashes>>

-----------------------------------------------------------------------------
(* The callbacks *)

Pop ==
  /\ queue' = Tail(queue)
  /\ caller' = [caller EXCEPT !.left = IF @ = 0 THEN 0 ELSE @ - 1]

\* A callback before m_synced, or one that does not fit the best block
Ignored(e) ==
  ~synced \/ IF e.type = "connected" THEN Parent[e.block] \notin Anc(best) ELSE e.block \notin Anc(best)

IgnoreEvent ==
  /\ Up /\ event = "idle" /\ queue # <<>> /\ Ignored(Head(queue))
  /\ Pop
  /\ UNCHANGED <<chain, database, best, synced, state, sync, event, at, todo, interrupt, failed, crashes>>

BlockConnected ==
  /\ Up /\ event = "idle" /\ queue # <<>> /\ Head(queue).type = "connected" /\ ~Ignored(Head(queue))
  /\ event' = "index"
  /\ todo' = [block |-> Head(queue).block, iter |-> best]
  /\ UNCHANGED <<chain, queue, database, best, synced, state, sync, at, interrupt, caller, failed, crashes>>

EventRewind ==
  /\ Up /\ event = "index" /\ Rewinding
  /\ RewindStep
  /\ best' = IF failed' = "no" /\ todo'.iter = Prev(todo.block) THEN todo'.iter ELSE best
  /\ UNCHANGED <<chain, queue, committed, synced, sync, event, at, interrupt, caller, crashes>>

EventAppend ==
  /\ Up /\ event = "index" /\ ~Rewinding
  /\ CustomAppend(todo.block)
  /\ best' = IF failed' # "no" THEN best ELSE todo.block
  /\ event' = "idle" /\ todo' = NoTask
  /\ Pop
  /\ UNCHANGED <<chain, hashIndex, committed, synced, sync, at, interrupt, crashes>>

ChainStateFlushed ==
  /\ Up /\ event = "idle" /\ queue # <<>> /\ Head(queue).type = "flushed" /\ ~Ignored(Head(queue))
  /\ UNCHANGED state /\ Commit(best)
  /\ Pop
  /\ UNCHANGED <<chain, heightIndex, hashIndex, synced, sync, event, at, todo, interrupt, failed, crashes>>

-----------------------------------------------------------------------------
(* A caller that wants to look up the tip *)

\* BlockUntilSyncedToCurrentChain: true at once, or after the callbacks queued so far
Call ==
  /\ Up /\ synced /\ caller.pc = "idle"
  /\ caller' = IF tip \in Anc(best) THEN [pc |-> "answered", block |-> tip, left |-> 0]
               ELSE [pc |-> "waits", block |-> tip, left |-> Len(queue)]
  /\ UNCHANGED <<chain, queue, database, best, synced, state, sync, event, at, todo, interrupt, failed, crashes>>

Answer ==
  /\ Up /\ caller.pc = "waits" /\ caller.left = 0
  /\ caller' = [caller EXCEPT !.pc = "answered"]
  /\ UNCHANGED <<chain, queue, database, best, synced, state, sync, event, at, todo, interrupt, failed, crashes>>

-----------------------------------------------------------------------------

\* The process ends, in a crash or after an interrupt; the chain is loaded from the disk.
Crash ==
  /\ Up /\ crashes < MaxCrashes
  /\ crashes' = crashes + 1
  /\ tip' = flushed
  /\ queue' = <<>>
  /\ sync' = "down" /\ event' = "idle" /\ synced' = FALSE
  /\ best' = None /\ state' = <<>> /\ at' = None /\ todo' = NoTask
  /\ interrupt' = FALSE /\ caller' = NoCaller
  /\ UNCHANGED <<flushed, indexed, moves, flushes, database, failed>>

SyncThread == SyncInterrupted \/ SyncNext \/ SyncCheck \/ SyncRewind \/ SyncAppend
CallbackThread == IgnoreEvent \/ BlockConnected \/ EventRewind \/ EventAppend \/ ChainStateFlushed

Next ==
  \/ \E b \in Blocks : MoveTip(b)
  \/ FlushStateToDisk \/ Interrupt \/ Crash
  \/ Start \/ SyncThread \/ CallbackThread
  \/ Call \/ Answer

Spec == Init /\ [][Next]_vars

\* The node is started again, and its threads run; the chain need not move.
FairSpec == Spec /\ WF_vars(Start) /\ WF_vars(SyncThread) /\ WF_vars(CallbackThread)

-----------------------------------------------------------------------------
(* Properties *)

\* Where the running state stands
Position ==
  IF todo # NoTask THEN todo.iter ELSE IF synced THEN best ELSE at

\* The index is a fold over the chain up to one block, through rewinds, backlogged callbacks
\* of a branch the sync thread had already left, and restarts: its running state is exactly
\* that of the block it stands at, and so is the entry of every ancestor of that block.
IndexExact ==
  Up => /\ state = PathOf(Position)
        /\ \A b \in Anc(Position) : LookUpOne(b) = Path[b]

\* No reorganisation, backlogged callback or interrupt leads to a fatal error while the node
\* runs, and its Init accepts what any crash left: only the rewind after a crash may fail.  In
\* particular nothing is committed that the chainstate on disk does not know.
OnlyRewindAfterCrash == failed # "no" => failed = "rewind" /\ crashes > 0

\* "index cannot be corrupted by a missed commit to disk for an advanced index state": no
\* index refuses to start or cannot be rewound.
MissedCommitHarmless == failed = "no"

\* Once BlockUntilSyncedToCurrentChain has returned true the index answers for the tip at
\* the time of the call, whatever is rewound afterwards.
AnswerFound == caller.pc = "answered" => LookUpOne(caller.block) = Path[caller.block]

\* When the chain comes to rest the index catches up with it, by the sync thread or by the
\* callbacks, unless it was interrupted.
CatchesUp == <>[](interrupt \/ failed # "no" \/ tip \in Anc(best))
=============================================================================
