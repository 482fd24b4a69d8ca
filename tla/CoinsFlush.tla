----------------------------- MODULE CoinsFlush -----------------------------
(***************************************************************************)
(* How the chainstate reaches the disk and comes back after a crash:        *)
(* Chainstate::FlushStateToDisk, CCoinsViewDB::BatchWrite (a flush in       *)
(* several batches, with DB_HEAD_BLOCKS naming the transition meanwhile)    *)
(* and Chainstate::ReplayBlocks, which finishes an interrupted flush.       *)
(*                                                                          *)
(* All of it runs under cs_main, so the steps here are the points between   *)
(* which the process can die or a write can fail.  A coin is the height of  *)
(* the block that created it: the same transaction may be confirmed at      *)
(* different heights on two branches.  Which branch is better is not        *)
(* modelled (ChainState does that): any received block may be connected.    *)
(***************************************************************************)
EXTENDS Integers, Sequences, Functions

CONSTANTS
  Blocks, Genesis, NoBlock,
  Parent,        \* [Blocks \ {Genesis} -> Blocks]
  Outpoints,
  Txs,           \* [Blocks -> Seq([in, out : SUBSET Outpoints])]: CBlock::vtx
  KeepBlocks,    \* MIN_BLOCKS_TO_KEEP
  MaxUnflushed,  \* bound on the blocks connected since the last flush
  Worlds         \* the settings a behaviour may have

VARIABLES
  world,     \* the settings of this behaviour; they never change
  index,     \* m_block_index: [known, have (BLOCK_HAVE_DATA), undo (BLOCK_HAVE_UNDO)]
  diskIndex, \* the same in the block tree database
  files,     \* the blocks whose blk/rev file exists
  db,        \* chainstate database: [coin, best (DB_BEST_BLOCK), heads (DB_HEAD_BLOCKS)]
  past,      \* earlier contents of db that a power loss may bring back
  cache,     \* CoinsTip: [dirty |-> the DIRTY entries, best |-> m_block_hash]
  pc,        \* where FlushStateToDisk or the start-up stands
  fl,        \* locals of FlushStateToDisk: [erase, prune, todo, then]
  crashes

store == <<index, diskIndex, files>>
vars == <<world, store, db, past, cache, pc, fl, crashes>>

Branches == world.blocks     \* the blocks that arrive
Faults == world.faults       \* which of "crash", "lowdisk", "write" happen
Pruning == world.pruning     \* IsPruneMode()
Lag == world.lag             \* batches of the coins database that a power loss may undo
MaxCrash == world.crashes    \* bound on crashes

-----------------------------------------------------------------------------
(* Blocks and coins *)

\* The branch that ends with b, from the genesis block on
Path[b \in Blocks] == IF b = Genesis THEN <<b>> ELSE Append(Path[Parent[b]], b)
Height == [b \in Blocks |-> Len(Path[b]) - 1]
GetAncestor(b, h) == Path[b][h + 1]

\* A spent coin.  No coin has height 0: the genesis outputs are never added.
Spent == 0
NoCoins == [o \in Outpoints |-> Spent]

\* SpendCoin on the inputs, AddCoins on the outputs
ApplyTx(h, coins, t) ==
  [o \in Outpoints |-> IF o \in t.out THEN h ELSE IF o \in t.in THEN Spent ELSE coins[o]]

\* The first n transactions of b, in order
ApplyTxs(b, coins, n) ==
  LET after[i \in 0 .. Len(Txs[b])] ==
        IF i = 0 THEN coins ELSE ApplyTx(Height[b], after[i - 1], Txs[b][i])
  IN after[n]

\* RollforwardBlock
RollforwardBlock(b, coins) == ApplyTxs(b, coins, Len(Txs[b]))

\* The unspent outputs after block b: what the database must hold.
Utxo[b \in Blocks] == IF b = Genesis THEN NoCoins ELSE RollforwardBlock(b, Utxo[Parent[b]])
UtxoOf(b) == IF b = NoBlock THEN NoCoins ELSE Utxo[b]

\* CTxUndo of b's i-th transaction: the coins its inputs had.
UndoCoins(b, i) == ApplyTxs(b, Utxo[Parent[b]], i - 1)

\* One transaction of DisconnectBlock: outputs spent, inputs restored
UndoTx(b, i, coins) ==
  [o \in Outpoints |->
     IF o \in Txs[b][i].in THEN UndoCoins(b, i)[o]
     ELSE IF o \in Txs[b][i].out THEN Spent ELSE coins[o]]

\* DisconnectBlock: transactions in reverse order
DisconnectBlock(b, coins) ==
  LET n == Len(Txs[b])
      undone[k \in 0 .. n] == IF k = 0 THEN coins ELSE UndoTx(b, n + 1 - k, undone[k - 1])
  IN undone[n]

Touched(b) == UNION {t.in \cup t.out : t \in Range(Txs[b])}

ASSUME TreeAssumption ==
  /\ Genesis \in Blocks /\ NoBlock \notin Blocks
  /\ Parent \in [Blocks \ {Genesis} -> Blocks]
  /\ \A S \in (SUBSET Blocks) \ {{}} : \E b \in S : b = Genesis \/ Parent[b] \notin S
\* Consensus rules: inputs exist, outputs are new (BIP 30).
ASSUME TxsAssumption ==
  /\ Txs \in [Blocks -> Seq([in : SUBSET Outpoints, out : SUBSET Outpoints])]
  /\ Txs[Genesis] = <<>>
  /\ \A b \in Blocks \ {Genesis} : \A i \in DOMAIN Txs[b] :
       LET t == Txs[b][i]
       IN /\ \A o \in t.in : UndoCoins(b, i)[o] # Spent
          /\ \A o \in t.out : UndoCoins(b, i)[o] = Spent
ASSUME WorldsAssumption ==
  /\ KeepBlocks \in Nat /\ MaxUnflushed \in Nat
  /\ \A w \in Worlds :
       /\ w.blocks \subseteq Blocks /\ w.faults \subseteq {"crash", "lowdisk", "write"}
       /\ w.pruning \in BOOLEAN /\ w.lag \in Nat /\ w.crashes \in Nat

\* What a reader of CoinsTip sees.
View == [o \in Outpoints |-> IF o \in DOMAIN cache.dirty THEN cache.dirty[o] ELSE db.coin[o]]

\* The view v becomes visible with best block b; touched entries are DIRTY.
Committed(v, touched, b) ==
  [dirty |-> [o \in DOMAIN cache.dirty \cup touched |-> v[o]], best |-> b]

\* The height of LastCommonAncestor(a, b); none when a is null
Shared(a, b) == {h \in 0 .. Height[a] : h <= Height[b] /\ GetAncestor(a, h) = GetAncestor(b, h)}
ForkHeight(a, b) ==
  IF a = NoBlock THEN 0 ELSE CHOOSE h \in Shared(a, b) : \A i \in Shared(a, b) : i <= h

\* Blocks on b's branch since the last complete flush.
Unflushed(b) == Height[b] - ForkHeight(db.best, b)

-----------------------------------------------------------------------------
(* The running node *)

NoFlush == [erase |-> FALSE, prune |-> {}, todo |-> {}, then |-> "run"]
NoCache == [dirty |-> [o \in {} |-> Spent], best |-> NoBlock]
EmptyIndex == [known |-> {}, have |-> {}, undo |-> {}]

\* LoadBlockIndexDB, then LoadGenesisBlock
Loaded(i) == IF Genesis \in i.known THEN i ELSE [known |-> {Genesis}, have |-> {Genesis}, undo |-> {}]

Init ==
  /\ world \in Worlds
  /\ index = Loaded(EmptyIndex)
  /\ diskIndex = EmptyIndex
  /\ files = {Genesis}
  /\ db = [coin |-> NoCoins, best |-> NoBlock, heads |-> <<>>]
  /\ past = <<>>
  /\ cache = NoCache
  /\ pc = "run"
  /\ fl = NoFlush
  /\ crashes = 0

\* AcceptBlock: data written, index entry dirty
ReceiveBlock(b) ==
  /\ pc = "run"
  /\ b \notin index.have /\ b # Genesis /\ Parent[b] \in index.known
  /\ index' = [index EXCEPT !.known = @ \cup {b}, !.have = @ \cup {b}]
  /\ files' = files \cup {b}
  /\ UNCHANGED <<diskIndex, db, past, cache, pc, fl, crashes, world>>

\* ConnectTip; FlushStateToDisk(IF_NEEDED) may follow
ConnectTip(b) ==
  /\ pc = "run"
  /\ b \in index.have
  /\ IF b = Genesis THEN cache.best = NoBlock ELSE cache.best = Parent[b]
  /\ Unflushed(b) <= MaxUnflushed
  /\ cache' = Committed(RollforwardBlock(b, View), Touched(b), b)
  /\ index' = [index EXCEPT !.undo = @ \cup ({b} \ {Genesis})]
  /\ UNCHANGED <<diskIndex, files, db, past, pc, fl, crashes, world>>

\* DisconnectTip; anything but DISCONNECT_OK changes nothing
DisconnectTip ==
  LET b == cache.best
  IN /\ pc = "run"
     /\ b \notin {NoBlock, Genesis}
     /\ b \in index.have \cap index.undo
     /\ \A o \in Touched(b) : View[o] = Utxo[b][o]
     /\ cache' = Committed(DisconnectBlock(b, View), Touched(b), Parent[b])
     /\ UNCHANGED <<store, db, past, pc, fl, crashes, world>>

-----------------------------------------------------------------------------
(* FlushStateToDisk *)

\* Blocks in files that FindFilesToPrune(Manual) may choose
Prunable ==
  IF ~Pruning \/ cache.best = NoBlock THEN {}
  ELSE {b \in index.have : b = Genesis \/ Height[b] <= Height[cache.best] - KeepBlocks}

\* should_write: the files to prune are chosen and their blocks marked
StartFlush(erase, prune, then) ==
  /\ prune \subseteq Prunable
  /\ index' = [index EXCEPT !.have = @ \ prune, !.undo = @ \ prune]
  /\ fl' = [erase |-> erase, prune |-> prune, todo |-> {}, then |-> then]
  /\ pc' = "index"
  /\ UNCHANGED <<diskIndex, files, db, past, cache, crashes, world>>

FlushStateToDisk(erase, prune) == pc = "run" /\ StartFlush(erase, prune, "run")

\* Shutdown(): FORCE_FLUSH, also after a fatal error
Shutdown(prune) == pc \in {"run", "fatal"} /\ StartFlush(TRUE, prune, "off")

\* Nothing is written while CoinsTip has no best block.
ToCoins ==
  /\ pc' = IF cache.best = NoBlock THEN fl.then ELSE "coins"
  /\ fl' = [fl EXCEPT !.todo = DOMAIN cache.dirty]

\* Mutant: the block index is left for a later flush.
IndexNotWritten ==
  /\ pc = "index"
  /\ IF fl.prune # {} THEN pc' = "unlink" /\ UNCHANGED fl ELSE ToCoins
  /\ UNCHANGED <<store, db, past, cache, crashes, world>>

WriteBlockIndexDB ==
  /\ pc = "index"
  /\ diskIndex' = index
  /\ IF fl.prune # {} THEN pc' = "unlink" /\ UNCHANGED fl ELSE ToCoins
  /\ UNCHANGED <<index, files, db, past, cache, crashes, world>>

UnlinkPrunedFiles ==
  /\ pc = "unlink"
  /\ files' = files \ fl.prune
  /\ ToCoins
  /\ UNCHANGED <<index, diskIndex, db, past, cache, crashes, world>>

\* CheckDiskSpace, before the block index and before the coins
DiskSpaceTooLow ==
  /\ "lowdisk" \in Faults
  /\ pc \in {"index", "coins"}
  /\ pc' = "fatal"
  /\ fl' = NoFlush
  /\ UNCHANGED <<store, db, past, cache, crashes, world>>

-----------------------------------------------------------------------------
(* CCoinsViewDB::BatchWrite *)

Writing == pc \in {"coins", "replay", "batch"}

OldTip == IF db.best = NoBlock /\ Len(db.heads) = 2 THEN db.heads[2] ELSE db.best

\* Mutant: the transition that was interrupted is forgotten.
HeadsForgetOldTip == <<cache.best, db.best>>

\* DB_HEAD_BLOCKS, in the first batch
Heads == <<cache.best, OldTip>>

Written(S) == [o \in Outpoints |-> IF o \in S THEN cache.dirty[o] ELSE db.coin[o]]

\* A batch reaches the database; it is not synced.
WriteBatch(new) ==
  /\ db' = new
  /\ past' = IF Len(past) < Lag THEN Append(past, db) ELSE Tail(Append(past, db))

\* Sync unflags the entries it has passed, Flush keeps them until the end.
Passed(S) ==
  IF fl.erase THEN cache.dirty ELSE [o \in DOMAIN cache.dirty \ S |-> cache.dirty[o]]

\* batch_write_bytes reached: the database is between two tips
PartialBatch(S) ==
  /\ Writing
  /\ S \subseteq fl.todo /\ S # {}
  /\ WriteBatch([coin |-> Written(S), best |-> NoBlock,
                 heads |-> IF pc = "batch" THEN db.heads ELSE Heads])
  /\ fl' = [fl EXCEPT !.todo = @ \ S]
  /\ cache' = [cache EXCEPT !.dirty = Passed(S)]
  /\ pc' = "batch"
  /\ UNCHANGED <<store, crashes, world>>

\* Mutant: DB_HEAD_BLOCKS is not erased.
FinalKeepsHeads ==
  /\ Writing
  /\ WriteBatch([coin |-> Written(fl.todo), best |-> cache.best,
                 heads |-> IF pc = "batch" THEN db.heads ELSE Heads])
  /\ cache' = IF fl.then = "off" THEN NoCache ELSE [NoCache EXCEPT !.best = cache.best]
  /\ pc' = fl.then
  /\ fl' = NoFlush
  /\ UNCHANGED <<store, crashes, world>>

\* The last batch: consistent with the best block again, the cache is clean
FinalBatch ==
  /\ Writing
  /\ WriteBatch([coin |-> Written(fl.todo), best |-> cache.best, heads |-> <<>>])
  /\ cache' = IF fl.then = "off" THEN NoCache ELSE [NoCache EXCEPT !.best = cache.best]
  /\ pc' = fl.then
  /\ fl' = NoFlush
  /\ UNCHANGED <<store, crashes, world>>

\* Mutant: the error is logged and the node runs on.
WriteErrorIgnored(S) ==
  /\ "write" \in Faults
  /\ Writing
  /\ S \subseteq fl.todo
  /\ cache' = IF fl.then = "start" THEN NoCache ELSE [cache EXCEPT !.dirty = Passed(S)]
  /\ pc' = IF fl.then = "start" THEN "off" ELSE fl.then
  /\ fl' = NoFlush
  /\ UNCHANGED <<store, db, past, crashes, world>>

\* WriteBatch throws: FatalError, or the start-up is given up
WriteFails(S) ==
  /\ "write" \in Faults
  /\ Writing
  /\ S \subseteq fl.todo
  /\ cache' = IF fl.then = "start" THEN NoCache ELSE [cache EXCEPT !.dirty = Passed(S)]
  /\ pc' = IF fl.then = "start" THEN "off" ELSE "fatal"
  /\ fl' = NoFlush
  /\ UNCHANGED <<store, db, past, crashes, world>>

-----------------------------------------------------------------------------
(* Crash and start-up *)

\* The process dies; a power loss may take the newest batches with it.
Crash ==
  /\ "crash" \in Faults /\ crashes < MaxCrash
  /\ pc \notin {"off", "refused"}
  /\ db' \in {db} \cup Range(past)
  /\ past' = <<>>
  /\ cache' = NoCache
  /\ pc' = "off"
  /\ fl' = NoFlush
  /\ crashes' = crashes + 1
  /\ UNCHANGED <<store, world>>

\* ReplayBlocks' locals: pindexOld's height and nForkHeight; both 0 after a first flush
OldHeight == IF db.heads[2] = NoBlock THEN 0 ELSE Height[db.heads[2]]
nForkHeight == ForkHeight(db.heads[2], db.heads[1])

\* The blocks that are undone and those that are applied
Back == {GetAncestor(db.heads[2], h) : h \in nForkHeight + 1 .. OldHeight}
Forward == {GetAncestor(db.heads[1], h) : h \in nForkHeight + 1 .. Height[db.heads[1]]}

\* "Rollback along the old branch."
RolledBack ==
  LET n == OldHeight - nForkHeight
      back[k \in 0 .. n] ==
        IF k = 0 THEN db.coin
        ELSE DisconnectBlock(GetAncestor(db.heads[2], OldHeight + 1 - k), back[k - 1])
  IN back[n]

\* "Roll forward from the forking point to the new tip."
RolledForward(coins) ==
  LET n == Height[db.heads[1]] - nForkHeight
      forward[k \in 0 .. n] ==
        IF k = 0 THEN coins
        ELSE RollforwardBlock(GetAncestor(db.heads[1], nForkHeight + k), forward[k - 1])
  IN forward[n]

\* Mutant: blocks of the old branch are not undone.
RolledForwardOnly == RolledForward(db.coin)

Replayed == RolledForward(RolledBack)

\* Every block that ReplayBlocks reads can be read.
CanReplay ==
  /\ Range(db.heads) \ {NoBlock} \subseteq index'.known
  /\ Back \subseteq index'.have \cap index'.undo \cap files
  /\ Forward \subseteq index'.have \cap files

Refuse == pc' = "refused" /\ UNCHANGED <<cache, fl>>

\* LoadChainTip
LoadChainTip ==
  IF db.best \in index'.known \cup {NoBlock}
  THEN pc' = "run" /\ cache' = [NoCache EXCEPT !.best = db.best] /\ UNCHANGED fl
  ELSE Refuse

ReplayBlocks ==
  LET touched == UNION {Touched(b) : b \in Back \cup Forward}
  IN IF CanReplay
     THEN /\ cache' = [dirty |-> [o \in touched |-> Replayed[o]], best |-> db.heads[1]]
          /\ fl' = [erase |-> TRUE, prune |-> {}, todo |-> touched, then |-> "start"]
          /\ pc' = "replay"
     ELSE Refuse

\* LoadBlockIndexDB, ReplayBlocks, LoadChainTip
Start ==
  /\ pc \in {"off", "start"}
  /\ index' = Loaded(diskIndex)
  /\ IF ~(diskIndex.have \subseteq files) THEN Refuse
     ELSE IF db.heads = <<>> THEN LoadChainTip ELSE ReplayBlocks
  /\ UNCHANGED <<diskIndex, files, db, past, crashes, world>>

-----------------------------------------------------------------------------
BatchWrite == FinalBatch \/ \E S \in SUBSET Outpoints : PartialBatch(S)

Next ==
  \/ \E b \in Branches : ReceiveBlock(b) \/ ConnectTip(b)
  \/ DisconnectTip
  \/ \E prune \in SUBSET Prunable :
       (\E erase \in BOOLEAN : FlushStateToDisk(erase, prune)) \/ Shutdown(prune)
  \/ WriteBlockIndexDB
  \/ UnlinkPrunedFiles
  \/ DiskSpaceTooLow
  \/ BatchWrite
  \/ \E S \in SUBSET Outpoints : WriteFails(S)
  \/ Crash
  \/ Start

Spec == Init /\ [][Next]_vars

\* A started node goes on: nothing in the start-up or in a flush waits for anybody.
FairSpec == Spec /\ WF_vars(Start) /\ WF_vars(BatchWrite)

-----------------------------------------------------------------------------
(* Properties *)

BlockOrNone == Blocks \cup {NoBlock}
Heights == Range(Height)
Coins == [Outpoints -> Heights]
Cache == [dirty : UNION {[S -> Heights] : S \in SUBSET Outpoints}, best : BlockOrNone]
Locals == [erase : BOOLEAN, prune : SUBSET Blocks, todo : SUBSET Outpoints,
           then : {"run", "off", "start"}]
Index == [known : SUBSET Blocks, have : SUBSET Blocks, undo : SUBSET Blocks]
Database == [coin : Coins, best : BlockOrNone,
             heads : {<<>>} \cup (Blocks \X BlockOrNone)]

\* The databases, the index and the locals of FlushStateToDisk are well-formed; in particular
\* DB_HEAD_BLOCKS is absent or a pair whose first block is known.
TypeOK ==
  /\ world \in Worlds
  /\ index \in Index /\ diskIndex \in Index /\ files \subseteq Blocks
  /\ db \in Database /\ past \in Seq(Database) /\ Len(past) <= Lag
  /\ cache \in Cache
  /\ pc \in {"run", "index", "unlink", "coins", "replay", "batch", "fatal", "off", "start",
             "refused"}
  /\ fl \in Locals
  /\ crashes \in 0 .. MaxCrash

\* Every database that a restart may find
OnDisk == {db} \cup Range(past)

\* A database that names a best block (BatchWrite's last batch: "mark the database as
\* consistent with block_hash again") holds exactly the unspent outputs after that block,
\* whatever crashes, partial flushes and replays came before.
ConsistentMeansExact ==
  \A d \in OnDisk : d.heads = <<>> => d.coin = UtxoOf(d.best)

\* Unless a batch fails (section 4 of the README): a database that names a best block holds
\* exactly the unspent outputs after it, whatever crashes, partial flushes and replays came
\* before, and CoinsTip over it shows a running node those after its own best block.
ExactWithoutWriteErrors ==
  "write" \notin Faults => /\ ConsistentMeansExact
                           /\ pc = "run" => View = UtxoOf(cache.best)

\* While DB_HEAD_BLOCKS names a transition every coin is the old tip's or the new tip's:
\* BatchWrite and a replay that is itself interrupted never leave a third value (while no batch
\* fails).
TransitionMixesTwoTips ==
  "write" \notin Faults => \A d \in OnDisk : d.heads # <<>> =>
    \A o \in Outpoints : d.coin[o] \in {UtxoOf(d.heads[1])[o], UtxoOf(d.heads[2])[o]}

\* Whenever the process dies, the next start reads every block that it needs: the index on
\* disk knows the tips the database names, and the data and undo data of each block between
\* them (FlushStateToDisk writes blocks, then the index, then removes files, then the coins).
StartNeverRefused == pc # "refused"

\* BatchWrite's assert(old_heads[0] == block_hash): a flush that finds an unfinished transition
\* in the database goes to the same tip, also after write errors and in a replay.
TransitionResumedToSameTip ==
  pc \in {"coins", "replay"} /\ db.heads # <<>> => db.heads[1] = cache.best

\* An interrupted flush is finished: a node that is down comes up and runs,
\* unless the disk goes on failing.
RecoveryCompletes == (pc = "off" /\ "write" \notin Faults) ~> pc = "run"
=============================================================================
