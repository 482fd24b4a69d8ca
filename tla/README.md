# Quarlcoin: specifications and proofs

TLA+ specifications of the parts of the Quarlcoin node that decide which chain is active and
keep its coins, mempool and indexes right through reorganisations, operator commands, failures and
crashes, and of the machinery around them: difficulty, headers download, transaction requests,
callbacks. Paths are relative to the repository; `validation.cpp` means `src/validation.cpp`.

Run `tlc -config <cfg> <module>` for a run of the table in section 3 (PROJECT.json has the
names), and `tlapm <module>.tla` for the modules whose names end in `Proofs`.

## 1. Inventory

Quarlcoin is a full node in C++ derived from Bitcoin Core, with BLAKE3 proof of work, an ASERT
difficulty rule, 150-second blocks and a CPU miner of its own.

| Component | State | Operations | What is hard | What makes it correct |
|---|---|---|---|---|
| Coins hierarchy (`coins.cpp`, `coins.h`) | per layer a map of entries with DIRTY and FRESH, a dirty count, a best block | fetch, add, spend, batch write, flush, sync, reset, uncache | the meaning of a flag depends on the layer below and on every earlier flush | reads see one consistent UTXO set; nothing is lost by caching |
| Block tree and chain selection (`validation.cpp`, `node/blockstorage.cpp`) | block index flags, candidates, waiting blocks, best header, tip | accept header or block, ActivateBestChain, invalidate, reconsider, precious, prune, restart | two locks, one of them given up in the middle; blocks out of order; failing reorganisations | CheckBlockIndex's assertions; the best usable chain gets active |
| Flush and recovery (`validation.cpp`, `txdb.cpp`, `dbwrapper.cpp`) | two databases, block files, CoinsTip | FlushStateToDisk, BatchWrite, ReplayBlocks, start, shutdown | death between any two writes, also in the repair; write errors; pruning | the coins on disk are exact or repairable, and the node starts |
| Script check queue (`checkqueue.h`) | queue, counters, shared result, threads | Add, Complete, Loop, destructor | condition variables, early failure, threads that outlive a block | the verdict on a block is that of its own checks |
| Mempool reorg (`validation.cpp`, `txmempool.cpp`, `kernel/disconnected_transactions.cpp`) | disconnect pool, mempool, its dependency graph | disconnect, connect, add back, remove | memory limit, reorganisations that fail half way | the mempool fits the tip; nothing is lost without need |
| Indexes (`index/base.cpp`, `index/coinstatsindex.cpp`, `index/blockfilterindex.cpp`) | best block, synced flag, running state, database | Sync, BlockConnected, ChainStateFlushed, Commit, Rewind, Init | hand-over between threads, reorganisations, crashes | an index is a fold over one chain, never committed ahead of the flushed one |
| Scheduler, task runner (`scheduler.cpp`, `validationinterface.cpp`) | timed queue, callback queue | schedule, serve, insert, process, stop, flush | several service threads, early returns, shutdown | callbacks run once, one at a time and in order |
| Headers presync (`headerssync.cpp`, `net_processing.cpp`) | phase, commitments, buffer | process headers, pop | two downloads of one chain have to agree | only a chain with enough work is released |
| Transaction requests (`txrequest.cpp`) | announcements in five states | inv, request, response, expiry, disconnect | late answers, a clock that goes back | one request in flight per transaction; none forgotten |
| Difficulty (`pow.cpp`, `arith_uint256.cpp`) | none | ASERT target, compact form | truncation, shifts, overflow of the width | monotone in time, within limits, exact at the anchor |
| Block files (`node/blockstorage.cpp`) | file infos, cursors, undo height | allocate, write, flush, finalise, prune | undo data written later than the block, fsync order | not modelled (section 6) |
| CPU miner (`quarl-miner.cpp`) | template, threads, stale flag | template, grind, watch, submit | threads that race the watcher | not modelled (section 6) |

How they interact. A message handler or RPC calls `ProcessNewBlock` or `ProcessNewBlockHeaders`
(headers of an unknown chain only after HeadersSync has released them), which change the block tree
under `cs_main`; then `ActivateBestChain`, under `m_chainstate_mutex`, connects and disconnects
blocks, each in a coins view over CoinsTip, with the check queue for the scripts, and makes the
mempool fit. It gives `cs_main` up between steps, and the signals tell wallet, indexes and peers
about each step through the serial task runner. After each step, on a timer and at shutdown,
`FlushStateToDisk` writes block files, block index and coins, in this order, and tells the indexes.
At start the databases are read back and an interrupted flush is repaired before anything else runs.

The modules meet at these places: `HeadersSync` computes with `Asert`; `IndexSync` takes from
`Scheduler` that callbacks come one at a time and in order, and from `CoinsFlush` that a crash
returns the chain to the flushed tip; `MempoolReorg` takes from `ChainState` that targets have more
work, and follows one reorganisation inside a stretch of `cs_main`; `CoinsFlush` takes from
`CoinsCache` that the dirty part of CoinsTip over the database is the UTXO set.

The remaining parts are listed in `PROJECT.json` with the reason each is left out. Its "hazards" are
what these modules are aimed at.

## 2. Modules

### UtxoStore, CoinsCache, CoinsCacheProofs

`UtxoStore` is the promise: a store of unspent outputs with one open transaction, that commits as
a whole, is abandoned as a whole, and is written to disk as a whole. `CoinsCache` is the code: the
database `db`, CoinsTip `tip` and the view of one block `view`. A cache is the record of its
entries (`have`, `coin`), flag sets (`dirty`, `fresh`), `m_dirty_count` and `m_block_hash`.
`FetchCoin`, `AddCoin`, `SpendCoin`, `BatchWrite`, `Flush`, `Sync`, `Reset`, `Uncache` are
operators on a cache, and the actions are the calls that validation makes with them. `kind` tells
a connecting block (`CoinsViewOverlay`, whose reads do not fill CoinsTip) from a disconnecting one.

### ChainState, ChainStateProofs

The block index is a set per flag (`have`, `txs`, `linked`, `failed`). `seq` is `nSequenceId`,
`cands` `setBlockIndexCandidates`, `unlinked` the blocks in `m_blocks_unlinked` and `earlier` the
order of siblings in this multimap. A step is a stretch of code under `cs_main`; `pc`,
`abc` and `inv` are the place and the locals of the one thread that holds
`m_chainstate_mutex`, and `pending` the threads about to ask for it. The block tree, its proofs of
work and the pointer order are constants. A behaviour picks its setting, `world`, at the start: the
blocks that arrive, those that pass `ContextualCheckBlock` (`checked`) and `ConnectBlock` (`valid`),
the operator commands that happen, and bounds.

### CoinsFlush, CoinsFlushProofs

`index` and `diskIndex` are the block index in memory and in its database, `files` the blocks with
files, `db` the chainstate database with `DB_BEST_BLOCK` and `DB_HEAD_BLOCKS`, `cache` the dirty
part of CoinsTip. A flush goes through `WriteBlockIndexDB`, `UnlinkPrunedFiles`, any number of
`PartialBatch`es and a `FinalBatch`, and `Crash` may come between any two. `past` are the last `lag`
database contents: writes to the chainstate are not synced, so a power loss may bring them back.
`Start` loads the index, replays an unfinished transition (`RolledBack` along the old branch, then
`RolledForward` along the new one, with `GetAncestor` from the fork) and flushes it with the same
batches. A coin is the height that created it, so that two blocks with the same transaction give different
coins. Here too a `world` has the blocks, the faults and the bounds of a behaviour.

### CheckQueue, CheckQueueProofs

The master and the workers, one step per critical section and one per batch executed. Condition
variables are wait sets; waiters may also wake for no reason. A check is 0 when it passes and the
number of its block when it fails, so that a result tells which block it belongs to.

### MempoolReorg

One stretch of `cs_main` and the mempool's lock, from `ActivateBestChainStep` or `InvalidateBlock`
through `DisconnectTip` and `ConnectTip` to `MaybeUpdateMempoolForReorg`: `AddBack` takes one
transaction of the disconnect pool `queued`, `UpdateMempool` is `UpdateTransactionsFromBlock` and
`removeForReorg`. `linked` is the dependency graph of `m_txgraph`, which for children that were in the
mempool before their parents came back is wrong until then. `coins` is the block whose coins
CoinsTip holds, different from the tip only after a flush that failed in the middle of a step.

### IndexSync, IndexSyncProofs

`heightIndex`, `hashIndex` and `committed` are the index's database, `best`, `synced` and `state`
its memory; `state`, a muhash or a filter header, is a fold over the blocks appended and is modelled
by their sequence. The sync thread (`sync`, `at`) and the callback thread (`event`, `queue`) each
read the chain under `cs_main` and then act without it; a rewind is one step per block (`todo`).
`LookUpOne` is what a query finds, for both indexes. `Kind` says which index it is, as `CustomInit`
and `CustomRemove` read entries back differently. `caller` is a thread in
`BlockUntilSyncedToCurrentChain`.

### Scheduler, SerialQueue, SchedulerProofs

`taskQueue` is the multimap of `CScheduler`, `pending` and `running` the state of the
`SerialTaskRunner`. Service threads, clients and the thread in `Shutdown` take one step per critical
section. `SerialQueue` is the promise of `SerialTaskRunner`: callbacks begin in the order of
insertion, each after the one before has returned.

### TxRequest, RequestRules, TxRequestProofs

`RequestRules` is the text at the head of `txrequest.h`: announcements are candidates, requested
or completed, and what to ask of a peer is computed from all of them. `TxRequest` is the code: five
states, one selected announcement per transaction, and decisions from the neighbours in the
`ByTxHash` index. The loops of `SetTimePoint` are one step per turn.

### HeadersSync, HeadersSyncProofs

A header is its time and bits and a hash is the chain up to it. The peer's chain grows, is
reorganised and may have wrong bits; every message is what its chain is then. `Presync` and
`Redownload` are the two halves of `ProcessNextHeaders`. Their loops over a message are `Added`, the
queue of commitments after the first pass has seen it, and `Taken`, how many the second pass has
taken from it at each header; `Popped` is the loop of `PopHeadersReadyForAcceptance`.

### Asert, AsertChain

`Asert` has the arithmetic as operators with the width, the fractional bits and the size of a
digit of the compact form as parameters: truncation, wrap-around at the width, arithmetic shift,
the cubic, `GetCompact` and `SetCompact`, `GetBitsProof`. `AsertChain` lets a chain grow under it.

## 3. Runs

| Run | Shows | Bounds |
|---|---|---|
| `coins_cache` | exact dirty counts, refinement of UtxoStore, no lost operation | 2 outpoints, 2 coins and an unspendable one, 2 blocks; symmetric |
| `chain_core` | no visible half reorganisation; every complete valid chain is matched in the end | two settings: 7 blocks in 3 branches, one that fails ConnectBlock and one that fails ContextualCheckBlock or is the sibling of a waiting block |
| `chain_commands` | CheckBlockIndex's assertions, sound active chain, best chain active, usable targets, stable sort keys | three settings: invalidateblock and reconsiderblock on 6 blocks, one that fails ConnectBlock; pruning and restarts on 6 blocks; pruning, invalidateblock and preciousblock on 4, the precious counter at its limit |
| `flush` | exact or repairable coins, a start is never refused, transitions resumed to their tip, recovery completes | two settings: two crashes on two branches of 2 blocks, with the last batch kept or lost; full disk, failing batches and a crash on a pruned line of 3 blocks, as many unflushed as are kept |
| `checkqueue` | verdicts, nothing left behind, Complete returns, the pool stops | 2 workers, a block of up to 4 checks and one of up to 2, batches of 2 |
| `txrequest` | SanityCheck's invariants, refinement of RequestRules | 3 peers, one transaction announced by all and one by one of them, 3 points in time |
| `scheduler` | refinement of SerialQueue, every callback runs, shutdown completes and is alone | 2 service threads, 2 clients, 2 callbacks and the one of the shutdown, a periodic task |
| `asert` | legal bits, doubling per half life, order kept | 14-bit numbers, 6 blocks, times from 20 half lives early to 20 late |
| `headers_sync` | released headers are one covered chain, bounded memory, honest sync completes | chains of up to 6 headers, one reorganisation, a commitment every 2 headers, messages of 2 |
| `index_sync` | the index is a fold over one chain, answers, catches up, only a rewind after a crash fails | two branches of 2 blocks, 2 moves of the tip, 2 flushes, 1 crash |
| `mempool_reorg` | CTxMemPool::check's conditions at every release of the locks, nothing lost without need | 8 blocks in 3 branches, two of them invalid, 9 transactions, a disconnect pool of 4, maturity 2 |
| `index_missed_commit` | expected to fail: section 4 | as `index_sync` |

Why these bounds are enough to be interesting. Two outpoints and two coins let an entry be
missing, clean, dirty, fresh and spent at each layer independently of another, and let a coin be
replaced by a different one. The trees hold a reorganisation to a longer branch, one that fails
after a disconnect, a tie, and a block worth two. `Batch` 2 in place of 32 makes a reorganisation
take several steps. `KeepBlocks` 1 or 2 in place of 288 makes pruning happen; `MaxUnflushed` is the
distance between tip and last flush. `seq` is large enough for each block of a tree to arrive and
some to arrive again; `pending` 2 is one thread inside and two waiting. Two crashes interrupt
a flush and then its repair. In the check queue the first block (`Load`) is large enough for the
workers to share and comes in calls of 1, 2 or 4 checks (`AddSizes`); a second one lets a result leak.
Three peers are a selected one, the next and a third that must not be overtaken. Two callbacks and
two service threads let one thread hold a stale ProcessQueue task while the other runs. The
timestamps of `asert` reach both limits, the overflow of the width and every residue of the half
life; in `headers_sync` a chain needs five late blocks for the work, so that the buffer (1) and
the commitments are in use when the second pass begins. Two moves of the tip are what takes an index
onto a branch and back off it, and one crash comes before or after any commit. The transactions of
`mempool_reorg` hold a chain of three, a conflict, a coinbase spend, a non-standard parent, a child of
two parents, and one transaction in blocks of both branches; the pool of 4 overflows.

In the runs with `CHECK_DEADLOCK FALSE` the system may stop: trees are finite, a pool is
destroyed, a node is shut down, a sync ends, a fatal error is final. That nothing stops too early is
what the liveness properties and `BestChainActive` say.

Conditions in properties where a finding breaks them: `BestHeaderBest` is stated without
invalidateblock, `BestChainActive` and `SortKeysStable` without pruning and invalidateblock
together, `CandidatesExact` without preciousblock (equal sequence ids), `ExactWithoutWriteErrors`
and `TransitionMixesTwoTips` without failing batches, `MempoolFits` where CoinsTip is at the tip
(section 4).

### Fairness

- `ChainState`: weak fairness of the steps of the thread inside ActivateBestChain, which never
  waits for an event but only for locks. No fairness for arrivals.
- `CoinsFlush`: weak fairness of `Start` (somebody starts the node again) and of the batches; as
  crashes are bounded, recovery must then complete.
- `CheckQueue`: weak fairness of each thread outside a wait. A spurious wake-up is never fair: no
  thread may depend on it.
- `Scheduler`: weak fairness of each thread outside a wait, and strong fairness of a timed wait's
  time-out: `wait_until` returns when the time has come, and spurious wake-ups, which disable the
  time-out for a moment, do not keep a thread from it for ever. Nobody has to insert or to stop.
- `HeadersSync`: the peer answers requests. It need not mine.
- `IndexSync`: the node is started, and its two threads run. The chain need not move.

## 4. Findings

`index_missed_commit` is expected to fail: `RevertBlock` reads an entry of the hash index in the
format of the height index (`coinstatsindex.cpp:340` against `index/db_key.h:90`), so that after a
missed commit, a two-block rewind and a crash the index cannot go on, although `index/base.cpp:217`
says that a missed commit cannot corrupt it. With `Kind = "filter"` the same property fails
earlier: `ReadFilterHeader` (`blockfilterindex.cpp:242`) reads only the height index, which after a
crash may already belong to the other branch; a reorganisation of one block is enough for
`CustomInit` to refuse.

The others are reproduced by a change of a configuration or of a property's condition.

| Where | What happens | To see it |
|---|---|---|
| `validation.cpp:3560`, against the assertion at 5308 | a header accepted between the sections of InvalidateBlock is missed for `m_best_header`, which stays worse than it could be | `BestHeaderBest` without its condition, `Worlds <- Commanded` |
| `validation.cpp:3649`, against 5177 | a header whose block arrives and fails while InvalidateBlock runs becomes `m_best_header` | the first conjunct of the same, `Worlds <- CheckFailures` |
| `validation.cpp:3823`, against the comment at 3171 | a pruned tip downloaded again after invalidateblock changes its sort key inside the candidate set | `SortKeysStable` without its condition, `Worlds <- Commanded` |
| `validation.cpp:3604`, against the comment at 3678 ("essentially unobservable") | a disconnect that fails skips InvalidateBlock's last sweep, and a better chain whose blocks arrived meanwhile stays inactive | `BestChainActive` without its condition, `Worlds <- PrunedInvalidations` |
| `validation.cpp:3516`, against the help at `rpc/blockchain.cpp:1650` | preciousblock of a block with more work than the tip records the tip's work; a later call starts again at -1 and ties with it instead of overriding | `PreciousOverrides`, `Worlds <- PreciousOnly`, `MinReverse <- DeepReverse` |
| `validation.cpp:2810`, against the comment at 2775 | pruned files are unlinked before the coins are flushed; after a crash the replay cannot read them (more than `MIN_BLOCKS_TO_KEEP` blocks since the last flush) | `MCCoinsFlushPruneGap.cfg` |
| `coins.h:299`, against the comment at `txdb.cpp:177` | Sync unflags entries before their batch is written; after a write error that does not come again the flush at shutdown skips them and marks the database consistent | `MCCoinsFlushSyncFails.cfg` |
| `validation.cpp:378`, against the comment at 3261 | when the flush inside ConnectTip or DisconnectTip fails, CoinsTip is a block away from the tip, and the mempool update "just in case any observers try to use it before shutdown" may meet a spent coin and fail its assertion | `ErrorsEndInShutdown` in `MCMempoolReorg.cfg` |

One more observation, on `Scheduler`: with two or more service threads a thread whose wait for one
task timed out takes whatever is first then, which may be a task that is not due (`scheduler.h:47`
says "at/after time t"). The node starts a single service thread (`init.cpp:1465`).

## 5. Proofs

`CoinsCacheProofs` proves, for every set of blocks and coins and every finite set of outpoints
(`FiniteAssumption`, needed only to count entries), all that `coins_cache` checks:

- `TypeCorrect`, `FlagsAlwaysLegal`, `FreshNeverLies`, `CleanNeverStale`, `DirtyCountAlwaysExact`;
- `EveryOperationTakesEffect`, an action property;
- `Refinement`: `CoinsCache` implements `UtxoStore`.

The inductive invariant `IInv` says `LayerOK` of each layer against the one below: the flags are
legal, a FRESH entry has nothing below it, an entry that is not DIRTY equals what is below. None of
the three is inductive alone: SpendCoin erases a FRESH entry, so what readers see depends on FRESH
being true; BatchWrite passes FRESH on, so it depends on the entry of the layer between; Uncache and
Flush depend on clean entries being equal. Each cache operation has one lemma that it keeps
`LayerOK` and changes what is seen through the layer as intended. Since a change of CoinsTip changes
what lies below the view, `ViewStep` and `TipStep` say when the other layer survives. Invariants,
action property and refinement follow from these lemmas. The dirty count is a separate induction on
top, over cardinalities.

`TxRequestProofs` proves all that `txrequest` checks, for any sets of peers, transactions and times
and any priorities that order the peers and have a highest one in each set of them
(`TrackerAssumption`; true of any finite set):

- `IndexAlwaysSane`: SanityCheck's invariants;
- `TrackerFollowsRules`: the tracker implements `RequestRules`.

The code only looks at the neighbours of an announcement in an index sorted by state and priority.
The first lemmas say what a neighbour tells: the one below the selected announcement is the best
READY one (`BestBelowSelected`), and an announcement without a live neighbour is the only live one
(`AloneMeansOnly`). Both need the column to be sane, so sanity and the meaning of each operation are
proved together, column by column. For the refinement the invariant adds what the loops of
`SetTimePoint` have reached: in the second loop nothing that is due is still waiting, and when it
ends nothing selectable is early.

`SchedulerProofs` proves for any finite set of service threads, any clients and any bounds:

- `FlushAlwaysAlone`: no service thread is left when the shutdown thread runs callbacks;
- `TaskRunnerIsSerial`: the task runner implements `SerialQueue`.

Its invariant relates three things: a callback runs exactly in the thread whose step is "callback",
and then `m_are_callbacks_running` is set and no second thread is there; `nThreadsServicingQueue` counts
the threads inside `serviceQueue`; and before the join service threads may be anywhere, after it
they have all left.

`ChainStateProofs` proves, for every finite block tree, every sequence of headers, blocks and
commands, every number of waiting threads and every pruning depth (`TreeAssumption`,
`WorldsAssumption`):

- `ActiveChainAlwaysSound`: the active chain holds no block that is marked invalid, that
  ConnectBlock rejects or that lacks a received ancestor;
- `TargetAlwaysUsable`: the target kept over a release of `cs_main` can still be connected;
- `BestHeaderAlwaysBest`: `m_best_header` is best as long as invalidateblock is not used.

The lemmas about the tree (ancestors are closed and linearly ordered, no block is its own ancestor,
what lies above the tip is higher) start from the recursion of `AncOf`, which `AncUnfolds` derives,
and use the absence of cycles as induction principle. The invariant `IInv` adds to the two
properties what they depend on: a linked block has only linked ancestors and all of them passed
ContextualCheckBlock, so that a block rejected there has no linked descendant and marking it cannot
touch the chain or the target; while `cs_main` is free the tip lies on the way to the target, so
that whatever may be pruned, being no higher than the tip, does not; and what
InvalidateBlock is about to mark has left the active chain. For the best header the invariant is
`HeaderFound`: unless invalidateblock is used, the best header is unmarked and no unmarked header
has more work in every state, not only where CheckBlockIndex may run. The lemmas on work say that a
block has more than its parent and that the candidate order is total (`WorkUnfolds`, `OrderTotal`), so that
`FindMostWorkChain` finds a maximum (`MostWorkIsMost`).

Its second half goes on from there, on nodes that do not prune (`Unpruned`) and, for the last two,
without preciousblock (`Plain`):

- `UnlinkedAlwaysExact`, `CandidatesAlwaysExact`: CheckBlockIndex's assertions on
  `m_blocks_unlinked` and `setBlockIndexCandidates`;
- `SortKeysAlwaysStable`, an action property;
- `BestChainAlwaysActive`: the best usable chain is active when all threads have returned;
- `VisibleTipIsNeverWorse`, an action property: no half reorganisation is seen.

`Links` says that exactly the blocks received with all their ancestors are linked and the others
wait, and `Marked` that only what InvalidateBlock is about to mark builds unmarked on a marked block.
`Selection` describes the candidates in the middle of ActivateBestChain: none is worse than the tip
(`NoneWorse`); the tip that was found at the beginning can be connected again and is no worse than
the current one while the tip is off the way to the target (`StartThere`); what is at least as good as
both is a candidate (`Complete`), since only then may a failed branch be given up without losing
a better one; and the target of the last thread has the most work (`NothingBetter`). Pruning is
excluded because a pruned block that arrives again gets a new sequence id, and preciousblock because it can
give the tip a worse key than it had; `chain_commands` checks these settings.

`CheckQueueProofs` proves, for any number of workers, blocks and checks and any batch size:

- `CountsAlwaysExact`: `nTodo`, `nIdle` and `nTotal` count what they stand for;
- `ResultIsOfThisBlock` and `NothingIsLeftBehind`, the invariants of `checkqueue`.

The result alone is not inductive, because a worker keeps its local result over blocks and publishes it
only when it comes back to the lock. The invariant adds that every check queued or held is of this block
(`OfThisBlock`), that a local result is that of the batch just run (`BatchesJudged`), and that until
Complete returns an error of the block is in the shared result, in the queue or in the batch of a thread
that still counts in `nTodo` (`ErrorNotLost`).

`CoinsFlushProofs` proves, for every block tree, any transactions that spend what exists and create
what does not (`TxsAssumption`: the consensus rules and BIP 30), any number of crashes and any number
of batches that a power loss undoes (`WorldsAssumption`):

- `CoinsAlwaysExact`, `OnlyTwoTips`: without failing batches, what the database and CoinsTip hold;
- `TransitionResumed`: BatchWrite's assertion, in every setting;
- `UnprunedStarts`: `StartNeverRefused` on nodes that do not prune;
- `FlushInvariant`: the inductive invariant.

The heart is that ReplayBlocks is right about a database it did not expect. `DisconnectBlock` and
`RollforwardBlock` write every outpoint that their block touches, and what they write depends on the
block alone. So a replay from the old tip over the fork to the new one gives the coins of the new tip
if each coin has its value at the old tip or at the new one, in any mixture (`DisconnectResult`,
`RollforwardResult`, `ReplayResult`): an outpoint that no block of the two branches touches has the
same value at both. `IInv` has four parts. `Transition` ties the heads in the database to the block that
CoinsTip is at. `Exact` says that each database on disk, the earlier ones that a power loss
brings back included, is exact or such a mixture, and that what is still to be written makes it
exact; the property alone is not inductive as it says nothing in the middle of a flush. `Readable`
says that a block that has been connected, and all below it, has its data and undo data in the index and
the files, and that the index on disk knows what the database names: it was written first. The
folds over a branch are handled by minimal counterexamples, which `TreeAssumption` and the order of the
naturals allow where induction is not available. On a pruning node `StartNeverRefused` rests on
`MaxUnflushed <= KeepBlocks` (section 4) and stays with `flush`.

`IndexSyncProofs` proves, for every block tree, any number of moves of the tip, flushes and crashes:

- `IndexAlwaysExact`, `AnswerAlwaysFound`, for both kinds of index;
- `OnlyRewindFails`, for coinstatsindex, and `FailureNeedsCrash`, for both: what may fail, and when.

The invariant says in which states of the two threads which blocks have their entries. An entry is
found by height and, when a block of another branch has its height, by hash; so no entry is ever
lost by an append as long as a rewind has first copied what it leaves (`Stored`). Rewinds depend on
where the callbacks to come lead: each block connected builds on the chain of the one before, the last
one leads to the tip, and unless the index is at the tip already one of them fits its best block and
will not be ignored (`Callbacks`; `Waiting` says the same of the callbacks that a caller waits for).
`BeforeCrash` says more about a node that has not crashed: the height index alone has the chain up to
the index's position, and a rewind reads nothing else. This is what a crash destroys, and it is why only
then a rewind may fail (section 4).

`HeadersSyncProofs` proves, for any peer, any commitment period and offset, any size of the buffer and
of a message and any required work (`HeadersSyncAssumption`; of the difficulty rule only that a block's
proof is a natural number):

- `ReleasedAlwaysChain`, `ReleasedAlwaysCovered`, `MemoryAlwaysBounded`: the invariants of `headers_sync`;
- `HeadersInvariant`: the inductive invariant.

A released header has left the buffer, and of the first pass only a bit per period is left, so none of
the three says enough about the state that the next message meets. The invariant `HeadersInv` says it
by counting committed heights (`Kept`). The queue is `InStep`: it has, in order, the bits of the first
pass at the committed heights above the last header of the second. Then the n-th bit taken is that of
the header of the first pass at the height in question, and a second pass that runs past the first
meets an empty queue (`AcceptedAgrees`). The chain of the second pass is what was released followed by the
buffer, which is empty only before the first message and full once a header was released: this is
why `previous_time` may be read from the buffer's last header, with the start of the chain for an empty
one (`TimeBefore`), and why a released header always has BufferSize checked ones after it. The loops over
a message are handled as least counterexamples over its headers (`Rounds`).

Only model-checked:

- all liveness (`ValidChainMatched`, `RecoveryCompletes`, `CatchesUp` and the others), out of the
  prover's reach;
- ChainState's properties where pruning or preciousblock are in use;
- `AsertChain`: what truncation, shifts and the compact form do needs powers of two and non-linear
  arithmetic, which the provers do not have;
- `MempoolReorg`: `MempoolFits` needs descendant sets as transitive closures and the order of the
  disconnect pool, which again is induction over data.

## 6. Not modelled

- Coins: snapshot loading (`EmplaceCoinInternalDANGER`), memory accounting, input prefetching (not
  started by this tree).
- Chain selection: assumeutxo's second chainstate, `-reindex` and `-loadblock`, disk errors other
  than missing block data, what happens after a fatal error, an interrupt between two sections
  other than as a restart there. The pointer order is the same before and after a restart.
- Flush: LevelDB's inside (a batch is atomic, and a lost suffix of unsynced batches is the worst a
  power loss does), `-reindex`, compaction. The pruning setting has no power loss.
- Block files: block and undo data are taken as durable once written. Undo data that is written late
  into an older file and the order of fsyncs (`node/blockstorage.cpp:1036`) are not modelled.
- Check queue: a queue without worker threads, where validation runs the checks itself.
- Mempool: fees, replacement, size and cluster limits, lock times; accepting a transaction is one
  step with the conditions that depend on coins and conflicts.
- Indexes: txindex (it has no state to rewind), pruning and its locks, the contents of filters and
  statistics. Failing database writes.
- Scheduler: `MockForward` and `StopWhenDrained`, which tests use; registration of listeners.
- Headers presync: several peers at once (a sync is a peer's own), what the block index does with
  released headers (ChainState's subject), the salt (a fixed bit function stands for it).
- Transaction requests: the per-peer counts, derived from the announcements; read-only queries.
- Difficulty: regtest, where it never moves; BLAKE3. The numbers are scaled down, with the
  coefficients of the cubic scaled alike.
- The CPU miner, orphans and the download manager, block download, private broadcast, deployments,
  bans, addresses, connections, wallet, RPC and GUI, the mempool graph, policy and script, and
  vendored code: PROJECT.json has a reason for each. The `.ts` files of `src/qt/locale`, the bulk of
  the lines below `src/qt`, are translated texts and hold nothing to model.
