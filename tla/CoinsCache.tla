----------------------------- MODULE CoinsCache -----------------------------
(***************************************************************************)
(* The coins hierarchy of coins.cpp / coins.h: a database, the chainstate's *)
(* CCoinsViewCache over it (CoinsTip) and the short-lived view that         *)
(* ConnectTip and DisconnectTip stack on top for one block.                 *)
(*                                                                          *)
(* A cache is a record: `have' the outpoints with an entry in cacheCoins,   *)
(* `coin' their coins (NoCoin for a spent one), `dirty' and `fresh' the     *)
(* flagged entries, `count' m_dirty_count, `best' m_block_hash.             *)
(*                                                                          *)
(* Everything here runs under cs_main, so an operation is one step; a block *)
(* is many.  What can go wrong is the flag discipline: a missing DIRTY      *)
(* loses a change, a wrong FRESH resurrects a spent coin, many steps later  *)
(* and only for some order of reads, spends, re-adds and flushes.           *)
(***************************************************************************)
EXTENDS Integers, FiniteSets

CONSTANTS
  Outpoints,    \* COutPoint
  Coins,        \* unspent outputs
  Unspendable,  \* those of them with an unspendable script
  NoCoin,       \* a spent (null) Coin
  Blocks,       \* block hashes
  NoBlock       \* the null hash

ASSUME CoinAssumption == NoCoin \notin Coins /\ Unspendable \subseteq Coins
ASSUME BlockAssumption == NoBlock \notin Blocks
ASSUME FiniteAssumption == IsFiniteSet(Outpoints)

VARIABLES
  db,    \* CCoinsViewDB: [coin, best]
  tip,   \* Chainstate::CoinsTip()
  view,  \* the view of the block being connected or disconnected
  kind   \* "none": no block in progress; "overlay": CoinsViewOverlay (ConnectTip);
         \* "plain": CCoinsViewCache (DisconnectTip)

vars == <<db, tip, view, kind>>

-----------------------------------------------------------------------------
MaybeCoin == Coins \cup {NoCoin}
MaybeBlock == Blocks \cup {NoBlock}

Store == [coin : [Outpoints -> MaybeCoin], best : MaybeBlock]

Cache == [have : SUBSET Outpoints, coin : [Outpoints -> MaybeCoin],
          dirty : SUBSET Outpoints, fresh : SUBSET Outpoints,
          count : Int, best : MaybeBlock]

\* The database and both caches (CCoinsViewCache) are well-formed.
TypeOK ==
  /\ db \in Store
  /\ tip \in Cache
  /\ view \in Cache
  /\ kind \in {"none", "overlay", "plain"}

NoCoins == [o \in Outpoints |-> NoCoin]

\* No entry; m_dirty_count and m_block_hash as given.
ClearedCache(n, b) == [have |-> {}, coin |-> NoCoins, dirty |-> {}, fresh |-> {},
                       count |-> n, best |-> b]

EmptyCache == ClearedCache(0, NoBlock)

\* CCoinsViewCache::SetBestBlock
WithBest(c, b) == [have |-> c.have, coin |-> c.coin, dirty |-> c.dirty, fresh |-> c.fresh,
                   count |-> c.count, best |-> b]

-----------------------------------------------------------------------------
(* Reading through the layers *)

\* CCoinsViewCache::PeekCoin: an entry, even a spent one, hides the base.
Peek(c, base) == [o \in Outpoints |-> IF o \in c.have THEN c.coin[o] ELSE base[o]]

TipCoins == Peek(tip, db.coin)
ViewCoins == Peek(view, TipCoins)

\* CCoinsViewCache::GetBestBlock: a null m_block_hash is filled from the base.
BestOf(c, base) == IF c.best = NoBlock THEN base ELSE c.best

TipBest == BestOf(tip, db.best)

\* CCoinsViewCache::FetchCoin: a miss that finds a coin below makes a clean entry.
FetchCoin(c, o, found) ==
  IF o \in c.have \/ found = NoCoin
  THEN c
  ELSE [have |-> c.have \cup {o}, coin |-> [c.coin EXCEPT ![o] = found],
        dirty |-> c.dirty, fresh |-> c.fresh, count |-> c.count, best |-> c.best]

\* FetchCoinFromBase: a plain view asks its base with GetCoin, which fetches
\* into CoinsTip too; the overlay only peeks.  A hit in the view asks nobody.
TipFetched(o) ==
  IF kind = "plain" /\ o \notin view.have THEN FetchCoin(tip, o, db.coin[o]) ELSE tip

ViewFetched(o) == FetchCoin(view, o, TipCoins[o])

-----------------------------------------------------------------------------
(* Changing one layer *)

\* A re-added coin whose spentness is not flushed yet must not become FRESH.
MayBeFresh(c, o, overwrite) == ~overwrite /\ o \notin c.dirty

CountTwice(c, o) == c.count + 1

\* m_dirty_count when the entry of o becomes, or stays, dirty.
CountWith(c, o) == (IF o \in c.dirty THEN c.count - 1 ELSE c.count) + 1

\* CCoinsViewCache::AddCoin
AddCoin(c, o, coin, overwrite) ==
  IF coin \in Unspendable
  THEN c
  ELSE [have  |-> c.have \cup {o},
        coin  |-> [c.coin EXCEPT ![o] = coin],
        dirty |-> c.dirty \cup {o},
        fresh |-> IF MayBeFresh(c, o, overwrite) THEN c.fresh \cup {o} ELSE c.fresh,
        count |-> CountWith(c, o),
        best  |-> c.best]

\* cacheCoins.erase of an entry
EraseEntry(c, o) ==
  [have  |-> c.have \ {o},
   coin  |-> [c.coin EXCEPT ![o] = NoCoin],
   dirty |-> c.dirty \ {o},
   fresh |-> c.fresh \ {o},
   count |-> IF o \in c.dirty THEN c.count - 1 ELSE c.count,
   best  |-> c.best]

SpendByErasing(c, o) == IF o \in c.have THEN EraseEntry(c, o) ELSE c

\* CCoinsViewCache::SpendCoin, after its FetchCoin: a FRESH entry just goes away.
SpendCoin(c, o) ==
  IF o \notin c.have
  THEN c
  ELSE IF o \in c.fresh
       THEN EraseEntry(c, o)
       ELSE [have |-> c.have, coin |-> [c.coin EXCEPT ![o] = NoCoin],
             dirty |-> c.dirty \cup {o}, fresh |-> c.fresh,
             count |-> CountWith(c, o), best |-> c.best]

-----------------------------------------------------------------------------
(* Pushing the dirty entries of c into the layer below *)

\* Entries of p that vanish: spent above, and p's own base has no coin either.
Dropped(p, c) ==
  {o \in c.dirty : c.coin[o] = NoCoin /\ IF o \in p.have THEN o \in p.fresh ELSE o \in c.fresh}

\* FRESH is passed on only to an entry that p did not have.
FreshAfterWrite(p, c) == p.fresh \cup (c.fresh \ p.have)

\* CCoinsViewCache::BatchWrite
BatchWrite(p, c, b) ==
  LET gone == Dropped(p, c)
  IN [have  |-> (p.have \cup c.dirty) \ gone,
      coin  |-> [o \in Outpoints |-> IF o \in c.dirty THEN c.coin[o] ELSE p.coin[o]],
      dirty |-> (p.dirty \cup c.dirty) \ gone,
      fresh |-> FreshAfterWrite(p, c) \ gone,
      count |-> p.count + Cardinality(c.dirty \ (p.dirty \cup gone))
                        - Cardinality(gone \cap p.dirty),
      best  |-> b]

\* The logic_error of BatchWrite: a coin that is FRESH above exists below.
FreshMisapplied(p, c) == \E o \in c.dirty \cap c.fresh \cap p.have : p.coin[o] # NoCoin

\* CCoinsViewDB::BatchWrite as one step; its batches are a subject of their own.
DbWrite(d, c, b) ==
  [coin |-> [o \in Outpoints |-> IF o \in c.dirty THEN c.coin[o] ELSE d.coin[o]],
   best |-> b]

\* The cursor of Sync erases the spent entries and un-flags the others.
AfterSync(c, b) ==
  [have |-> {o \in c.have : c.coin[o] # NoCoin}, coin |-> c.coin,
   dirty |-> {}, fresh |-> {}, count |-> c.count - Cardinality(c.dirty), best |-> b]

-----------------------------------------------------------------------------
(* The operations *)

Init ==
  /\ db = [coin |-> NoCoins, best |-> NoBlock]
  /\ tip = EmptyCache
  /\ view = EmptyCache
  /\ kind = "none"

\* ConnectTip and DisconnectTip open an empty view; both assert its GetBestBlock
\* first, which caches the hash in the view and in CoinsTip.
OpenView(k) ==
  /\ kind = "none"
  /\ kind' = k
  /\ tip' = WithBest(tip, TipBest)
  /\ view' = ClearedCache(0, TipBest)
  /\ UNCHANGED db

\* HaveCoin, AccessCoin, GetCoin on the open view
ViewRead(o) ==
  /\ kind # "none"
  /\ tip' = TipFetched(o)
  /\ view' = ViewFetched(o)
  /\ UNCHANGED <<db, kind>>

\* UpdateCoins -> AddCoins(check = false): only a coinbase may overwrite; for any
\* other transaction the BIP30 rule has established that the output is new.
ViewAddOutput(o, c, coinbase) ==
  /\ kind = "overlay"
  /\ coinbase \/ ViewCoins[o] = NoCoin
  /\ view' = AddCoin(view, o, c, coinbase)
  /\ UNCHANGED <<db, tip, kind>>

\* ApplyTxInUndo: HaveCoin decides whether the restored input is an overwrite.
\* Undo data holds coins that were once in a view, so never an unspendable one.
ViewRestoreInput(o, c) ==
  /\ kind = "plain"
  /\ c \notin Unspendable
  /\ tip' = TipFetched(o)
  /\ view' = AddCoin(ViewFetched(o), o, c, ViewCoins[o] # NoCoin)
  /\ UNCHANGED <<db, kind>>

\* SpendCoin, by UpdateCoins (inputs) and by DisconnectBlock (outputs)
ViewSpend(o) ==
  /\ kind # "none"
  /\ tip' = TipFetched(o)
  /\ view' = SpendCoin(ViewFetched(o), o)
  /\ UNCHANGED <<db, kind>>

\* SetBestBlock at the end of ConnectBlock or DisconnectBlock, then view.Flush().
FlushView(b) ==
  /\ kind # "none"
  /\ tip' = BatchWrite(tip, view, b)
  /\ view' = EmptyCache
  /\ kind' = "none"
  /\ UNCHANGED db

\* The view goes away unflushed: Reset() by ConnectTip's guard, or its destructor.
DropView ==
  /\ kind # "none"
  /\ view' = EmptyCache
  /\ kind' = "none"
  /\ UNCHANGED <<db, tip>>

\* CoinsTip read by the mempool and the RPCs, between blocks
TipRead(o) ==
  /\ kind = "none"
  /\ tip' = FetchCoin(tip, o, db.coin[o])
  /\ UNCHANGED <<db, view, kind>>

UncacheAny(o) ==
  /\ kind = "none"
  /\ o \in tip.have
  /\ tip' = EraseEntry(tip, o)
  /\ UNCHANGED <<db, view, kind>>

\* CCoinsViewCache::Uncache, for inputs of transactions the mempool refused
Uncache(o) ==
  /\ kind = "none"
  /\ o \in tip.have \ tip.dirty
  /\ tip' = EraseEntry(tip, o)
  /\ UNCHANGED <<db, view, kind>>

\* FlushStateToDisk with empty_cache: CoinsTip().Flush()
FlushTip ==
  /\ kind = "none"
  /\ TipBest # NoBlock
  /\ db' = DbWrite(db, tip, TipBest)
  /\ tip' = ClearedCache(tip.count - Cardinality(tip.dirty), TipBest)
  /\ UNCHANGED <<view, kind>>

\* FlushStateToDisk otherwise: CoinsTip().Sync()
SyncTip ==
  /\ kind = "none"
  /\ TipBest # NoBlock
  /\ db' = DbWrite(db, tip, TipBest)
  /\ tip' = AfterSync(tip, TipBest)
  /\ UNCHANGED <<view, kind>>

Next ==
  \/ \E k \in {"overlay", "plain"} : OpenView(k)
  \/ \E o \in Outpoints :
       \/ ViewRead(o)
       \/ \E c \in Coins, coinbase \in BOOLEAN : ViewAddOutput(o, c, coinbase)
       \/ \E c \in Coins : ViewRestoreInput(o, c)
       \/ ViewSpend(o)
       \/ TipRead(o)
       \/ Uncache(o)
  \/ \E b \in Blocks : FlushView(b)
  \/ DropView
  \/ FlushTip
  \/ SyncTip

Spec == Init /\ [][Next]_vars

-----------------------------------------------------------------------------
(* Properties *)

\* Of the eight states a cache entry could be in only four are legal (the table
\* at CCoinsCacheEntry, asserted by SanityCheck): FRESH implies DIRTY, and a spent
\* entry is DIRTY and not FRESH.  An outpoint without an entry has no flag.
FlagsLegalIn(c) ==
  /\ c.fresh \subseteq c.dirty
  /\ c.dirty \subseteq c.have
  /\ \A o \in c.have : c.coin[o] = NoCoin => o \in c.dirty \ c.fresh
  /\ \A o \in Outpoints \ c.have : c.coin[o] = NoCoin

FlagsLegal == FlagsLegalIn(tip) /\ FlagsLegalIn(view)

\* FRESH says that the layer below has no unspent coin there, so that spending it
\* may simply erase the entry (AddCoin, BatchWrite; the "consensus failure" note at
\* CCoinsCacheEntry::FRESH).  It also makes BatchWrite's logic_error unreachable.
FreshMeansSpentBelow ==
  /\ \A o \in tip.fresh : db.coin[o] = NoCoin
  /\ \A o \in view.fresh : TipCoins[o] = NoCoin
  /\ ~FreshMisapplied(tip, view)

\* An entry that is not DIRTY shows what the layer below shows, so that leaving it
\* out of a flush, or uncaching it, loses nothing (the note at DIRTY).
CleanMeansSameBelow ==
  /\ \A o \in tip.have \ tip.dirty : tip.coin[o] = db.coin[o]
  /\ \A o \in view.have \ view.dirty : view.coin[o] = TipCoins[o]

\* m_dirty_count, kept by increments and decrements spread over five functions, is
\* the number of DIRTY entries (Flush and Sync Assume that it ends at 0).
DirtyCountExact ==
  /\ tip.count = Cardinality(tip.dirty)
  /\ view.count = Cardinality(view.dirty)

\* Whatever is cached, uncached, flushed or synced when, readers see a plain store:
\* a block's changes become visible together or never, spends and re-adds included,
\* and a flush writes exactly what was committed.
Utxo ==
  INSTANCE UtxoStore WITH
    disk <- db,
    committed <- [coin |-> TipCoins, best |-> TipBest],
    working <- [coin |-> ViewCoins, best |-> BestOf(view, TipBest)],
    open <- kind # "none"

ImplementsUtxoStore == Utxo!Spec

\* And no operation is lost: after SpendCoin the block's view shows no coin, after
\* AddCoins or ApplyTxInUndo the new one, after Flush CoinsTip shows what the view
\* showed, and after a flush to disk the database holds what CoinsTip showed,
\* whether the entry was missing, clean, FRESH or spent at each layer.
OperationsTakeEffect ==
  [][/\ \A o \in Outpoints :
          /\ ViewSpend(o) => ViewCoins' = [ViewCoins EXCEPT ![o] = NoCoin]
          /\ \A c \in Coins \ Unspendable :
               ViewRestoreInput(o, c) \/ (\E coinbase \in BOOLEAN : ViewAddOutput(o, c, coinbase))
                 => ViewCoins' = [ViewCoins EXCEPT ![o] = c]
     /\ \A b \in Blocks : FlushView(b) => TipCoins' = ViewCoins /\ TipBest' = b
     /\ FlushTip \/ SyncTip => db' = [coin |-> TipCoins, best |-> TipBest]]_vars
=============================================================================
