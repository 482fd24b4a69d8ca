-------------------------- MODULE CoinsCacheProofs --------------------------
(***************************************************************************)
(* Proofs about CoinsCache for any sets of outpoints, coins and blocks.     *)
(*                                                                          *)
(* LayerOK is what one layer guarantees about the layer below it.  Each     *)
(* operation on a cache is shown, once, to keep LayerOK and to change what  *)
(* a reader sees through the layer in exactly the intended way; both the    *)
(* invariants and the refinement follow from those lemmas.                  *)
(***************************************************************************)
EXTENDS CoinsCache, TLAPS, FiniteSetTheorems

CoinMap == [Outpoints -> MaybeCoin]

LayerOK(c, base) ==
  /\ FlagsLegalIn(c)
  /\ \A o \in c.fresh : base[o] = NoCoin
  /\ \A o \in c.have \ c.dirty : c.coin[o] = base[o]

IInv ==
  /\ TypeOK
  /\ LayerOK(tip, db.coin)
  /\ LayerOK(view, TipCoins)
  /\ kind = "none" => view = EmptyCache

-----------------------------------------------------------------------------
(* One lemma per operation on a cache *)

\* Counting entries stays within the integers.
LEMMA CardinalityInt ==
  ASSUME NEW S \in SUBSET Outpoints
  PROVE  Cardinality(S) \in Int
BY FiniteAssumption, FS_Subset, FS_CardinalityType

LEMMA PeekType ==
  ASSUME NEW c \in Cache, NEW base \in CoinMap
  PROVE  Peek(c, base) \in CoinMap
BY DEF Peek, CoinMap, Cache

LEMMA ClearedCacheOK ==
  ASSUME NEW base \in CoinMap, NEW b \in MaybeBlock, NEW n \in Int
  PROVE  /\ ClearedCache(n, b) \in Cache
         /\ LayerOK(ClearedCache(n, b), base)
         /\ Peek(ClearedCache(n, b), base) = base
<1>1. ClearedCache(n, b) \in Cache
  BY DEF ClearedCache, Cache, NoCoins, MaybeCoin
<1>2. LayerOK(ClearedCache(n, b), base)
  BY DEF ClearedCache, LayerOK, FlagsLegalIn, NoCoins
<1>3. Peek(ClearedCache(n, b), base) = base
  BY DEF ClearedCache, Peek, CoinMap
<1> QED BY <1>1, <1>2, <1>3

LEMMA WithBestOK ==
  ASSUME NEW c \in Cache, NEW base \in CoinMap, LayerOK(c, base), NEW b \in MaybeBlock
  PROVE  /\ WithBest(c, b) \in Cache
         /\ LayerOK(WithBest(c, b), base)
         /\ Peek(WithBest(c, b), base) = Peek(c, base)
         /\ WithBest(c, b).best = b
<1>1. WithBest(c, b) \in Cache
  BY DEF WithBest, Cache
<1>2. LayerOK(WithBest(c, b), base)
  BY DEF WithBest, LayerOK, FlagsLegalIn
<1>3. Peek(WithBest(c, b), base) = Peek(c, base)
  BY DEF WithBest, Peek
<1>4. WithBest(c, b).best = b
  BY DEF WithBest
<1> QED BY <1>1, <1>2, <1>3, <1>4

\* Caching what the base has changes nothing a reader sees.
LEMMA FetchCoinOK ==
  ASSUME NEW c \in Cache, NEW base \in CoinMap, LayerOK(c, base), NEW o \in Outpoints
  PROVE  /\ FetchCoin(c, o, base[o]) \in Cache
         /\ LayerOK(FetchCoin(c, o, base[o]), base)
         /\ Peek(FetchCoin(c, o, base[o]), base) = Peek(c, base)
         /\ FetchCoin(c, o, base[o]).best = c.best
         /\ o \in FetchCoin(c, o, base[o]).have \/ base[o] = NoCoin
<1> DEFINE f == FetchCoin(c, o, base[o])
<1>1. CASE o \in c.have \/ base[o] = NoCoin
  BY <1>1 DEF FetchCoin
<1>2. CASE ~(o \in c.have \/ base[o] = NoCoin)
  <2>1. f = [have |-> c.have \cup {o}, coin |-> [c.coin EXCEPT ![o] = base[o]],
             dirty |-> c.dirty, fresh |-> c.fresh, count |-> c.count, best |-> c.best]
    BY <1>2 DEF FetchCoin
  <2>2. f \in Cache
    BY <2>1 DEF Cache, CoinMap
  <2>3. LayerOK(f, base)
    BY <1>2, <2>1 DEF LayerOK, FlagsLegalIn, Cache
  <2>4. Peek(f, base) = Peek(c, base)
    BY <1>2, <2>1 DEF Peek, Cache
  <2>5. f.best = c.best /\ o \in f.have
    BY <2>1
  <2> QED BY <2>2, <2>3, <2>4, <2>5
<1> QED BY <1>1, <1>2

\* A coin is added where the caller may overwrite, or where there is none.
LEMMA AddCoinOK ==
  ASSUME NEW c \in Cache, NEW base \in CoinMap, LayerOK(c, base), NEW o \in Outpoints,
         NEW coin \in Coins \ Unspendable, NEW overwrite \in BOOLEAN,
         overwrite \/ Peek(c, base)[o] = NoCoin
  PROVE  /\ AddCoin(c, o, coin, overwrite) \in Cache
         /\ LayerOK(AddCoin(c, o, coin, overwrite), base)
         /\ Peek(AddCoin(c, o, coin, overwrite), base) = [Peek(c, base) EXCEPT ![o] = coin]
         /\ AddCoin(c, o, coin, overwrite).best = c.best
<1> DEFINE a == AddCoin(c, o, coin, overwrite)
           F == IF MayBeFresh(c, o, overwrite) THEN c.fresh \cup {o} ELSE c.fresh
           n == CountWith(c, o)
<1>1. a = [have |-> c.have \cup {o}, coin |-> [c.coin EXCEPT ![o] = coin],
           dirty |-> c.dirty \cup {o}, fresh |-> F, count |-> n, best |-> c.best]
  BY DEF AddCoin
<1>2. F \in SUBSET Outpoints /\ n \in Int
  BY DEF Cache, CountWith
<1> HIDE DEF F, n
<1>3. a \in Cache
  BY <1>1, <1>2 DEF Cache, MaybeCoin
<1>4. \A p \in F : base[p] = NoCoin
  <2> SUFFICES ASSUME MayBeFresh(c, o, overwrite) PROVE base[o] = NoCoin
    BY DEF LayerOK, F
  <2>1. o \notin c.dirty /\ Peek(c, base)[o] = NoCoin
    BY DEF MayBeFresh
  <2>2. o \notin c.have
    BY <2>1 DEF LayerOK, FlagsLegalIn, Peek
  <2> QED BY <2>1, <2>2 DEF Peek
<1>5. F \subseteq c.dirty \cup {o}
  BY DEF F, LayerOK, FlagsLegalIn
<1>6. c.fresh \subseteq F /\ F \subseteq c.fresh \cup {o}
  BY DEF F
<1>7. LayerOK(a, base)
  <2>1. FlagsLegalIn(a)
    BY <1>1, <1>5, <1>6, CoinAssumption DEF LayerOK, FlagsLegalIn, Cache
  <2>2. \A p \in a.have \ a.dirty : a.coin[p] = base[p]
    BY <1>1 DEF LayerOK, Cache
  <2> QED BY <1>1, <1>4, <2>1, <2>2 DEF LayerOK
<1>8. Peek(a, base) = [Peek(c, base) EXCEPT ![o] = coin]
  <2>1. \A q \in Outpoints : (IF q \in a.have THEN a.coin[q] ELSE base[q])
             = (IF q = o THEN coin ELSE IF q \in c.have THEN c.coin[q] ELSE base[q])
    BY <1>1 DEF Cache
  <2> HIDE DEF a
  <2> QED BY <2>1, Zenon DEF Peek
<1>9. a.best = c.best
  BY <1>1
<1> QED BY <1>3, <1>7, <1>8, <1>9

\* Without the entry the reader sees the base.
LEMMA EraseEntryOK ==
  ASSUME NEW c \in Cache, NEW base \in CoinMap, LayerOK(c, base), NEW o \in Outpoints
  PROVE  /\ EraseEntry(c, o) \in Cache
         /\ LayerOK(EraseEntry(c, o), base)
         /\ Peek(EraseEntry(c, o), base) = [Peek(c, base) EXCEPT ![o] = base[o]]
         /\ EraseEntry(c, o).best = c.best
<1> DEFINE e == EraseEntry(c, o)
           n == IF o \in c.dirty THEN c.count - 1 ELSE c.count
<1>1. e = [have |-> c.have \ {o}, coin |-> [c.coin EXCEPT ![o] = NoCoin],
           dirty |-> c.dirty \ {o}, fresh |-> c.fresh \ {o}, count |-> n, best |-> c.best]
  BY DEF EraseEntry
<1>2. n \in Int
  BY DEF Cache
<1> HIDE DEF n
<1>3. e \in Cache
  BY <1>1, <1>2 DEF Cache, MaybeCoin
<1>4. LayerOK(e, base)
  BY <1>1 DEF LayerOK, FlagsLegalIn, Cache
<1>5. Peek(e, base) = [Peek(c, base) EXCEPT ![o] = base[o]]
  <2>1. \A q \in Outpoints : (IF q \in e.have THEN e.coin[q] ELSE base[q])
             = (IF q = o THEN base[o] ELSE IF q \in c.have THEN c.coin[q] ELSE base[q])
    BY <1>1 DEF Cache
  <2> HIDE DEF e
  <2> QED BY <2>1, Zenon DEF Peek
<1>6. e.best = c.best
  BY <1>1
<1> QED BY <1>3, <1>4, <1>5, <1>6

\* Erasing a FRESH entry and marking any other spent look the same from above.
LEMMA SpendCoinOK ==
  ASSUME NEW c \in Cache, NEW base \in CoinMap, LayerOK(c, base), NEW o \in Outpoints,
         o \in c.have \/ base[o] = NoCoin
  PROVE  /\ SpendCoin(c, o) \in Cache
         /\ LayerOK(SpendCoin(c, o), base)
         /\ Peek(SpendCoin(c, o), base) = [Peek(c, base) EXCEPT ![o] = NoCoin]
         /\ SpendCoin(c, o).best = c.best
<1> DEFINE s == SpendCoin(c, o)
           n == CountWith(c, o)
<1>1. CASE o \notin c.have
  <2>1. s = c /\ base[o] = NoCoin
    BY <1>1 DEF SpendCoin
  <2>2. Peek(c, base) = [Peek(c, base) EXCEPT ![o] = NoCoin]
    BY <1>1, <2>1 DEF Peek
  <2> QED BY <2>1, <2>2
<1>2. CASE o \in c.have /\ o \in c.fresh
  <2>1. s = EraseEntry(c, o) /\ base[o] = NoCoin
    BY <1>2 DEF SpendCoin, LayerOK
  <2> QED BY <2>1, EraseEntryOK
<1>3. CASE o \in c.have /\ o \notin c.fresh
  <2>1. s = [have |-> c.have, coin |-> [c.coin EXCEPT ![o] = NoCoin],
             dirty |-> c.dirty \cup {o}, fresh |-> c.fresh, count |-> n, best |-> c.best]
    BY <1>3, Zenon DEF SpendCoin
  <2>2. n \in Int
    BY DEF Cache, CountWith
  <2> HIDE DEF n, s
  <2>3. s \in Cache
    BY <2>1, <2>2, Zenon DEF Cache, MaybeCoin
  <2>4. s.have = c.have /\ s.coin = [c.coin EXCEPT ![o] = NoCoin]
        /\ s.dirty = c.dirty \cup {o} /\ s.fresh = c.fresh /\ s.best = c.best
    BY <2>1, Zenon
  <2>5. \A q \in Outpoints : s.coin[q] = IF q = o THEN NoCoin ELSE c.coin[q]
    BY <2>4 DEF Cache
  <2>6. c.have \subseteq Outpoints
    BY DEF Cache
  <2>7. LayerOK(s, base)
    BY <1>3, <2>4, <2>5, <2>6, Zenon DEF LayerOK, FlagsLegalIn
  <2>8. Peek(s, base) = [Peek(c, base) EXCEPT ![o] = NoCoin]
    <3>1. \A q \in Outpoints : (IF q \in s.have THEN s.coin[q] ELSE base[q])
               = (IF q = o THEN NoCoin ELSE IF q \in c.have THEN c.coin[q] ELSE base[q])
      BY <1>3, <2>4, <2>5, Zenon
    <3> QED BY <3>1, Zenon DEF Peek
  <2> QED BY <2>3, <2>4, <2>7, <2>8 DEF s
<1> QED BY <1>1, <1>2, <1>3

\* A flush into the cache below shows there what was seen through both layers.
LEMMA BatchWriteOK ==
  ASSUME NEW p \in Cache, NEW c \in Cache, NEW base \in CoinMap, NEW b \in MaybeBlock,
         LayerOK(p, base), LayerOK(c, Peek(p, base))
  PROVE  /\ BatchWrite(p, c, b) \in Cache
         /\ LayerOK(BatchWrite(p, c, b), base)
         /\ Peek(BatchWrite(p, c, b), base) = Peek(c, Peek(p, base))
         /\ BatchWrite(p, c, b).best = b
<1> DEFINE w == BatchWrite(p, c, b)
           gone == Dropped(p, c)
           F == FreshAfterWrite(p, c) \ gone
           m == [o \in Outpoints |-> IF o \in c.dirty THEN c.coin[o] ELSE p.coin[o]]
           n == p.count + Cardinality(c.dirty \ (p.dirty \cup gone))
                        - Cardinality(gone \cap p.dirty)
<1>1. w = [have |-> (p.have \cup c.dirty) \ gone, coin |-> m,
           dirty |-> (p.dirty \cup c.dirty) \ gone, fresh |-> F, count |-> n, best |-> b]
  BY Zenon DEF BatchWrite
<1>2. n \in Int
  <2>1. c.dirty \ (p.dirty \cup gone) \in SUBSET Outpoints /\ gone \cap p.dirty \in SUBSET Outpoints
    BY DEF Cache
  <2> QED BY <2>1, CardinalityInt, SMTT(30) DEF Cache
<1>3. F \in SUBSET Outpoints /\ m \in [Outpoints -> MaybeCoin]
  BY DEF Cache, FreshAfterWrite
<1>4. \A o \in gone : o \in c.dirty /\ c.coin[o] = NoCoin /\ base[o] = NoCoin
  BY Zenon DEF Dropped, LayerOK, Peek, Cache
<1>5. \A o \in Outpoints : c.coin[o] = NoCoin /\ o \in c.dirty /\ o \in F => FALSE
  BY Zenon DEF Dropped, FreshAfterWrite, LayerOK, FlagsLegalIn, Peek, Cache
<1>6. \A o \in F : base[o] = NoCoin
  BY Zenon DEF FreshAfterWrite, LayerOK, Peek, Cache
<1>7. F \subseteq (p.dirty \cup c.dirty) \ gone
  BY Zenon DEF FreshAfterWrite, LayerOK, FlagsLegalIn
<1>8. \A o \in p.have \ c.dirty : p.coin[o] = NoCoin => o \in p.dirty /\ o \notin F
  BY Zenon DEF FreshAfterWrite, LayerOK, FlagsLegalIn
<1> HIDE DEF gone, F, n, w
<1>9. w \in Cache
  <2>1. (p.have \cup c.dirty) \ gone \in SUBSET Outpoints
        /\ (p.dirty \cup c.dirty) \ gone \in SUBSET Outpoints
    BY DEF Cache
  <2> HIDE DEF m
  <2> QED BY <1>1, <1>2, <1>3, <2>1, Zenon DEF Cache
<1>10. /\ w.have = (p.have \cup c.dirty) \ gone
       /\ w.dirty = (p.dirty \cup c.dirty) \ gone
       /\ w.fresh = F /\ w.best = b /\ w.coin = m
  <2> HIDE DEF m
  <2> QED BY <1>1, Zenon
<1>11. \A o \in Outpoints : w.coin[o] = IF o \in c.dirty THEN c.coin[o] ELSE p.coin[o]
  BY <1>10, Zenon
<1>12. p.have \subseteq Outpoints /\ c.dirty \subseteq Outpoints /\ c.dirty \subseteq c.have
  BY Zenon DEF Cache, LayerOK, FlagsLegalIn
<1> HIDE DEF m
<1>13. LayerOK(w, base)
  <2>1. \A o \in w.have : w.coin[o] = NoCoin => o \in w.dirty \ w.fresh
    BY <1>5, <1>8, <1>10, <1>11, <1>12, Zenon
  <2>2. \A o \in Outpoints \ w.have : w.coin[o] = NoCoin
    <3>1. \A o \in Outpoints \ p.have : p.coin[o] = NoCoin
      BY Zenon DEF LayerOK, FlagsLegalIn
    <3> QED BY <1>4, <1>10, <1>11, <3>1, Zenon
  <2>3. w.dirty \subseteq w.have /\ w.fresh \subseteq w.dirty
    <3>1. p.dirty \subseteq p.have
      BY Zenon DEF LayerOK, FlagsLegalIn
    <3> QED BY <1>7, <1>10, <3>1, Zenon
  <2>4. \A o \in w.have \ w.dirty : w.coin[o] = base[o]
    <3>1. \A o \in p.have \ p.dirty : p.coin[o] = base[o]
      BY DEF LayerOK
    <3> QED BY <1>10, <1>11, <1>12, <3>1, Zenon
  <2>5. \A o \in w.fresh : base[o] = NoCoin
    BY <1>6, <1>10
  <2> QED BY <2>1, <2>2, <2>3, <2>4, <2>5, Zenon DEF LayerOK, FlagsLegalIn
<1>14. Peek(w, base) = Peek(c, Peek(p, base))
  <2>1. ASSUME NEW o \in Outpoints
        PROVE  (IF o \in w.have THEN w.coin[o] ELSE base[o])
                 = (IF o \in c.have THEN c.coin[o] ELSE IF o \in p.have THEN p.coin[o] ELSE base[o])
    <3>1. CASE o \in c.dirty
      BY <1>4, <1>10, <1>11, <1>12, <3>1, Zenon
    <3>2. CASE o \notin c.dirty
      <4>1. o \in c.have => c.coin[o] = (IF o \in p.have THEN p.coin[o] ELSE base[o])
        BY <3>2, Zenon DEF LayerOK, Peek
      <4>2. o \in w.have <=> o \in p.have
        BY <1>4, <1>10, <3>2
      <4> QED BY <1>11, <3>2, <4>1, <4>2, Zenon
    <3> QED BY <3>1, <3>2, Zenon
  <2> QED BY <2>1, Zenon DEF Peek
<1> QED BY <1>9, <1>10, <1>13, <1>14, Zenon DEF w

\* The database ends up with what was seen through the cache.
LEMMA DbWriteOK ==
  ASSUME NEW d \in Store, NEW c \in Cache, LayerOK(c, d.coin), NEW b \in MaybeBlock
  PROVE  /\ DbWrite(d, c, b) = [coin |-> Peek(c, d.coin), best |-> b]
         /\ DbWrite(d, c, b) \in Store
<1>1. \A o \in Outpoints : (IF o \in c.dirty THEN c.coin[o] ELSE d.coin[o])
                              = (IF o \in c.have THEN c.coin[o] ELSE d.coin[o])
  BY DEF LayerOK, FlagsLegalIn
<1>2. DbWrite(d, c, b) = [coin |-> Peek(c, d.coin), best |-> b]
  BY <1>1, Zenon DEF DbWrite, Peek
<1>3. Peek(c, d.coin) \in CoinMap
  BY PeekType DEF Store, CoinMap
<1>4. [coin |-> Peek(c, d.coin), best |-> b] \in Store
  BY <1>3 DEF Store, CoinMap
<1> QED BY <1>2, <1>4, Zenon

\* After Sync the cache, over the database just written, still shows the same.
LEMMA AfterSyncOK ==
  ASSUME NEW c \in Cache, NEW base \in CoinMap, LayerOK(c, base), NEW b \in MaybeBlock
  PROVE  /\ AfterSync(c, b) \in Cache
         /\ LayerOK(AfterSync(c, b), Peek(c, base))
         /\ Peek(AfterSync(c, b), Peek(c, base)) = Peek(c, base)
<1> DEFINE s == AfterSync(c, b)
<1>1. c.count - Cardinality(c.dirty) \in Int
  BY CardinalityInt DEF Cache
<1>2. s \in Cache
  BY <1>1, Zenon DEF AfterSync, Cache
<1>3. LayerOK(s, Peek(c, base))
  BY Zenon DEF AfterSync, LayerOK, FlagsLegalIn, Peek, Cache
<1>4. Peek(s, Peek(c, base)) = Peek(c, base)
  BY Zenon DEF AfterSync, Peek, Cache
<1> QED BY <1>2, <1>3, <1>4

-----------------------------------------------------------------------------
(* One lemma per action: the invariant, and what readers see afterwards *)

ViewBest == BestOf(view, TipBest)

\* Nothing that a reader of either layer can see has changed.
SameSeen ==
  /\ TipCoins' = TipCoins /\ TipBest' = TipBest
  /\ ViewCoins' = ViewCoins /\ ViewBest' = ViewBest

LEMMA MapTypes ==
  ASSUME IInv
  PROVE  /\ db.coin \in CoinMap /\ TipCoins \in CoinMap /\ ViewCoins \in CoinMap
         /\ TipBest \in MaybeBlock
<1>1. db.coin \in CoinMap
  BY DEF IInv, TypeOK, Store, CoinMap
<1>2. TipCoins \in CoinMap
  BY <1>1, PeekType DEF IInv, TypeOK, TipCoins
<1>3. ViewCoins \in CoinMap
  BY <1>2, PeekType DEF IInv, TypeOK, ViewCoins
<1>4. TipBest \in MaybeBlock
  BY DEF IInv, TypeOK, Store, Cache, TipBest, BestOf
<1> QED BY <1>1, <1>2, <1>3, <1>4

LEMMA EmptyOver ==
  ASSUME NEW base \in CoinMap
  PROVE  /\ EmptyCache \in Cache
         /\ LayerOK(EmptyCache, base)
         /\ Peek(EmptyCache, base) = base
         /\ EmptyCache.best = NoBlock
<1>1. EmptyCache = ClearedCache(0, NoBlock) /\ NoBlock \in MaybeBlock /\ 0 \in Int
  BY DEF EmptyCache, MaybeBlock
<1>2. EmptyCache.best = NoBlock
  BY Zenon DEF EmptyCache, ClearedCache
<1> HIDE DEF EmptyCache
<1> QED BY <1>1, <1>2, ClearedCacheOK

\* What GetCoin of the view does to CoinsTip is invisible.
LEMMA TipFetchedOK ==
  ASSUME IInv, NEW o \in Outpoints
  PROVE  /\ TipFetched(o) \in Cache
         /\ LayerOK(TipFetched(o), db.coin)
         /\ Peek(TipFetched(o), db.coin) = TipCoins
         /\ TipFetched(o).best = tip.best
BY FetchCoinOK, MapTypes, Zenon DEF IInv, TypeOK, TipFetched, TipCoins

LEMMA ViewFetchedOK ==
  ASSUME IInv, NEW o \in Outpoints
  PROVE  /\ ViewFetched(o) \in Cache
         /\ LayerOK(ViewFetched(o), TipCoins)
         /\ Peek(ViewFetched(o), TipCoins) = ViewCoins
         /\ ViewFetched(o).best = view.best
         /\ o \in ViewFetched(o).have \/ TipCoins[o] = NoCoin
BY FetchCoinOK, MapTypes, Zenon DEF IInv, TypeOK, ViewFetched, ViewCoins

\* An operation on the view of a block in progress touches CoinsTip invisibly.
LEMMA ViewStep ==
  ASSUME IInv, kind # "none", kind' = kind, db' = db,
         tip' \in Cache, LayerOK(tip', db.coin), Peek(tip', db.coin) = TipCoins,
         tip'.best = tip.best,
         view' \in Cache, LayerOK(view', TipCoins), view'.best = view.best
  PROVE  IInv' /\ TipCoins' = TipCoins /\ TipBest' = TipBest /\ ViewBest' = ViewBest
         /\ ViewCoins' = Peek(view', TipCoins)
<1>1. TipCoins' = TipCoins
  BY DEF TipCoins
<1>2. TipBest' = TipBest
  BY DEF TipBest, BestOf
<1>3. ViewBest' = ViewBest
  BY <1>2 DEF ViewBest, BestOf
<1>4. ViewCoins' = Peek(view', TipCoins)
  BY <1>1 DEF ViewCoins
<1>5. IInv'
  BY <1>1 DEF IInv, TypeOK
<1> QED BY <1>1, <1>2, <1>3, <1>4, <1>5

\* Between blocks the empty view follows CoinsTip.
LEMMA TipStep ==
  ASSUME IInv, kind = "none", kind' = kind, view' = view,
         db' \in Store, tip' \in Cache, LayerOK(tip', db'.coin),
         Peek(tip', db'.coin) = TipCoins, BestOf(tip', db'.best) = TipBest
  PROVE  IInv' /\ SameSeen
<1>1. TipCoins' = TipCoins /\ TipBest' = TipBest
  BY Zenon DEF TipCoins, TipBest
<1>2. ViewCoins' = ViewCoins /\ ViewBest' = ViewBest
  BY <1>1 DEF ViewCoins, ViewBest
<1>3. IInv'
  BY <1>1 DEF IInv, TypeOK
<1> QED BY <1>1, <1>2, <1>3 DEF SameSeen

LEMMA OpenViewStep ==
  ASSUME IInv, NEW k \in {"overlay", "plain"}, OpenView(k)
  PROVE  IInv' /\ SameSeen
<1>1. view = EmptyCache /\ db' = db /\ tip' = WithBest(tip, TipBest)
      /\ view' = ClearedCache(0, TipBest) /\ kind' = k
  BY DEF OpenView, IInv
<1>2. tip' \in Cache /\ LayerOK(tip', db.coin) /\ Peek(tip', db.coin) = TipCoins
      /\ tip'.best = TipBest
  BY <1>1, WithBestOK, MapTypes, Zenon DEF IInv, TypeOK, TipCoins
<1>3. view' \in Cache /\ LayerOK(view', TipCoins) /\ Peek(view', TipCoins) = TipCoins
  BY <1>1, ClearedCacheOK, MapTypes
<1>4. TipCoins' = TipCoins
  BY <1>1, <1>2 DEF TipCoins
<1>5. TipBest' = TipBest
  BY <1>1, <1>2, Zenon DEF TipBest, BestOf
<1>6. ViewCoins' = ViewCoins
  BY <1>1, <1>3, <1>4, EmptyOver, MapTypes DEF ViewCoins
<1>7. ViewBest' = ViewBest
  <2>1. view'.best = TipBest /\ view.best = NoBlock
    BY <1>1, EmptyOver, MapTypes, Zenon DEF ClearedCache
  <2> QED BY <2>1, <1>5 DEF ViewBest, BestOf
<1>8. IInv'
  BY <1>1, <1>2, <1>3, <1>4, Zenon DEF IInv, TypeOK
<1> QED BY <1>4, <1>5, <1>6, <1>7, <1>8 DEF SameSeen

LEMMA ViewReadStep ==
  ASSUME IInv, NEW o \in Outpoints, ViewRead(o)
  PROVE  IInv' /\ SameSeen
<1>1. kind # "none" /\ kind' = kind /\ db' = db
      /\ tip' = TipFetched(o) /\ view' = ViewFetched(o)
  BY DEF ViewRead
<1> QED BY <1>1, TipFetchedOK, ViewFetchedOK, ViewStep, Zenon DEF SameSeen

\* A coin appears for the readers of the view only.
ViewPuts(o, c) ==
  /\ TipCoins' = TipCoins /\ TipBest' = TipBest /\ ViewBest' = ViewBest
  /\ ViewCoins' = [ViewCoins EXCEPT ![o] = c]

LEMMA ViewAddOutputStep ==
  ASSUME IInv, NEW o \in Outpoints, NEW c \in Coins, NEW coinbase \in BOOLEAN,
         ViewAddOutput(o, c, coinbase)
  PROVE  IInv' /\ (IF c \in Unspendable THEN SameSeen ELSE ViewPuts(o, c))
<1>1. kind # "none" /\ kind' = kind /\ db' = db /\ tip' = tip
      /\ view' = AddCoin(view, o, c, coinbase) /\ (coinbase \/ ViewCoins[o] = NoCoin)
  BY DEF ViewAddOutput
<1>2. tip \in Cache /\ LayerOK(tip, db.coin) /\ Peek(tip, db.coin) = TipCoins
      /\ view \in Cache /\ LayerOK(view, TipCoins) /\ Peek(view, TipCoins) = ViewCoins
  BY DEF IInv, TypeOK, TipCoins, ViewCoins
<1>3. CASE c \in Unspendable
  <2>1. view' = view
    BY <1>1, <1>3, Zenon DEF AddCoin
  <2> QED BY <1>1, <1>2, <1>3, <2>1, ViewStep, Zenon DEF SameSeen
<1>4. CASE c \notin Unspendable
  <2>1. view' \in Cache /\ LayerOK(view', TipCoins) /\ view'.best = view.best
        /\ Peek(view', TipCoins) = [ViewCoins EXCEPT ![o] = c]
    <3>1. TipCoins \in CoinMap /\ c \in Coins \ Unspendable
          /\ (coinbase \/ Peek(view, TipCoins)[o] = NoCoin)
      BY <1>1, <1>2, <1>4, MapTypes
    <3> QED BY <1>1, <1>2, <3>1, AddCoinOK, SMTT(30)
  <2> QED BY <1>1, <1>2, <1>4, <2>1, ViewStep, Zenon DEF ViewPuts
<1> QED BY <1>3, <1>4

LEMMA ViewRestoreInputStep ==
  ASSUME IInv, NEW o \in Outpoints, NEW c \in Coins, ViewRestoreInput(o, c)
  PROVE  IInv' /\ ViewPuts(o, c)
<1> DEFINE over == ViewCoins[o] # NoCoin
<1>1. kind # "none" /\ kind' = kind /\ db' = db /\ tip' = TipFetched(o)
      /\ view' = AddCoin(ViewFetched(o), o, c, over) /\ c \in Coins \ Unspendable
  BY DEF ViewRestoreInput
<1>2. over \in BOOLEAN /\ (over \/ Peek(ViewFetched(o), TipCoins)[o] = NoCoin)
  BY ViewFetchedOK, Zenon
<1> HIDE DEF over
<1>3. view' \in Cache /\ LayerOK(view', TipCoins) /\ view'.best = view.best
      /\ Peek(view', TipCoins) = [ViewCoins EXCEPT ![o] = c]
  <2> DEFINE f == ViewFetched(o)
  <2>1. f \in Cache /\ LayerOK(f, TipCoins) /\ Peek(f, TipCoins) = ViewCoins
        /\ f.best = view.best /\ TipCoins \in CoinMap
    BY ViewFetchedOK, MapTypes, Zenon
  <2> HIDE DEF f
  <2>2. AddCoin(f, o, c, over) \in Cache /\ LayerOK(AddCoin(f, o, c, over), TipCoins)
        /\ Peek(AddCoin(f, o, c, over), TipCoins) = [Peek(f, TipCoins) EXCEPT ![o] = c]
        /\ AddCoin(f, o, c, over).best = f.best
    BY <1>1, <1>2, <2>1, AddCoinOK, SMTT(30) DEF f
  <2> QED BY <1>1, <2>1, <2>2, Zenon DEF f
<1> QED BY <1>1, <1>3, TipFetchedOK, ViewStep, Zenon DEF ViewPuts

LEMMA ViewSpendStep ==
  ASSUME IInv, NEW o \in Outpoints, ViewSpend(o)
  PROVE  IInv' /\ ViewPuts(o, NoCoin)
<1>1. kind # "none" /\ kind' = kind /\ db' = db /\ tip' = TipFetched(o)
      /\ view' = SpendCoin(ViewFetched(o), o)
  BY DEF ViewSpend
<1>2. view' \in Cache /\ LayerOK(view', TipCoins) /\ view'.best = view.best
      /\ Peek(view', TipCoins) = [ViewCoins EXCEPT ![o] = NoCoin]
  BY <1>1, ViewFetchedOK, SpendCoinOK, MapTypes, SMTT(30)
<1> QED BY <1>1, <1>2, TipFetchedOK, ViewStep, Zenon DEF ViewPuts

LEMMA FlushViewStep ==
  ASSUME IInv, NEW b \in Blocks, FlushView(b)
  PROVE  IInv' /\ TipCoins' = ViewCoins /\ ViewCoins' = ViewCoins
         /\ TipBest' = b /\ ViewBest' = b
<1>1. db' = db /\ tip' = BatchWrite(tip, view, b) /\ view' = EmptyCache /\ kind' = "none"
  BY DEF FlushView
<1>2. tip' \in Cache /\ LayerOK(tip', db.coin) /\ Peek(tip', db.coin) = ViewCoins
      /\ tip'.best = b
  <2>1. tip \in Cache /\ view \in Cache /\ db.coin \in CoinMap /\ b \in MaybeBlock
        /\ LayerOK(tip, db.coin) /\ LayerOK(view, Peek(tip, db.coin))
    BY MapTypes, Zenon DEF IInv, TypeOK, TipCoins, MaybeBlock
  <2>2. ViewCoins = Peek(view, Peek(tip, db.coin))
    BY DEF ViewCoins, TipCoins
  <2> QED BY <1>1, <2>1, <2>2, BatchWriteOK, SMTT(30)
<1>3. TipCoins' = ViewCoins
  BY <1>1, <1>2 DEF TipCoins
<1>4. TipBest' = b
  BY <1>1, <1>2, BlockAssumption DEF TipBest, BestOf
<1>5. LayerOK(view', ViewCoins) /\ view' \in Cache /\ Peek(view', ViewCoins) = ViewCoins
      /\ view'.best = NoBlock
  BY <1>1, EmptyOver, MapTypes
<1>6. ViewCoins' = ViewCoins
  BY <1>3, <1>5 DEF ViewCoins
<1>7. ViewBest' = b
  BY <1>4, <1>5 DEF ViewBest, BestOf
<1>8. IInv'
  BY <1>1, <1>2, <1>3, <1>5, Zenon DEF IInv, TypeOK
<1> QED BY <1>3, <1>4, <1>6, <1>7, <1>8

LEMMA DropViewStep ==
  ASSUME IInv, DropView
  PROVE  IInv' /\ TipCoins' = TipCoins /\ ViewCoins' = TipCoins
         /\ TipBest' = TipBest /\ ViewBest' = TipBest
<1>1. db' = db /\ tip' = tip /\ view' = EmptyCache /\ kind' = "none"
  BY DEF DropView
<1>2. TipCoins' = TipCoins /\ TipBest' = TipBest
  BY <1>1 DEF TipCoins, TipBest
<1>3. LayerOK(view', TipCoins) /\ view' \in Cache /\ Peek(view', TipCoins) = TipCoins
      /\ view'.best = NoBlock
  BY <1>1, EmptyOver, MapTypes
<1>4. ViewCoins' = TipCoins
  BY <1>2, <1>3 DEF ViewCoins
<1>5. ViewBest' = TipBest
  BY <1>2, <1>3 DEF ViewBest, BestOf
<1>6. IInv'
  BY <1>1, <1>2, <1>3, Zenon DEF IInv, TypeOK
<1> QED BY <1>2, <1>4, <1>5, <1>6

LEMMA TipReadStep ==
  ASSUME IInv, NEW o \in Outpoints, TipRead(o)
  PROVE  IInv' /\ SameSeen
<1>1. kind = "none" /\ kind' = kind /\ view' = view /\ db' = db
      /\ tip' = FetchCoin(tip, o, db.coin[o])
  BY DEF TipRead
<1>2. tip' \in Cache /\ LayerOK(tip', db.coin) /\ Peek(tip', db.coin) = TipCoins
      /\ tip'.best = tip.best
  BY <1>1, FetchCoinOK, MapTypes, Zenon DEF IInv, TypeOK, TipCoins
<1>3. BestOf(tip', db'.best) = TipBest /\ db' \in Store
  BY <1>1, <1>2, Zenon DEF TipBest, BestOf, IInv, TypeOK
<1> QED BY <1>1, <1>2, <1>3, TipStep, Zenon

\* Only a clean entry is uncached, and the database shows the same coin.
LEMMA UncacheStep ==
  ASSUME IInv, NEW o \in Outpoints, Uncache(o)
  PROVE  IInv' /\ SameSeen
<1>1. kind = "none" /\ kind' = kind /\ view' = view /\ db' = db
      /\ tip' = EraseEntry(tip, o) /\ o \in tip.have \ tip.dirty
  BY DEF Uncache
<1>2. tip' \in Cache /\ LayerOK(tip', db.coin) /\ tip'.best = tip.best
      /\ Peek(tip', db.coin) = [TipCoins EXCEPT ![o] = db.coin[o]]
  <2>1. tip \in Cache /\ db.coin \in CoinMap /\ LayerOK(tip, db.coin)
        /\ TipCoins = Peek(tip, db.coin)
    BY MapTypes, Zenon DEF IInv, TypeOK, TipCoins
  <2> QED BY <1>1, <2>1, EraseEntryOK, SMTT(30)
<1>3. TipCoins[o] = db.coin[o]
  BY <1>1, Zenon DEF IInv, LayerOK, TipCoins, Peek
<1>4. [TipCoins EXCEPT ![o] = db.coin[o]] = TipCoins
  BY <1>3, MapTypes DEF CoinMap
<1>5. BestOf(tip', db'.best) = TipBest /\ db' \in Store
  BY <1>1, <1>2, Zenon DEF TipBest, BestOf, IInv, TypeOK
<1> QED BY <1>1, <1>2, <1>4, <1>5, TipStep, Zenon

\* The database gets what the readers of CoinsTip see, who notice nothing.
Persisted == db' = [coin |-> TipCoins, best |-> TipBest] /\ TipBest # NoBlock

LEMMA FlushTipStep ==
  ASSUME IInv, FlushTip
  PROVE  IInv' /\ SameSeen /\ Persisted
<1> DEFINE n == tip.count - Cardinality(tip.dirty)
<1>1. kind = "none" /\ kind' = kind /\ view' = view /\ TipBest # NoBlock
      /\ db' = DbWrite(db, tip, TipBest) /\ tip' = ClearedCache(n, TipBest)
  BY DEF FlushTip
<1>2. n \in Int
  BY CardinalityInt DEF IInv, TypeOK, Cache
<1> HIDE DEF n
<1>3. db' = [coin |-> TipCoins, best |-> TipBest] /\ db' \in Store
  BY <1>1, DbWriteOK, MapTypes, Zenon DEF IInv, TypeOK, TipCoins
<1>4. tip' \in Cache /\ LayerOK(tip', TipCoins) /\ Peek(tip', TipCoins) = TipCoins
  BY <1>1, <1>2, ClearedCacheOK, MapTypes, Zenon
<1>5. BestOf(tip', db'.best) = TipBest
  BY <1>1, <1>3, Zenon DEF BestOf, ClearedCache
<1>6. db'.coin = TipCoins
  BY <1>3
<1> QED BY <1>1, <1>3, <1>4, <1>5, <1>6, TipStep, Zenon DEF Persisted

LEMMA SyncTipStep ==
  ASSUME IInv, SyncTip
  PROVE  IInv' /\ SameSeen /\ Persisted
<1>1. kind = "none" /\ kind' = kind /\ view' = view /\ TipBest # NoBlock
      /\ db' = DbWrite(db, tip, TipBest) /\ tip' = AfterSync(tip, TipBest)
  BY DEF SyncTip
<1>2. db' = [coin |-> TipCoins, best |-> TipBest] /\ db' \in Store
  BY <1>1, DbWriteOK, MapTypes, Zenon DEF IInv, TypeOK, TipCoins
<1>3. tip' \in Cache /\ LayerOK(tip', TipCoins) /\ Peek(tip', TipCoins) = TipCoins
  BY <1>1, AfterSyncOK, MapTypes, Zenon DEF IInv, TypeOK, TipCoins
<1>4. BestOf(tip', db'.best) = TipBest
  BY <1>1, <1>2, Zenon DEF BestOf, AfterSync
<1>5. db'.coin = TipCoins
  BY <1>2
<1> QED BY <1>1, <1>2, <1>3, <1>4, <1>5, TipStep, Zenon DEF Persisted

-----------------------------------------------------------------------------
(* The theorems *)

LEMMA InitOK == Init => IInv
<1> SUFFICES ASSUME Init PROVE IInv
  OBVIOUS
<1>1. NoCoins \in CoinMap
  BY DEF NoCoins, CoinMap, MaybeCoin
<1>2. db \in Store /\ db.coin = NoCoins
  BY <1>1 DEF Init, Store, CoinMap, MaybeBlock
<1>3. tip = EmptyCache /\ view = EmptyCache /\ kind = "none"
  BY DEF Init
<1>4. TipCoins = NoCoins
  BY <1>1, <1>2, <1>3, EmptyOver DEF TipCoins
<1> QED BY <1>1, <1>2, <1>3, <1>4, EmptyOver DEF IInv, TypeOK

\* A step seen from above: nothing, or one operation of the store.
SeenStep ==
  \/ kind' = kind /\ db' = db /\ SameSeen
  \/ kind = "none" /\ kind' # "none" /\ db' = db /\ SameSeen
  \/ kind = "none" /\ kind' = "none" /\ Persisted /\ SameSeen
  \/ /\ kind # "none" /\ kind' = kind /\ db' = db
     /\ \E o \in Outpoints, c \in MaybeCoin : ViewPuts(o, c)
  \/ /\ kind # "none" /\ kind' = "none" /\ db' = db
     /\ \E b \in Blocks : TipCoins' = ViewCoins /\ ViewCoins' = ViewCoins
                          /\ TipBest' = b /\ ViewBest' = b
  \/ /\ kind # "none" /\ kind' = "none" /\ db' = db
     /\ TipCoins' = TipCoins /\ ViewCoins' = TipCoins
     /\ TipBest' = TipBest /\ ViewBest' = TipBest

\* Every action keeps the invariant and is a step of the store.
LEMMA NextOK ==
  ASSUME IInv, [Next]_vars
  PROVE  IInv' /\ SeenStep
<1>1. ASSUME NEW k \in {"overlay", "plain"}, OpenView(k) PROVE IInv' /\ SeenStep
  <2>1. kind = "none" /\ kind' # "none" /\ db' = db
    BY <1>1 DEF OpenView
  <2> QED BY <1>1, <2>1, OpenViewStep DEF SeenStep
<1>2. ASSUME NEW o \in Outpoints, ViewRead(o) PROVE IInv' /\ SeenStep
  <2>1. kind' = kind /\ db' = db
    BY <1>2 DEF ViewRead
  <2> QED BY <1>2, <2>1, ViewReadStep DEF SeenStep
<1>3. ASSUME NEW o \in Outpoints, NEW c \in Coins, NEW coinbase \in BOOLEAN,
             ViewAddOutput(o, c, coinbase)
      PROVE  IInv' /\ SeenStep
  <2>1. kind # "none" /\ kind' = kind /\ db' = db
    BY <1>3 DEF ViewAddOutput
  <2> QED BY <1>3, <2>1, ViewAddOutputStep, Zenon DEF SeenStep, MaybeCoin
<1>4. ASSUME NEW o \in Outpoints, NEW c \in Coins, ViewRestoreInput(o, c)
      PROVE  IInv' /\ SeenStep
  <2>1. kind # "none" /\ kind' = kind /\ db' = db
    BY <1>4 DEF ViewRestoreInput
  <2> QED BY <1>4, <2>1, ViewRestoreInputStep, Zenon DEF SeenStep, MaybeCoin
<1>5. ASSUME NEW o \in Outpoints, ViewSpend(o) PROVE IInv' /\ SeenStep
  <2>1. kind # "none" /\ kind' = kind /\ db' = db
    BY <1>5 DEF ViewSpend
  <2> QED BY <1>5, <2>1, ViewSpendStep, Zenon DEF SeenStep, MaybeCoin
<1>6. ASSUME NEW o \in Outpoints, TipRead(o) PROVE IInv' /\ SeenStep
  <2>1. kind' = kind /\ db' = db
    BY <1>6 DEF TipRead
  <2> QED BY <1>6, <2>1, TipReadStep DEF SeenStep
<1>7. ASSUME NEW o \in Outpoints, Uncache(o) PROVE IInv' /\ SeenStep
  <2>1. kind' = kind /\ db' = db
    BY <1>7 DEF Uncache
  <2> QED BY <1>7, <2>1, UncacheStep DEF SeenStep
<1>8. ASSUME NEW b \in Blocks, FlushView(b) PROVE IInv' /\ SeenStep
  <2>1. kind # "none" /\ kind' = "none" /\ db' = db
    BY <1>8 DEF FlushView
  <2> QED BY <1>8, <2>1, FlushViewStep, Zenon DEF SeenStep
<1>9. CASE DropView
  <2>1. kind # "none" /\ kind' = "none" /\ db' = db
    BY <1>9 DEF DropView
  <2> QED BY <1>9, <2>1, DropViewStep DEF SeenStep
<1>10. CASE FlushTip
  <2>1. kind = "none" /\ kind' = kind
    BY <1>10 DEF FlushTip
  <2> QED BY <1>10, <2>1, FlushTipStep DEF SeenStep
<1>11. CASE SyncTip
  <2>1. kind = "none" /\ kind' = kind
    BY <1>11 DEF SyncTip
  <2> QED BY <1>11, <2>1, SyncTipStep DEF SeenStep
<1>12. CASE UNCHANGED vars
  <2>1. TipCoins' = TipCoins /\ TipBest' = TipBest
    BY <1>12 DEF vars, TipCoins, TipBest
  <2>2. ViewCoins' = ViewCoins /\ ViewBest' = ViewBest
    BY <1>12, <2>1 DEF vars, ViewCoins, ViewBest
  <2>3. IInv'
    BY <1>12, <2>1 DEF vars, IInv, TypeOK
  <2> QED BY <1>12, <2>1, <2>2, <2>3, Zenon DEF vars, SeenStep, SameSeen
<1> QED
  BY <1>1, <1>2, <1>3, <1>4, <1>5, <1>6, <1>7, <1>8, <1>9, <1>10, <1>11, <1>12, Zenon DEF Next

LEMMA Inductive == Spec => []IInv
<1>1. IInv /\ [Next]_vars => IInv'
  BY NextOK
<1> QED BY InitOK, <1>1, PTL DEF Spec

\* The values of the variables: every fetch, spend, flush and sync of coins.cpp
\* leaves well-formed layers behind.
THEOREM TypeCorrect == Spec => []TypeOK
<1>1. IInv => TypeOK
  BY DEF IInv
<1> QED BY Inductive, <1>1, PTL

\* Every entry of every layer is in one of the four states that SanityCheck allows.
THEOREM FlagsAlwaysLegal == Spec => []FlagsLegal
<1>1. IInv => FlagsLegal
  BY DEF IInv, LayerOK, FlagsLegal
<1> QED BY Inductive, <1>1, PTL

\* FRESH never lies about the layer below, so erasing a spent FRESH entry never
\* brings an older coin back, and BatchWrite never throws.
THEOREM FreshNeverLies == Spec => []FreshMeansSpentBelow
<1>1. IInv => FreshMeansSpentBelow
  <2> SUFFICES ASSUME IInv PROVE FreshMeansSpentBelow
    OBVIOUS
  <2>1. \A o \in tip.fresh : db.coin[o] = NoCoin
    BY DEF IInv, LayerOK
  <2>2. \A o \in view.fresh : TipCoins[o] = NoCoin
    BY DEF IInv, LayerOK
  <2>3. ~FreshMisapplied(tip, view)
    BY <2>2, Zenon DEF FreshMisapplied, TipCoins, Peek, IInv, TypeOK, Cache
  <2> QED BY <2>1, <2>2, <2>3 DEF FreshMeansSpentBelow
<1> QED BY Inductive, <1>1, PTL

\* An entry that a flush would skip shows what the layer below shows.
THEOREM CleanNeverStale == Spec => []CleanMeansSameBelow
<1>1. IInv => CleanMeansSameBelow
  BY DEF IInv, LayerOK, CleanMeansSameBelow
<1> QED BY Inductive, <1>1, PTL

\* Every operation has, for its readers, exactly the effect its name promises.
THEOREM EveryOperationTakesEffect == Spec => OperationsTakeEffect
<1> DEFINE A ==
      /\ \A o \in Outpoints :
          /\ ViewSpend(o) => ViewCoins' = [ViewCoins EXCEPT ![o] = NoCoin]
          /\ \A c \in Coins \ Unspendable :
               ViewRestoreInput(o, c) \/ (\E coinbase \in BOOLEAN : ViewAddOutput(o, c, coinbase))
                 => ViewCoins' = [ViewCoins EXCEPT ![o] = c]
      /\ \A b \in Blocks : FlushView(b) => TipCoins' = ViewCoins /\ TipBest' = b
      /\ FlushTip \/ SyncTip => db' = [coin |-> TipCoins, best |-> TipBest]
<1>1. IInv => A
  <2> SUFFICES ASSUME IInv PROVE A
    BY Zenon
  <2>1. \A o \in Outpoints : ViewSpend(o) => ViewCoins' = [ViewCoins EXCEPT ![o] = NoCoin]
    BY ViewSpendStep DEF ViewPuts
  <2>2. ASSUME NEW o \in Outpoints, NEW c \in Coins \ Unspendable, ViewRestoreInput(o, c)
        PROVE  ViewCoins' = [ViewCoins EXCEPT ![o] = c]
    BY <2>2, ViewRestoreInputStep DEF ViewPuts
  <2>3. ASSUME NEW o \in Outpoints, NEW c \in Coins \ Unspendable, NEW coinbase \in BOOLEAN,
               ViewAddOutput(o, c, coinbase)
        PROVE  ViewCoins' = [ViewCoins EXCEPT ![o] = c]
    BY <2>3, ViewAddOutputStep DEF ViewPuts
  <2>4. \A b \in Blocks : FlushView(b) => TipCoins' = ViewCoins /\ TipBest' = b
    BY FlushViewStep
  <2>5. FlushTip \/ SyncTip => db' = [coin |-> TipCoins, best |-> TipBest]
    BY FlushTipStep, SyncTipStep DEF Persisted
  <2> QED BY <2>1, <2>2, <2>3, <2>4, <2>5, SMTT(30)
<1> HIDE DEF A
<1>2. IInv /\ [Next]_vars => [A]_vars
  BY <1>1
<1>3. Spec => [][A]_vars
  BY <1>2, Inductive, PTL DEF Spec
<1> QED BY <1>3 DEF OperationsTakeEffect, A

LEMMA InitRefines ==
  ASSUME Init
  PROVE  Utxo!Init
<1>1. NoCoins \in CoinMap
  BY DEF NoCoins, CoinMap, MaybeCoin
<1>2. db.coin = NoCoins /\ db.best = NoBlock /\ tip = EmptyCache /\ view = EmptyCache
      /\ kind = "none"
  BY DEF Init
<1>3. TipCoins = NoCoins /\ TipBest = NoBlock
  BY <1>1, <1>2, EmptyOver, Zenon DEF TipCoins, TipBest, BestOf
<1>4. ViewCoins = NoCoins /\ BestOf(view, TipBest) = NoBlock
  BY <1>1, <1>2, <1>3, EmptyOver DEF ViewCoins, BestOf
<1> QED BY <1>2, <1>3, <1>4, Zenon DEF Init, Utxo!Init, Utxo!EmptyStore, NoCoins

LEMMA StepRefines ==
  ASSUME IInv, SeenStep
  PROVE  [Utxo!Next]_(Utxo!vars)
<1>1. kind = "none" => ViewCoins = TipCoins /\ ViewBest = TipBest
  BY EmptyOver, MapTypes DEF IInv, ViewCoins, ViewBest, BestOf
<1>2. CASE kind' = kind /\ db' = db /\ SameSeen
  BY <1>2, Zenon DEF SameSeen, ViewBest, Utxo!vars
<1>3. CASE kind = "none" /\ kind' # "none" /\ db' = db /\ SameSeen
  BY <1>3, Zenon DEF SameSeen, ViewBest, Utxo!Next, Utxo!Begin
<1>4. CASE kind = "none" /\ kind' = "none" /\ Persisted /\ SameSeen
  BY <1>1, <1>4, Zenon DEF SameSeen, Persisted, ViewBest, Utxo!Next, Utxo!Persist
<1>5. CASE /\ kind # "none" /\ kind' = kind /\ db' = db
           /\ \E o \in Outpoints, c \in MaybeCoin : ViewPuts(o, c)
  <2>1. PICK o \in Outpoints, c \in MaybeCoin : ViewPuts(o, c)
    BY <1>5
  <2>2. Utxo!Put(o, c)
    BY <1>5, <2>1, Zenon DEF ViewPuts, ViewBest, Utxo!Put
  <2> QED BY <2>2 DEF Utxo!Next, Utxo!Remove, MaybeCoin
<1>6. CASE /\ kind # "none" /\ kind' = "none" /\ db' = db
           /\ \E b \in Blocks : TipCoins' = ViewCoins /\ ViewCoins' = ViewCoins
                                /\ TipBest' = b /\ ViewBest' = b
  <2>1. PICK b \in Blocks : TipCoins' = ViewCoins /\ ViewCoins' = ViewCoins
                            /\ TipBest' = b /\ ViewBest' = b
    BY <1>6
  <2>2. Utxo!Commit(b)
    BY <1>6, <2>1, Zenon DEF ViewBest, Utxo!Commit
  <2> QED BY <2>2 DEF Utxo!Next
<1>7. CASE /\ kind # "none" /\ kind' = "none" /\ db' = db
           /\ TipCoins' = TipCoins /\ ViewCoins' = TipCoins
           /\ TipBest' = TipBest /\ ViewBest' = TipBest
  BY <1>7, Zenon DEF ViewBest, Utxo!Next, Utxo!Abandon
<1> QED BY <1>2, <1>3, <1>4, <1>5, <1>6, <1>7, Zenon DEF SeenStep

\* The whole hierarchy (FetchCoin, AddCoin, SpendCoin, BatchWrite, Flush, Sync and
\* Uncache) behaves as a store with one all-or-nothing transaction per block.
THEOREM Refinement == Spec => ImplementsUtxoStore
<1>1. Init => Utxo!Init
  BY InitRefines
<1>2. IInv /\ [Next]_vars => [Utxo!Next]_(Utxo!vars)
  BY NextOK, StepRefines
<1> QED BY <1>1, <1>2, Inductive, PTL DEF Spec, ImplementsUtxoStore, Utxo!Spec

-----------------------------------------------------------------------------
(* m_dirty_count *)

CountOK(c) == c.count = Cardinality(c.dirty)

\* Adding an element, removing one: the cases of AddCoin, SpendCoin and erase.
LEMMA CountOne ==
  ASSUME NEW S \in SUBSET Outpoints, NEW o \in Outpoints
  PROVE  /\ Cardinality(S) \in Int
         /\ Cardinality(S \cup {o}) = IF o \in S THEN Cardinality(S) ELSE Cardinality(S) + 1
         /\ Cardinality(S \ {o}) = IF o \in S THEN Cardinality(S) - 1 ELSE Cardinality(S)
<1>1. IsFiniteSet(S)
  BY FiniteAssumption, FS_Subset
<1> QED BY <1>1, FS_CardinalityType, FS_AddElement, FS_RemoveElement, SMTT(30)

LEMMA CountFetch ==
  ASSUME NEW c \in Cache, NEW o, NEW v, CountOK(c)
  PROVE  CountOK(FetchCoin(c, o, v))
BY Zenon DEF CountOK, FetchCoin

LEMMA CountErase ==
  ASSUME NEW c \in Cache, NEW o \in Outpoints, CountOK(c)
  PROVE  CountOK(EraseEntry(c, o))
BY CountOne, Zenon DEF CountOK, EraseEntry, Cache

LEMMA CountWithOK ==
  ASSUME NEW c \in Cache, NEW o \in Outpoints, CountOK(c)
  PROVE  CountWith(c, o) = Cardinality(c.dirty \cup {o})
<1>1. c.dirty \in SUBSET Outpoints /\ c.count = Cardinality(c.dirty)
  BY DEF Cache, CountOK
<1>2. c.count \in Int
  BY DEF Cache
<1>3. Cardinality(c.dirty \cup {o}) = IF o \in c.dirty THEN c.count ELSE c.count + 1
  BY <1>1, CountOne, Zenon
<1> QED BY <1>2, <1>3 DEF CountWith

LEMMA CountAdd ==
  ASSUME NEW c \in Cache, NEW o \in Outpoints, NEW v, NEW w, CountOK(c)
  PROVE  CountOK(AddCoin(c, o, v, w))
<1>1. CASE v \in Unspendable
  BY <1>1, Zenon DEF AddCoin
<1>2. CASE v \notin Unspendable
  <2>1. AddCoin(c, o, v, w).count = CountWith(c, o) /\ AddCoin(c, o, v, w).dirty = c.dirty \cup {o}
    BY <1>2, Zenon DEF AddCoin
  <2> QED BY <2>1, CountWithOK, Zenon DEF CountOK
<1> QED BY <1>1, <1>2

LEMMA CountSpend ==
  ASSUME NEW c \in Cache, NEW o \in Outpoints, CountOK(c)
  PROVE  CountOK(SpendCoin(c, o))
<1>1. CASE o \in c.have \ c.fresh
  <2>1. SpendCoin(c, o).count = CountWith(c, o) /\ SpendCoin(c, o).dirty = c.dirty \cup {o}
    BY <1>1, Zenon DEF SpendCoin
  <2> QED BY <2>1, CountWithOK, Zenon DEF CountOK
<1>2. CASE o \notin c.have \ c.fresh
  BY <1>2, CountErase, Zenon DEF SpendCoin
<1> QED BY <1>1, <1>2

LEMMA CountBatchWrite ==
  ASSUME NEW p \in Cache, NEW c \in Cache, NEW b, CountOK(p)
  PROVE  CountOK(BatchWrite(p, c, b))
<1> DEFINE gone == Dropped(p, c)
           P == p.dirty
           N == c.dirty \ (P \cup gone)
<1>1. IsFiniteSet(P) /\ IsFiniteSet(c.dirty) /\ IsFiniteSet(N)
  BY FiniteAssumption, FS_Subset DEF Cache
<1>2. gone \subseteq c.dirty
  BY DEF Dropped
<1> HIDE DEF gone
<1>3. (P \cup c.dirty) \ gone = (P \ gone) \cup N /\ (P \ gone) \cap N = {}
      /\ gone \cap P = P \cap gone
  BY <1>2
<1>4. IsFiniteSet(P \ gone) /\ Cardinality(P \ gone) = Cardinality(P) - Cardinality(P \cap gone)
  BY <1>1, FS_Difference, Zenon
<1>5. Cardinality((P \ gone) \cup N) = Cardinality(P \ gone) + Cardinality(N)
  <2>1. Cardinality((P \ gone) \cup N)
          = Cardinality(P \ gone) + Cardinality(N) - Cardinality((P \ gone) \cap N)
    BY <1>1, <1>4, FS_Union, Zenon
  <2>2. Cardinality((P \ gone) \cap N) = 0
    BY <1>3, FS_EmptySet, Zenon
  <2>3. Cardinality(P \ gone) \in Nat /\ Cardinality(N) \in Nat
    BY <1>1, <1>4, FS_CardinalityType, Zenon
  <2> HIDE DEF N, P
  <2> QED BY <2>1, <2>2, <2>3
<1>6. Cardinality(P) \in Int /\ Cardinality(N) \in Int /\ Cardinality(P \cap gone) \in Int
  <2>1. IsFiniteSet(P \cap gone)
    BY <1>1, FS_Subset, Zenon
  <2> QED BY <1>1, <2>1, FS_CardinalityType, SMTT(30)
<1>7. BatchWrite(p, c, b).dirty = (P \cup c.dirty) \ gone
      /\ BatchWrite(p, c, b).count = p.count + Cardinality(N) - Cardinality(gone \cap P)
  BY Zenon DEF BatchWrite, gone
<1>8. Cardinality((P \cup c.dirty) \ gone)
        = Cardinality(P) - Cardinality(P \cap gone) + Cardinality(N)
  BY <1>3, <1>4, <1>5, Zenon
<1>9. p.count = Cardinality(P) /\ Cardinality(gone \cap P) = Cardinality(P \cap gone)
  BY <1>3, Zenon DEF CountOK
<1>10. BatchWrite(p, c, b).count = Cardinality((P \cup c.dirty) \ gone)
  <2> HIDE DEF N, P
  <2> QED BY <1>6, <1>7, <1>8, <1>9, SMTT(30)
<1> QED BY <1>7, <1>10, Zenon DEF CountOK

LEMMA CountCleared ==
  ASSUME NEW b
  PROVE  CountOK(ClearedCache(0, b))
BY FS_EmptySet, Zenon DEF CountOK, ClearedCache

\* The number that Flush, Sync and SanityCheck Assume or assert is kept exactly by
\* every increment and decrement of coins.cpp.
THEOREM DirtyCountAlwaysExact == Spec => []DirtyCountExact
<1> DEFINE D == CountOK(tip) /\ CountOK(view)
<1>1. Init => D
  BY CountCleared DEF Init, EmptyCache
<1>2. ASSUME IInv, D, [Next]_vars PROVE D'
  <2> USE <1>2
  <2>0. tip \in Cache /\ view \in Cache
    BY DEF IInv, TypeOK
  <2>1. \A o \in Outpoints : /\ TipFetched(o) \in Cache /\ CountOK(TipFetched(o))
                             /\ ViewFetched(o) \in Cache /\ CountOK(ViewFetched(o))
    BY <2>0, TipFetchedOK, ViewFetchedOK, CountFetch, Zenon DEF TipFetched, ViewFetched
  <2>2. ASSUME NEW k, OpenView(k) PROVE D'
    BY <2>2, CountCleared, Zenon DEF OpenView, WithBest, CountOK
  <2>3. ASSUME NEW o \in Outpoints, ViewRead(o) PROVE D'
    BY <2>3, <2>1 DEF ViewRead
  <2>4. ASSUME NEW o \in Outpoints, NEW c, NEW w, ViewAddOutput(o, c, w) PROVE D'
    BY <2>4, <2>0, CountAdd DEF ViewAddOutput
  <2>5. ASSUME NEW o \in Outpoints, NEW c, ViewRestoreInput(o, c) PROVE D'
    BY <2>5, <2>1, CountAdd, Zenon DEF ViewRestoreInput
  <2>6. ASSUME NEW o \in Outpoints, ViewSpend(o) PROVE D'
    BY <2>6, <2>1, CountSpend DEF ViewSpend
  <2>7. ASSUME NEW o \in Outpoints, TipRead(o) PROVE D'
    BY <2>7, <2>0, CountFetch DEF TipRead
  <2>8. ASSUME NEW o \in Outpoints, Uncache(o) PROVE D'
    BY <2>8, <2>0, CountErase, Zenon DEF Uncache
  <2>9. ASSUME NEW b, FlushView(b) PROVE D'
    BY <2>9, <2>0, CountBatchWrite, CountCleared DEF FlushView, EmptyCache
  <2>10. CASE DropView
    BY <2>10, CountCleared DEF DropView, EmptyCache
  <2>11. tip.count - Cardinality(tip.dirty) = 0
    BY <2>0 DEF CountOK, Cache
  <2>12. CASE FlushTip
    BY <2>11, <2>12, CountCleared DEF FlushTip
  <2>13. CASE SyncTip
    BY <2>11, <2>13, FS_EmptySet, Zenon DEF SyncTip, AfterSync, CountOK
  <2>14. CASE UNCHANGED vars
    BY <2>14 DEF vars
  <2> HIDE DEF D
  <2> QED
    BY <2>2, <2>3, <2>4, <2>5, <2>6, <2>7, <2>8, <2>9, <2>10, <2>12, <2>13, <2>14, Zenon DEF Next
<1>3. D => DirtyCountExact
  BY DEF CountOK, DirtyCountExact
<1> HIDE DEF D
<1> QED BY <1>1, <1>2, <1>3, Inductive, PTL DEF Spec
=============================================================================
