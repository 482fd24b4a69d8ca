---------------------------- MODULE MempoolReorg ----------------------------
(***************************************************************************)
(* What a change of the tip does to the mempool: ActivateBestChainStep and *)
(* InvalidateBlock disconnect blocks into a DisconnectedBlockTransactions, *)
(* connect others, and MaybeUpdateMempoolForReorg makes the mempool fit    *)
(* the new tip.  cs_main and the mempool's lock are held all the time, so  *)
(* that others see the states with pc = "idle" only, or the ones a fatal   *)
(* error leaves.                                                           *)
(*                                                                         *)
(* Which block is best is ChainState's subject: any block with more work   *)
(* than the tip may be aimed at.  Fees, replacement and size limits of the *)
(* mempool, cluster limits and lock times are left out.                    *)
(***************************************************************************)
EXTENDS Integers, FiniteSets, FiniteSetsExt, SequencesExt

CONSTANTS
  Blocks, Genesis,
  Parent,      \* [Blocks \ {Genesis} -> Blocks]
  Valid,       \* the blocks that ConnectBlock accepts
  Txs, Coinbase,
  In, Out,     \* the outpoints a transaction spends and creates
  Vtx,         \* [Blocks -> Seq(Txs)]: CBlock::vtx
  Funds,       \* outpoints that are there from the beginning
  Standard,    \* the transactions that pass the mempool's policy
  Maturity,    \* COINBASE_MATURITY
  MaxQueued    \* MAX_DISCONNECTED_TX_POOL_BYTES, in transactions

ASSUME ReorgAssumption ==
  /\ Genesis \in Blocks /\ Parent \in [Blocks \ {Genesis} -> Blocks]
  /\ Vtx \in [Blocks -> Seq(Txs)] /\ Coinbase \subseteq Txs
  /\ Maturity \in Nat /\ MaxQueued \in Nat

VARIABLES
  tip,        \* m_chain.Tip()
  coins,      \* the block whose coins CoinsTip holds: the tip, but after some errors
  failed,     \* blocks found invalid
  mempool,    \* mapTx
  linked,     \* the dependencies in m_txgraph: <<parent, child>>
  queued,     \* disconnectpool.queuedTx
  pc,
  step,       \* locals: [target, old, readd (fAddToMempool), stop, back (vHashUpdate)]
  known,      \* history: the transactions in mempool and chain when the locks were taken
  dropped     \* history: those of them given up for memory, or after an error

vars == <<tip, coins, failed, mempool, linked, queued, pc, step, known, dropped>>

-----------------------------------------------------------------------------
(* Blocks and transactions *)

AncOf[b \in Blocks] == IF b = Genesis THEN {b} ELSE {b} \cup AncOf[Parent[b]]
Anc == [b \in Blocks |-> AncOf[b]]
Height == [b \in Blocks |-> Cardinality(Anc[b]) - 1]
Confirmed == [b \in Blocks |-> UNION {Range(Vtx[x]) : x \in Anc[b]}]
Outs(S) == UNION {Out[t] : t \in S}
Ins(S) == UNION {In[t] : t \in S}
Utxo == [b \in Blocks |-> (Funds \cup Outs(Confirmed[b])) \ Ins(Confirmed[b])]

Parents(t, S) == {p \in S : Out[p] \cap In[t] # {}}

\* CCoinsView's nHeight of a coinbase transaction confirmed at or below b
CoinbaseHeight(c, b) == Height[CHOOSE x \in Anc[b] : c \in Range(Vtx[x])]

\* Each coinbase output that t spends is, by the coins of block b, deep enough to be spent in
\* the block after h.
Mature(t, b, h) ==
  \A c \in Parents(t, Coinbase \cap Confirmed[b]) : Height[h] + 1 - CoinbaseHeight(c, b) >= Maturity

\* AcceptToMemoryPool's verdict over the coins of block b and the transactions in pool
Acceptable(t, b, pool) ==
  /\ t \in Standard \ Coinbase
  /\ t \notin pool \cup Confirmed[b]
  /\ In[t] \subseteq Utxo[b] \cup Outs(pool)
  /\ In[t] \cap Ins(pool) = {}
  /\ Mature(t, b, b)

\* GetDescendantsUnion of S, in an m_txgraph with the dependencies deps
DescendantsIn(S, deps) ==
  LET D[n \in 0 .. Cardinality(Txs)] ==
        IF n = 0 THEN S
        ELSE LET closer == D[n - 1] IN closer \cup {t \in mempool : \E d \in closer : <<d, t>> \in deps}
  IN D[Cardinality(Txs)]

Descendants(S) == DescendantsIn(S, linked)

\* Mutant: a transaction that is not in the mempool has nothing to remove.
RemovalAlone(S) == Descendants(S \cap mempool)

\* removeRecursive for each of S: it and its descendants, or, if it is not in the mempool, the
\* transactions that spend its outputs and theirs.
Removal(S) == Descendants((S \cap mempool) \cup {t \in mempool : Parents(t, S \ mempool) # {}})

Without(gone) ==
  /\ mempool' = mempool \ gone
  /\ linked' = {l \in linked : l[1] \notin gone /\ l[2] \notin gone}

-----------------------------------------------------------------------------

NoStep == [target |-> Genesis, old |-> Genesis, readd |-> TRUE, stop |-> FALSE, back |-> {}]

Init ==
  /\ tip = Genesis /\ coins = Genesis /\ failed = {}
  /\ mempool = {} /\ linked = {} /\ queued = <<>>
  /\ pc = "idle" /\ step = NoStep /\ known = {} /\ dropped = {}

\* AcceptToMemoryPool for a transaction from a peer or a wallet
AcceptToMemoryPool(t) ==
  /\ pc = "idle"
  /\ Acceptable(t, tip, mempool)
  /\ mempool' = mempool \cup {t}
  /\ linked' = linked \cup {<<p, t>> : p \in Parents(t, mempool)}
  /\ UNCHANGED <<tip, coins, failed, queued, pc, step, known, dropped>>

\* The locks are taken, to move towards the block target.
Enter(where, target, readd) ==
  /\ pc = "idle"
  /\ pc' = where
  /\ step' = [NoStep EXCEPT !.target = target, !.old = tip, !.readd = readd]
  /\ known' = mempool \cup Confirmed[tip]
  /\ dropped' = IF readd THEN {} ELSE known'
  /\ UNCHANGED <<tip, coins, failed, mempool, linked, queued>>

ActivateBestChainStep(b) ==
  /\ Height[b] > Height[tip] /\ Anc[b] \cap failed = {}
  /\ Enter("step", b, TRUE)

\* One turn of InvalidateBlock's loop; after ten of them nothing is added back.  Its marks are
\* ChainState's subject: the block may be aimed at again, once it is reconsidered.
InvalidateBlock(readd) == tip # Genesis /\ Enter("invalidate", Parent[tip], readd)

\* A system error leaves the coins of block c: nothing is added back, and the node is going to
\* stop, unless InvalidateBlock returns after it could not read the block.
Fail(c) ==
  /\ coins' = c
  /\ pc' = "update"
  /\ step' = [step EXCEPT !.readd = FALSE, !.stop = ~(pc = "invalidate" /\ c = tip)]
  /\ dropped' = known
  /\ UNCHANGED <<tip, failed, mempool, linked, queued, known>>

-----------------------------------------------------------------------------
(* DisconnectTip and ConnectTip *)

Disconnecting == pc \in {"step", "invalidate"} /\ tip \notin Anc[step.target]

\* Mutant: a block's transactions are queued first to last.
QueueForward == queued \o Vtx[tip]

\* AddTransactionsFromBlock: last to first, below those of the blocks above
Queue == queued \o Reverse(Vtx[tip])

\* LimitMemoryUsage drops the transactions confirmed last.
DisconnectTip ==
  LET all == Queue
      over == Max({0, Len(all) - MaxQueued})
      evicted == Range(SubSeq(all, 1, over))
      gone == Removal(evicted)
  IN /\ Disconnecting
     /\ coins' = Parent[tip] /\ tip' = Parent[tip]
     /\ queued' = SubSeq(all, over + 1, Len(all))
     /\ dropped' = dropped \cup evicted \cup gone
     /\ Without(gone)
     /\ pc' = IF pc = "invalidate" THEN "update" ELSE pc
     /\ UNCHANGED <<failed, step, known>>

\* The block cannot be read, or the chainstate not be written afterwards.
DisconnectTipFails ==
  /\ Disconnecting
  /\ \E c \in {tip, Parent[tip]} : Fail(c)

Connecting == pc = "step" /\ tip \in Anc[step.target]
NextBlock == CHOOSE x \in Anc[step.target] : Height[x] = Height[tip] + 1

\* The end of a step; the mempool is updated if blocks were disconnected.
StepDone == pc' = IF step.old \in Anc[tip] THEN "idle" ELSE "update"

\* removeForBlock: the block's transactions leave the mempool alone, what conflicts with them
\* with its descendants.
ConnectTip ==
  LET b == NextBlock
      confirmed == Range(Vtx[b])
      conflicts == {t \in mempool \ confirmed : In[t] \cap Ins(confirmed) # {}}
  IN /\ Connecting /\ b \in Valid
     /\ coins' = b /\ tip' = b
     /\ Without((confirmed \cap mempool) \cup Descendants(conflicts))
     /\ queued' = SelectSeq(queued, LAMBDA t : t \notin confirmed)
     /\ IF Height[b] > Height[step.old] \/ b = step.target THEN StepDone ELSE UNCHANGED pc
     /\ UNCHANGED <<failed, step, known, dropped>>

\* InvalidBlockFound; the step ends where it is.
ConnectTipInvalid ==
  /\ Connecting /\ NextBlock \notin Valid
  /\ failed' = failed \cup {b \in Blocks : NextBlock \in Anc[b]}
  /\ StepDone
  /\ UNCHANGED <<tip, coins, mempool, linked, queued, step, known, dropped>>

\* The block cannot be read, or the chainstate not be written once the coins are changed.
ConnectTipFails ==
  /\ Connecting /\ NextBlock \in Valid
  /\ \E c \in {tip, NextBlock} : Fail(c)

-----------------------------------------------------------------------------
(* MaybeUpdateMempoolForReorg *)

\* One transaction from the back of the queue: accepted again, or what depends on it removed
AddBack ==
  LET t == Last(queued)
  IN /\ pc = "update" /\ queued # <<>>
     /\ queued' = Front(queued)
     /\ IF step.readd /\ Acceptable(t, coins, mempool)
        THEN /\ mempool' = mempool \cup {t}
             /\ linked' = linked \cup {<<p, t>> : p \in Parents(t, mempool)}
             /\ step' = [step EXCEPT !.back = @ \cup {t}]
        ELSE Without(Removal({t})) /\ UNCHANGED step
     /\ UNCHANGED <<tip, coins, failed, pc, known, dropped>>

\* UpdateTransactionsFromBlock: the children that were in the mempool before
Relinked == linked \cup {<<p, t>> \in (step.back \cap mempool) \X mempool : p \in Parents(t, mempool)}

\* filter_final_and_mature meets a spent coin: its assertion fails.
SpentCoinMet ==
  \E t \in mempool : Parents(t, Coinbase) # {} /\ ~(In[t] \subseteq Utxo[coins] \cup Outs(mempool))

\* filter_final_and_mature
Immature == {t \in mempool : ~Mature(t, coins, tip)}

\* UpdateTransactionsFromBlock, then removeForReorg
UpdateMempool ==
  LET deps == Relinked
      gone == DescendantsIn(Immature, deps)
  IN /\ pc = "update" /\ queued = <<>>
     /\ mempool' = mempool \ gone
     /\ linked' = {d \in deps : d[1] \notin gone /\ d[2] \notin gone}
     /\ pc' = IF SpentCoinMet THEN "aborted" ELSE IF step.stop THEN "fatal" ELSE "idle"
     /\ step' = NoStep
     /\ UNCHANGED <<tip, coins, failed, queued, known, dropped>>

-----------------------------------------------------------------------------

Next ==
  \/ \E t \in Txs : AcceptToMemoryPool(t)
  \/ \E b \in Blocks : ActivateBestChainStep(b)
  \/ \E readd \in BOOLEAN : InvalidateBlock(readd)
  \/ DisconnectTip \/ DisconnectTipFails
  \/ ConnectTip \/ ConnectTipInvalid \/ ConnectTipFails
  \/ AddBack \/ UpdateMempool

Spec == Init /\ [][Next]_vars

-----------------------------------------------------------------------------
(* Properties *)

\* CTxMemPool::check, whenever the locks are free, also where a reorganisation stopped half
\* way: every input of a transaction in the mempool is unspent at the tip or an output of
\* another one there, no two spend the same, none is confirmed or immature, m_txgraph has
\* exactly their dependencies, and the disconnect pool was drained.
MempoolFits ==
  pc \in {"idle", "fatal"} /\ coins = tip =>
    /\ \A t \in mempool :
         /\ In[t] \subseteq Utxo[tip] \cup Outs(mempool)
         /\ \A u \in mempool \ {t} : In[t] \cap In[u] = {}
         /\ Mature(t, tip, tip)
    /\ mempool \cap Confirmed[tip] = {}
    /\ linked = {<<p, t>> \in mempool \X mempool : Out[p] \cap In[t] # {}}
    /\ queued = <<>>

\* A reorganisation loses no transaction without need: one that was confirmed or in the
\* mempool before, and that the mempool would accept now, is there, unless it was given up
\* for the memory limit (with what depended on it) or by a deep invalidation.
NothingLost ==
  [][pc # "idle" /\ pc' = "idle" =>
       \A t \in known \ dropped' : ~Acceptable(t, tip', mempool')]_vars

\* "Make the mempool consistent with the current tip, just in case any observers try to use it
\* before shutdown": after a system error the node gets as far as its shutdown.
ErrorsEndInShutdown == pc # "aborted"
=============================================================================
