----------------------------- MODULE ChainState -----------------------------
(***************************************************************************)
(* The block tree and the choice of the active chain (validation.cpp):      *)
(* headers and blocks arrive in any order, ActivateBestChain moves the tip  *)
(* to the best candidate, and the operator may invalidate, reconsider,      *)
(* prefer or prune blocks meanwhile.                                        *)
(*                                                                          *)
(* Two locks shape the steps.  cs_main guards all the state here: while it  *)
(* is held nobody else moves.  m_chainstate_mutex admits one thread at a    *)
(* time into ActivateBestChain or InvalidateBlock, but both give cs_main up *)
(* between steps, so that headers, blocks and RPCs get in between.  `pc' is *)
(* where the thread with m_chainstate_mutex stands; `pending' counts the    *)
(* threads that are going to call ActivateBestChain once their own part (a  *)
(* block accepted, a block invalidated...) is done.                         *)
(***************************************************************************)
EXTENDS Integers, FiniteSets

CONSTANTS
  Blocks, Genesis,
  Parent,      \* [Blocks \ {Genesis} -> Blocks]: hashPrevBlock
  Proof,       \* [Blocks -> Nat]: GetBlockProof
  Addr,        \* [Blocks -> Nat]: the address of the CBlockIndex, the last tie-break
  NoBlock,     \* nullptr
  Batch,       \* blocks connected before the list is rebuilt (32)
  MinReverse,  \* the least nBlockReverseSequenceId (INT32_MIN)
  Worlds       \* the settings a behaviour may have

ASSUME TreeAssumption ==
  /\ IsFiniteSet(Blocks) /\ Genesis \in Blocks /\ NoBlock \notin Blocks
  /\ Parent \in [Blocks \ {Genesis} -> Blocks]
  /\ \A S \in (SUBSET Blocks) \ {{}} : \E b \in S : b = Genesis \/ Parent[b] \notin S   \* no cycles
  /\ Proof \in [Blocks -> Nat \ {0}]
  /\ Addr \in [Blocks -> Nat] /\ \A a, b \in Blocks : Addr[a] = Addr[b] => a = b
ASSUME WorldsAssumption ==
  /\ Batch \in Nat \ {0} /\ MinReverse \in Int /\ MinReverse < 0
  /\ \A w \in Worlds :
       /\ Genesis \in w.checked \cap w.valid /\ w.blocks \cup w.checked \cup w.valid \subseteq Blocks
       /\ w.operator \subseteq {"invalidate", "reconsider", "precious", "prune", "restart"}
       /\ w.keep \in Nat /\ w.pending \in Nat \ {0} /\ w.seq \in Nat

VARIABLES
  world,        \* the settings of this behaviour; they never change
  index,        \* m_block_index: the known headers
  have,         \* BLOCK_HAVE_DATA
  txs,          \* nTx > 0, equivalently BLOCK_VALID_TRANSACTIONS: data seen at some time
  linked,       \* HaveNumChainTxs(): the same for all ancestors too
  failed,       \* BLOCK_FAILED_VALID
  seq,          \* nSequenceId
  nextSeq,      \* nBlockSequenceId
  unlinked,     \* m_blocks_unlinked, a multimap from parents to waiting blocks
  earlier,      \* its order: <<x, y>> when x was inserted before its sibling y
  cands,        \* setBlockIndexCandidates
  tip,          \* m_chain.Tip()
  bestHeader,   \* m_best_header
  bestInvalid,  \* m_best_invalid
  reverse,      \* [next |-> nBlockReverseSequenceId, work |-> nLastPreciousChainwork]
  pending,
  pc,
  abc,          \* locals of ActivateBestChain
  inv           \* locals of InvalidateBlock

tree == <<index, have, txs, linked, unlinked, earlier>>
order == <<seq, nextSeq, reverse>>
marks == <<failed, bestHeader, bestInvalid>>
vars == <<world, tree, order, marks, cands, tip, pending, pc, abc, inv>>

Branches == world.blocks       \* the blocks that arrive
Checked == world.checked       \* those that pass ContextualCheckBlock
Valid == world.valid           \* those that ConnectBlock accepts on top of their parents
Operator == world.operator     \* which of the operator's commands happen
KeepBlocks == world.keep       \* MIN_BLOCKS_TO_KEEP
MaxPending == world.pending    \* bound: threads waiting to activate
MaxSeq == world.seq            \* bound on nBlockSequenceId

-----------------------------------------------------------------------------
(* The tree *)

AncOf[b \in Blocks] == IF b = Genesis THEN {b} ELSE {b} \cup AncOf[Parent[b]]
Anc == [b \in Blocks |-> AncOf[b]]
Height == [b \in Blocks |-> Cardinality(Anc[b]) - 1]
WorkOf[b \in Blocks] == Proof[b] + (IF b = Genesis THEN 0 ELSE WorkOf[Parent[b]])
ChainWork == [b \in Blocks |-> WorkOf[b]]

Chain == Anc[tip]
Descendants(b) == {x \in index : b \in Anc[x]}
Highest(S) == CHOOSE x \in S : \A y \in S : Height[y] <= Height[x]

\* CBlockIndexWorkComparator under the sequence ids s: a sorts before, is worse than, b.
WorseIn(s, a, b) ==
  \/ ChainWork[a] < ChainWork[b]
  \/ ChainWork[a] = ChainWork[b] /\ s[a] > s[b]
  \/ ChainWork[a] = ChainWork[b] /\ s[a] = s[b] /\ Addr[a] > Addr[b]

Worse(a, b) == WorseIn(seq, a, b)

\* c is the last element of setBlockIndexCandidates.
BestCandidate(c) == \A d \in cands \ {c} : Worse(d, c)

\* What a scan for more work ends at, from `from' over S in hash-table order.
MostWork(S, from) ==
  LET most == {x \in S : \A y \in S : ChainWork[y] <= ChainWork[x]}
  IN IF \E x \in most : ChainWork[x] > ChainWork[from] THEN most ELSE {from}

RecalculateBestHeader(bad, t) == MostWork(index \ bad, t)

\* The locals of a thread that is not there
NoABC == [most |-> NoBlock, start |-> Genesis, old |-> Genesis, moved |-> FALSE]
NoInv == [block |-> NoBlock, mark |-> NoBlock, was |-> FALSE, others |-> {}]

\* No thread holds cs_main.
CsFree == pc \in {"idle", "abc_unlocked", "inv_loop", "inv_mark"}

-----------------------------------------------------------------------------
(* Headers and blocks *)

AcceptsHeader(b) ==
  IF b \in index THEN b \notin failed ELSE b # Genesis /\ Parent[b] \in index \ failed

HeaderBest(b) ==
  IF b \notin index /\ ChainWork[b] > ChainWork[bestHeader] THEN b ELSE bestHeader

\* BlockManager::AddToBlockIndex
HeaderAdded(b) ==
  /\ index' = index \cup {b}
  /\ bestHeader' = HeaderBest(b)

\* ProcessNewBlockHeaders, one header
ProcessNewBlockHeader(b) ==
  /\ CsFree
  /\ b \notin index
  /\ AcceptsHeader(b)
  /\ HeaderAdded(b)
  /\ UNCHANGED <<have, txs, linked, unlinked, earlier, order, failed, bestInvalid, cands, tip,
                 pending, pc, abc, inv, world>>

\* The blocks that a newly received b links: b, and what waited below it.
Linkable(b) ==
  {x \in {b} \cup unlinked : b \in Anc[x] /\ Anc[x] \ Anc[b] \subseteq unlinked}

\* AddUnlinkedBlock for the blocks S, no two of them siblings
AddUnlinked(S) ==
  LET new == S \ unlinked
  IN /\ unlinked' = unlinked \cup new
     /\ earlier' = earlier \cup {e \in unlinked \X new : Parent[e[1]] = Parent[e[2]]}

EraseUnlinked(S) ==
  /\ unlinked' = unlinked \ S
  /\ earlier' = {e \in earlier : e[1] \notin S /\ e[2] \notin S}

\* The breadth-first queue of ReceivedBlockTransactions over the blocks L.
DequeuedBefore(L) ==
  LET before[p \in L \X L] ==
        IF Height[p[1]] # Height[p[2]] THEN Height[p[1]] < Height[p[2]]
        ELSE IF p[1] = p[2] THEN FALSE
        ELSE IF Parent[p[1]] = Parent[p[2]] THEN p \in earlier
        ELSE before[<<Parent[p[1]], Parent[p[2]]>>]
  IN before

\* TryAddBlockIndexCandidate for the blocks L, with their new sequence ids s
TryAdd(s, L) == cands \cup {x \in L : ~WorseIn(s, x, tip)}

\* ReceivedBlockTransactions
ReceivedBlockTransactions(b) ==
  /\ have' = have \cup {b}
  /\ txs' = txs \cup {b}
  /\ IF b = Genesis \/ Parent[b] \in linked
     THEN LET L == Linkable(b)
              before == DequeuedBefore(L)
              s == [x \in Blocks |-> IF x \in L
                                     THEN nextSeq + Cardinality({y \in L : before[<<y, x>>]})
                                     ELSE seq[x]]
          IN /\ linked' = linked \cup L
             /\ seq' = s
             /\ nextSeq' = nextSeq + Cardinality(L)
             /\ cands' = TryAdd(s, L)
             /\ EraseUnlinked(L)
     ELSE /\ AddUnlinked({b})
          /\ UNCHANGED <<linked, seq, nextSeq, cands>>

\* InvalidChainFound(b), with `bad' already marked: SetBlockFailureFlags, and a new
\* m_best_header if it descends from b.
InvalidChainFound(b, bad) ==
  /\ failed' = bad \cup (Descendants(b) \ {b})
  /\ bestHeader' \in IF b \in Anc[bestHeader] THEN RecalculateBestHeader(failed', tip)
                                              ELSE {bestHeader}

WorstInvalid(old, b) == IF old = NoBlock \/ ChainWork[b] > ChainWork[old] THEN b ELSE old

\* Mutant: a block that is there already is processed again.
WantedAgain(b, requested) ==
  requested \/ ChainWork[b] >= ChainWork[tip]

\* AcceptBlock's early returns: a block whose data is there, or that was not asked for
\* and is pruned, on a branch with less work or too far ahead, is not processed.
Wanted(b, requested) ==
  /\ b \notin have
  /\ requested \/ (/\ b \notin txs
                   /\ ChainWork[b] >= ChainWork[tip]
                   /\ Height[b] <= Height[tip] + KeepBlocks)

Received(b) ==
  /\ HeaderAdded(b)
  /\ ReceivedBlockTransactions(b)
  /\ UNCHANGED <<failed, bestInvalid, reverse>>

\* InvalidBlockFound for a block whose header is known, or only now accepted
Rejected(b) ==
  /\ index' = index \cup {b}
  /\ cands' = cands \ {b}
  /\ failed' = failed \cup Descendants(b) \cup {b}
  /\ bestInvalid' = WorstInvalid(bestInvalid, b)
  /\ bestHeader' \in IF b \in Anc[HeaderBest(b)] THEN RecalculateBestHeader(failed', tip)
                                                  ELSE {bestHeader}
  /\ UNCHANGED <<have, txs, linked, unlinked, earlier, order>>

\* ProcessNewBlock up to its call of ActivateBestChain.  A block that is malleated
\* or fails CheckBlock there changes nothing; b is the genuine one.
ProcessNewBlock(b, requested) ==
  /\ CsFree
  /\ pending < MaxPending
  /\ nextSeq + Cardinality(unlinked) < MaxSeq
  /\ AcceptsHeader(b)
  /\ \/ /\ ~Wanted(b, requested)
        /\ HeaderAdded(b)
        /\ pending' = pending + 1
        /\ UNCHANGED <<have, txs, linked, unlinked, earlier, order, failed, bestInvalid, cands>>
     \/ /\ Wanted(b, requested)
        /\ b \in Checked
        /\ Received(b)
        /\ pending' = pending + 1
     \/ /\ Wanted(b, requested)
        /\ b \notin Checked
        /\ Rejected(b)
        /\ UNCHANGED pending
  /\ UNCHANGED <<tip, pc, abc, inv, world>>

-----------------------------------------------------------------------------
(* ActivateBestChain *)

\* Entering with m_chainstate_mutex, then cs_main for the first time
ABCStart ==
  /\ pc = "idle"
  /\ pending > 0
  /\ pending' = pending - 1
  /\ pc' = "abc_find"
  /\ abc' = [most |-> NoBlock, start |-> tip, old |-> tip, moved |-> FALSE]
  /\ UNCHANGED <<tree, order, marks, cands, tip, inv, world>>

Path(c) == Anc[c] \ Chain
Unusable(c) == {x \in Path(c) : x \in failed \/ x \notin have}
Above(c, x) == {y \in Path(c) : Height[y] > Height[x]}

\* FindMostWorkChain, one turn of its loop: take the best candidate, or throw out
\* what builds on its highest unusable ancestor.
FindMostWorkChain ==
  /\ pc = "abc_find"
  /\ abc.most = NoBlock
  /\ \E c \in cands :
       /\ BestCandidate(c)
       /\ IF Unusable(c) = {}
          THEN /\ abc' = [abc EXCEPT !.most = c]
               /\ UNCHANGED <<bestInvalid, cands, unlinked, earlier>>
          ELSE LET test == Highest(Unusable(c))
               IN /\ cands' = cands \ (Above(c, test) \cup {test})
                  /\ IF test \in failed
                     THEN /\ bestInvalid' = WorstInvalid(bestInvalid, c)
                          /\ UNCHANGED <<unlinked, earlier>>
                     ELSE AddUnlinked(Above(c, test)) /\ UNCHANGED bestInvalid
                  /\ UNCHANGED abc
  /\ UNCHANGED <<index, have, txs, linked, order, failed, bestHeader, tip, pending, pc, inv, world>>

\* Nothing (more) to do: return, or leave the section if something was done in it.
ABCBreak ==
  /\ pc = "abc_find"
  /\ abc.most = tip \/ (abc.most = NoBlock /\ cands = {})
  /\ IF abc.moved THEN pc' = "abc_unlocked" /\ UNCHANGED abc
                  ELSE pc' = "idle" /\ abc' = NoABC
  /\ UNCHANGED <<tree, order, marks, cands, tip, pending, inv, world>>

\* ActivateBestChainStep begins.
ABCStep ==
  /\ pc = "abc_find"
  /\ abc.most \notin {NoBlock, tip}
  /\ pc' = "abc_step"
  /\ abc' = [abc EXCEPT !.old = tip]
  /\ UNCHANGED <<tree, order, marks, cands, tip, pending, inv, world>>

\* DisconnectTip down to the fork; without the block's data the node gives up.
ABCDisconnect ==
  /\ pc = "abc_step"
  /\ tip \notin Anc[abc.most]
  /\ IF tip \in have THEN tip' = Parent[tip] /\ UNCHANGED pc
                     ELSE pc' = "fatal" /\ UNCHANGED tip
  /\ UNCHANGED <<tree, order, marks, cands, pending, abc, inv, world>>

\* The blocks of the way to the target that follow the tip: one of them, or none at the end
NextOnPath == {x \in Path(abc.most) : Parent[x] = tip}

\* Mutant: cs_main is given up after every step.
StepDoneReleases(t, most) ==
  /\ abc' = [abc EXCEPT !.most = most, !.moved = TRUE]
  /\ pc' = "abc_unlocked"

\* The end of a step: another one unless the tip is at least what it was.
StepDone(t, most) ==
  /\ abc' = [abc EXCEPT !.most = most, !.moved = TRUE]
  /\ pc' = IF Worse(t, abc.start) THEN "abc_find" ELSE "abc_unlocked"

\* Mutant: ConnectBlock's verdict is ignored.
ABCConnectAny ==
  /\ pc = "abc_step"
  /\ tip \in Anc[abc.most]
  /\ \E x \in NextOnPath :
       /\ tip' = x
       /\ cands' = {c \in cands : ~Worse(c, x)}
       /\ StepDone(x, abc.most)
  /\ UNCHANGED <<tree, order, marks, pending, inv, world>>

\* ConnectTip succeeds; PruneBlockIndexCandidates.
ABCConnect ==
  /\ pc = "abc_step"
  /\ tip \in Anc[abc.most]
  /\ \E x \in NextOnPath \cap Valid :
       /\ tip' = x
       /\ cands' = {c \in cands : ~Worse(c, x)}
       /\ IF ChainWork[x] > ChainWork[abc.old] \/ x = abc.most
          THEN StepDone(x, abc.most)
          ELSE UNCHANGED <<abc, pc>>
  /\ UNCHANGED <<tree, order, marks, pending, inv, world>>

\* The highest block of the batch that holds x
BatchFront(x) ==
  LET fork == Height[Highest(Anc[abc.old] \cap Anc[abc.most])]
      top == fork + Batch * ((Height[x] - fork + Batch - 1) \div Batch)
  IN Highest({y \in Anc[abc.most] : Height[y] <= top})

\* ConnectTip finds a consensus violation: InvalidBlockFound, InvalidChainFound for
\* the front of the batch, and another branch is looked for.
ABCConnectInvalid ==
  /\ pc = "abc_step"
  /\ tip \in Anc[abc.most]
  /\ \E x \in NextOnPath \ Valid :
       /\ InvalidChainFound(x, failed \cup {x})
       /\ cands' = cands \ {x}
       /\ bestInvalid' = WorstInvalid(WorstInvalid(bestInvalid, x), BatchFront(x))
  /\ StepDone(tip, NoBlock)
  /\ UNCHANGED <<tree, order, tip, pending, inv, world>>

\* Mutant: no further turn of the loop.
ABCUnlockedOnce ==
  /\ pc = "abc_unlocked"
  /\ pc' = "idle"
  /\ abc' = NoABC
  /\ UNCHANGED <<tree, order, marks, cands, tip, pending, inv, world>>

\* cs_main is free; the loop goes on until the tip is what was aimed at.
ABCUnlocked ==
  /\ pc = "abc_unlocked"
  /\ IF tip = abc.most
     THEN pc' = "idle" /\ abc' = NoABC
     ELSE pc' = "abc_find" /\ abc' = [abc EXCEPT !.start = tip, !.moved = FALSE]
  /\ UNCHANGED <<tree, order, marks, cands, tip, pending, inv, world>>

-----------------------------------------------------------------------------
(* InvalidateBlock *)

\* Takes m_chainstate_mutex and collects highpow_outofchain_headers.
InvalidateStart(b) ==
  /\ "invalidate" \in Operator
  /\ pc = "idle"
  /\ pending < MaxPending
  /\ b \in index \ {Genesis}
  /\ pc' = "inv_loop"
  /\ pending' = pending + 1
  /\ inv' = [block |-> b, mark |-> b, was |-> FALSE,
             others |-> {x \in index \ (Chain \cup failed) : ~Worse(x, Parent[b])}]
  /\ UNCHANGED <<tree, order, marks, cands, tip, abc, world>>

\* One turn of the loop: disconnect the tip, mark it and what is known to build on
\* it, and make the blocks that now compete with the new tip candidates.
InvalidateDisconnect ==
  /\ pc = "inv_loop"
  /\ inv.block \in Chain
  /\ tip \in have
  /\ LET new == Parent[tip]
         seen == {x \in inv.others : ChainWork[x] >= ChainWork[new]}
         gone == {x \in seen : tip \in Anc[x]}
         rest == seen \ gone
     IN /\ tip' = new
        /\ failed' = failed \cup {tip} \cup gone
        /\ cands' = (cands \ {tip}) \cup {new}
                    \cup {x \in rest : ~Worse(x, new) /\ x \in (txs \ failed) \cap linked}
        /\ bestHeader' \in IF tip \in Anc[bestHeader] THEN MostWork(rest \cup {new}, new)
                                                      ELSE {bestHeader}
        /\ inv' = [inv EXCEPT !.mark = tip, !.was = TRUE, !.others = @ \ gone]
  /\ UNCHANGED <<tree, order, bestInvalid, pending, pc, abc, world>>

\* The tip's data is pruned: InvalidateBlock returns, its caller activates.
InvalidateStuck ==
  /\ pc = "inv_loop"
  /\ inv.block \in Chain
  /\ tip \notin have
  /\ pc' = "idle"
  /\ inv' = NoInv
  /\ UNCHANGED <<tree, order, marks, cands, tip, pending, abc, world>>

InvalidateLeave ==
  /\ pc = "inv_loop"
  /\ inv.block \notin Chain
  /\ pc' = "inv_mark"
  /\ UNCHANGED <<tree, order, marks, cands, tip, pending, abc, inv, world>>

\* Mutant: without the sweep.
InvalidateMarkOnly ==
  /\ pc = "inv_mark"
  /\ pc' = "idle"
  /\ inv' = NoInv
  /\ cands' = cands \ {inv.block}
  /\ bestInvalid' = WorstInvalid(bestInvalid, inv.mark)
  /\ InvalidChainFound(inv.mark, failed \cup {inv.block})
  /\ UNCHANGED <<tree, order, tip, pending, abc, world>>

\* The last section: the sweep for missed candidates, then InvalidChainFound.  (The mark
\* can be in the active chain only when the loop was interrupted; the thread then returns
\* and the node stops, which is Restart.)
InvalidateMark ==
  /\ pc = "inv_mark"
  /\ pc' = "idle"
  /\ inv' = NoInv
  /\ LET direct == IF inv.was \/ inv.block \in failed THEN {} ELSE {inv.block}
         bad == failed \cup direct
     IN /\ cands' = (cands \ direct) \cup {x \in (txs \ bad) \cap linked : ~Worse(x, tip)}
        /\ bestInvalid' = WorstInvalid(bestInvalid, inv.mark)
        /\ InvalidChainFound(inv.mark, bad)
  /\ UNCHANGED <<tree, order, tip, pending, abc, world>>

-----------------------------------------------------------------------------
(* The other RPCs, pruning and restarts *)

\* Mutant: the cleared blocks do not become candidates.
ReconsiderForgets(b) ==
  /\ "reconsider" \in Operator
  /\ CsFree
  /\ pending < MaxPending
  /\ b \in index
  /\ failed' = {x \in failed : ~(b \in Anc[x] \/ x \in Anc[b])}
  /\ bestHeader' \in RecalculateBestHeader(failed', tip)
  /\ pending' = pending + 1
  /\ UNCHANGED <<tree, order, bestInvalid, cands, tip, pc, abc, inv, world>>

\* ReconsiderBlock: ResetBlockFailureFlags, RecalculateBestHeader
ReconsiderBlock(b) ==
  /\ "reconsider" \in Operator
  /\ CsFree
  /\ pending < MaxPending
  /\ b \in index
  /\ LET cleared == {x \in failed : b \in Anc[x] \/ x \in Anc[b]}
     IN /\ failed' = failed \ cleared
        /\ cands' = cands \cup {x \in cleared \cap txs \cap linked : Worse(tip, x)}
        /\ bestInvalid' = IF bestInvalid \in cleared THEN NoBlock ELSE bestInvalid
  /\ bestHeader' \in RecalculateBestHeader(failed', tip)
  /\ pending' = pending + 1
  /\ UNCHANGED <<tree, order, tip, pc, abc, inv, world>>

\* PreciousBlock, before its ActivateBestChain
PreciousBlock(b) ==
  /\ "precious" \in Operator
  /\ CsFree
  /\ pending < MaxPending
  /\ b \in index
  /\ ChainWork[b] >= ChainWork[tip]
  /\ LET id == IF ChainWork[tip] > reverse.work THEN -1 ELSE reverse.next
         s == [seq EXCEPT ![b] = id]
     IN /\ seq' = s
        /\ reverse' = [next |-> IF id > MinReverse THEN id - 1 ELSE id, work |-> ChainWork[tip]]
        /\ cands' = IF b \in (txs \ failed) \cap linked
                    THEN {c \in cands \cup {b} : ~WorseIn(s, c, tip)}
                    ELSE cands \ {b}
  /\ pending' = pending + 1
  /\ UNCHANGED <<tree, nextSeq, marks, tip, pc, abc, inv, world>>

\* Mutant: any block can be pruned.
PruneAnyBlock(b) ==
  /\ "prune" \in Operator
  /\ CsFree
  /\ b \in have \ {Genesis, tip}
  /\ have' = have \ {b}
  /\ EraseUnlinked({b})
  /\ UNCHANGED <<index, txs, linked, order, marks, cands, tip, pending, pc, abc, inv, world>>

\* Mutant: m_blocks_unlinked keeps the pruned block.
PruneKeepsUnlinked(b) ==
  /\ "prune" \in Operator
  /\ CsFree
  /\ b \in have \ {Genesis}
  /\ Height[b] + KeepBlocks <= Height[tip]
  /\ have' = have \ {b}
  /\ UNCHANGED <<index, txs, linked, unlinked, earlier, order, marks, cands, tip, pending, pc, abc, inv, world>>

\* PruneOneBlockFile, for a file that holds one block below the prune height
PruneOneBlockFile(b) ==
  /\ "prune" \in Operator
  /\ CsFree
  /\ b \in have \ {Genesis}
  /\ Height[b] + KeepBlocks <= Height[tip]
  /\ have' = have \ {b}
  /\ EraseUnlinked({b})
  /\ UNCHANGED <<index, txs, linked, order, marks, cands, tip, pending, pc, abc, inv, world>>

\* LoadBlockIndex: blocks with data and a gap below them wait again; the index is sorted by
\* height, which leaves the order of siblings open.
LoadUnlinked(waiting) ==
  LET siblings == {e \in waiting \X waiting : e[1] # e[2] /\ Parent[e[1]] = Parent[e[2]]}
  IN /\ unlinked' = waiting
     /\ earlier' \in {R \in SUBSET siblings :
                       /\ \A e \in siblings : e \in R <=> <<e[2], e[1]>> \notin R
                       /\ \A d, e \in R : d[2] = e[1] => <<d[1], e[2]>> \in R}

\* PopulateBlockIndexCandidates
LoadedCandidates(s, good) == {x \in good : ~WorseIn(s, x, tip)}

\* Mutant: m_best_header starts at the tip.
LoadedTip(bad) == tip

\* ChainstateManager::LoadBlockIndex, where all sequence ids are still the same
LoadedBestHeader(bad) ==
  LET flat == [b \in Blocks |-> 1]
  IN CHOOSE h \in index \ bad : \A x \in index \ (bad \cup {h}) : WorseIn(flat, x, h)

\* A shutdown at any point where a thread can be interrupted, and a start from what
\* was saved: LoadBlockIndexDB, LoadBlockIndex, LoadChainTip,
\* PopulateBlockIndexCandidates; the import thread then activates the best chain.  (A node
\* that stopped because a pruned block could not be disconnected needs its operator.)
Restart ==
  /\ "restart" \in Operator
  /\ CsFree
  /\ LET all == {x \in txs : Anc[x] \subseteq txs}
         bad == {x \in index : Anc[x] \cap failed # {}}
         s == [b \in Blocks |-> IF b \in Chain THEN 0 ELSE 1]
     IN /\ linked' = all
        /\ LoadUnlinked(have \ all)
        /\ failed' = bad
        /\ seq' = s
        /\ cands' = LoadedCandidates(s, all \ bad)
        /\ bestHeader' = LoadedBestHeader(bad)
        /\ bestInvalid' \in IF bad = {} THEN {NoBlock}
                            ELSE {x \in bad : \A y \in bad : ChainWork[y] <= ChainWork[x]}
  /\ nextSeq' = 2
  /\ reverse' = [next |-> -1, work |-> 0]
  /\ pending' = 1
  /\ pc' = "idle"
  /\ abc' = NoABC
  /\ inv' = NoInv
  /\ UNCHANGED <<index, have, txs, tip, world>>

-----------------------------------------------------------------------------
(* The specification *)

\* After LoadGenesisBlock and the activation of the genesis block
Init ==
  /\ world \in Worlds
  /\ index = {Genesis} /\ have = {Genesis} /\ txs = {Genesis} /\ linked = {Genesis}
  /\ failed = {} /\ unlinked = {} /\ earlier = {} /\ cands = {Genesis} /\ tip = Genesis
  /\ seq = [b \in Blocks |-> IF b = Genesis THEN 2 ELSE 1]
  /\ nextSeq = 3
  /\ bestHeader = Genesis /\ bestInvalid = NoBlock
  /\ reverse = [next |-> -1, work |-> 0]
  /\ pending = 0 /\ pc = "idle" /\ abc = NoABC /\ inv = NoInv

Activate ==
  \/ ABCStart \/ FindMostWorkChain \/ ABCBreak \/ ABCStep \/ ABCDisconnect
  \/ ABCConnect \/ ABCConnectInvalid \/ ABCUnlocked

Invalidate ==
  InvalidateDisconnect \/ InvalidateStuck \/ InvalidateLeave \/ InvalidateMark

Next ==
  \/ \E b \in Branches :
       \/ ProcessNewBlockHeader(b)
       \/ \E requested \in BOOLEAN : ProcessNewBlock(b, requested)
       \/ InvalidateStart(b)
       \/ ReconsiderBlock(b)
       \/ PreciousBlock(b)
       \/ PruneOneBlockFile(b)
  \/ Activate
  \/ Invalidate
  \/ Restart

Spec == Init /\ [][Next]_vars

\* A thread that is about to call ActivateBestChain gets m_chainstate_mutex, and one
\* that runs keeps running.
FairSpec == Spec /\ WF_vars(Activate)

-----------------------------------------------------------------------------
(* Properties *)

\* Types of the block index flags, the candidate set and the locals of the thread
\* inside ActivateBestChain or InvalidateBlock
TypeOK ==
  /\ linked \subseteq txs /\ txs \subseteq index /\ have \subseteq txs
  /\ index \subseteq Blocks /\ failed \subseteq index /\ cands \subseteq index
  /\ unlinked \subseteq have /\ earlier \subseteq unlinked \X unlinked
  /\ seq \in [Blocks -> Int] /\ nextSeq \in 2..MaxSeq
  /\ tip \in index /\ bestHeader \in index /\ bestInvalid \in index \cup {NoBlock}
  /\ reverse.next \in MinReverse..(-1) /\ reverse.work \in Nat
  /\ pending \in 0..MaxPending
  /\ pc \in {"idle", "abc_find", "abc_step", "abc_unlocked", "inv_loop", "inv_mark", "fatal"}
  /\ abc \in [most : index \cup {NoBlock}, start : index, old : index, moved : BOOLEAN]
  /\ inv.block \in index \cup {NoBlock} /\ inv.mark \in index \cup {NoBlock}
  /\ inv.was \in BOOLEAN /\ inv.others \subseteq index

\* When cs_main is free and no invalidation is under way CheckBlockIndex may run.
Observable == pc \in {"idle", "abc_unlocked"}

\* CheckBlockIndex, failure flags and setBlockIndexCandidates: nothing builds on an invalid
\* block unmarked; every block that is at least as good as the tip, not invalid and fully
\* downloaded is a candidate, so is the tip, and nothing that sorts below the tip or was never
\* linked is one.  (preciousblock can give two blocks the same key and is left out; section 4
\* of the README has the exceptions made here and below.)
CandidatesExact ==
  Observable /\ "precious" \notin Operator =>
    /\ \A b \in index \ failed : Anc[b] \cap failed = {}
    /\ cands \subseteq {c \in linked : ~Worse(c, tip)}
    /\ \A b \in linked \ failed :
         ~Worse(b, tip) /\ (Anc[b] \subseteq have \/ b = tip) => b \in cands

\* CheckBlockIndex, m_blocks_unlinked: a block with data waits there while an ancestor was
\* never received, or while it is better than the tip, cannot be a candidate and an ancestor
\* is pruned; a block without data or with all its ancestors' data never does.
UnlinkedExact ==
  Observable =>
    /\ unlinked \subseteq {b \in have : ~(Anc[b] \subseteq have)}
    /\ \A b \in have :
         /\ Anc[b] \cap failed = {} /\ ~(Anc[b] \subseteq have)
         /\ b \in linked => ~Worse(b, tip) /\ b \notin cands
         => b \in unlinked

\* CheckBlockIndex, m_best_header: it is not known to be invalid, and no header that is not
\* has more work, as long as invalidateblock is not used.
BestHeaderBest ==
  Observable /\ "invalidate" \notin Operator =>
    /\ bestHeader \notin failed
    /\ \A b \in index \ failed : ChainWork[b] <= ChainWork[bestHeader]

\* The active chain never holds a block that was marked invalid, that ConnectBlock
\* rejects or whose ancestors were not all received.
ActiveChainSound ==
  Chain \cap failed = {} /\ Chain \subseteq Valid \cap linked

PrunedInvalidate == {"prune", "invalidate"} \subseteq Operator

\* When every thread has returned from ActivateBestChain, no chain that could be switched
\* to (all its blocks there and not known to be invalid) has more work than the active one
\* (an invalidateblock that meets a pruned block excepted).
BestChainActive ==
  pc = "idle" /\ pending = 0 /\ ~PrunedInvalidate =>
    \A b \in linked : ChainWork[b] > ChainWork[tip] => Unusable(b) # {}

\* ActivateBestChain keeps its target over a release of cs_main without looking at it
\* again: its blocks are still there and not invalid when it goes on to connect them.
TargetStaysUsable ==
  pc = "abc_step" => Unusable(abc.most) = {}

\* ActivateBestChain gives cs_main up only with a tip at least as good as the one it
\* found: a failed reorganisation is never seen half done.
VisibleTipNeverWorse ==
  [][pc # "abc_unlocked" /\ pc' = "abc_unlocked" => ~Worse(tip', abc.start)]_vars

\* A block's sequence id, a sort key of setBlockIndexCandidates, is not rewritten by a
\* block's arrival while the block is in the set (invalidateblock on a pruned node excepted).
SortKeysStable ==
  [][nextSeq' > nextSeq /\ ~PrunedInvalidate => \A c \in cands : seq'[c] = seq[c]]_vars

\* preciousblock, as its help says, overrides earlier calls: the block comes first among
\* the blocks with its work.
PreciousOverrides ==
  [][\A b \in linked \ failed : PreciousBlock(b) =>
       \A x \in linked \ (failed \cup {b}) : ChainWork[x] = ChainWork[b] => WorseIn(seq', x, b)]_vars

\* Once a chain of valid blocks is complete, the active chain comes to have at least as
\* much work, whatever invalid branches and further blocks arrive meanwhile (and while the
\* operator does not interfere).
ValidChainActivated ==
  \A b \in Blocks :
    (b \in linked /\ Operator = {} /\ Anc[b] \subseteq Valid) ~> ChainWork[tip] >= ChainWork[b]
=============================================================================
