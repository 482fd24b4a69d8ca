-------------------------- MODULE ChainStateProofs --------------------------
(***************************************************************************)
(* Proofs about ChainState: first the block tree and the active chain, for *)
(* every setting; then links, candidates and the choice of the best chain, *)
(* on nodes that do not prune.                                             *)
(***************************************************************************)
EXTENDS ChainState, FiniteSetTheorems, WellFoundedInduction, TLAPS

Closed(S) == \A y \in S \ {Genesis} : Parent[y] \in S

\* The least set of blocks that has b and the parents of its members
Below(b) == {x \in Blocks : \A S \in SUBSET Blocks : b \in S /\ Closed(S) => x \in S}

LEMMA BelowUnfolds ==
  ASSUME NEW b \in Blocks
  PROVE  Below(b) = IF b = Genesis THEN {b} ELSE {b} \cup Below(Parent[b])
<1>1. CASE b = Genesis
  <2>1. Closed({Genesis}) /\ {Genesis} \in SUBSET Blocks
    BY TreeAssumption DEF Closed
  <2> QED BY <1>1, <2>1, TreeAssumption DEF Below
<1>2. CASE b # Genesis
  <2>0. Parent[b] \in Blocks
    BY <1>2, TreeAssumption
  <2>1. Below(b) \subseteq {b} \cup Below(Parent[b])
    <3> SUFFICES ASSUME NEW x \in Below(b), x # b, NEW S \in SUBSET Blocks, Parent[b] \in S, Closed(S)
                 PROVE  x \in S
      BY DEF Below
    <3>1. S \cup {b} \in SUBSET Blocks /\ b \in S \cup {b} /\ Closed(S \cup {b})
      BY DEF Closed
    <3> QED BY <3>1 DEF Below
  <2>2. {b} \cup Below(Parent[b]) \subseteq Below(b)
    BY <1>2, <2>0 DEF Below, Closed
  <2> QED BY <1>2, <2>1, <2>2
<1> QED BY <1>1, <1>2

LEMMA AncUnfolds ==
  ASSUME NEW b \in Blocks
  PROVE  Anc[b] = IF b = Genesis THEN {b} ELSE {b} \cup Anc[Parent[b]]
<1> DEFINE F(f) == [x \in Blocks |-> IF x = Genesis THEN {x} ELSE {x} \cup f[Parent[x]]]
           A == [x \in Blocks |-> Below(x)]
<1>1. \A x \in Blocks : x # Genesis => Parent[x] \in Blocks
  BY TreeAssumption
<1>2. A = F(A)
  BY <1>1, BelowUnfolds
<1>3. \E f : f = F(f)
  BY <1>2, Zenon
<1>4. AncOf = F(AncOf)
  <2>1. AncOf = CHOOSE f : f = F(f)
    BY DEF AncOf
  <2> HIDE DEF F
  <2> QED BY <1>3, <2>1
<1> QED BY <1>1, <1>4, Zenon DEF Anc

-----------------------------------------------------------------------------
(* The tree: induction is by a least block, which TreeAssumption gives *)

LEMMA AncBasics ==
  /\ \A b \in Blocks : Anc[b] \subseteq Blocks /\ b \in Anc[b] /\ Genesis \in Anc[b]
  /\ \A b \in Blocks \ {Genesis} : Parent[b] \in Blocks /\ Anc[b] = {b} \cup Anc[Parent[b]]
  /\ Anc[Genesis] = {Genesis}
<1>1. \A b \in Blocks \ {Genesis} : Parent[b] \in Blocks /\ Anc[b] = {b} \cup Anc[Parent[b]]
  BY TreeAssumption, AncUnfolds, Zenon
<1>2. Anc[Genesis] = {Genesis} /\ Genesis \in Blocks
  BY TreeAssumption, AncUnfolds, Zenon
<1> DEFINE S == {b \in Blocks : ~(Anc[b] \subseteq Blocks /\ b \in Anc[b] /\ Genesis \in Anc[b])}
<1>3. S = {}
  <2> SUFFICES ASSUME S # {} PROVE FALSE
    OBVIOUS
  <2>1. PICK b \in S : b = Genesis \/ Parent[b] \notin S
    BY TreeAssumption, Zenon
  <2> QED BY <1>1, <1>2, <2>1
<1> QED BY <1>1, <1>2, <1>3

LEMMA AncTransitive ==
  ASSUME NEW b \in Blocks, NEW x \in Anc[b]
  PROVE  Anc[x] \subseteq Anc[b]
<1> DEFINE S == {c \in Blocks : \E y \in Anc[c] : ~(Anc[y] \subseteq Anc[c])}
<1>1. S = {}
  <2> SUFFICES ASSUME S # {} PROVE FALSE
    OBVIOUS
  <2>1. PICK c \in S : c = Genesis \/ Parent[c] \notin S
    BY TreeAssumption, Zenon
  <2> QED BY <2>1, AncBasics
<1> QED BY <1>1

LEMMA AncLinear ==
  ASSUME NEW b \in Blocks, NEW x \in Anc[b], NEW y \in Anc[b]
  PROVE  x \in Anc[y] \/ y \in Anc[x]
<1> DEFINE S == {c \in Blocks : \E v, w \in Anc[c] : v \notin Anc[w] /\ w \notin Anc[v]}
<1>1. S = {}
  <2> SUFFICES ASSUME S # {} PROVE FALSE
    OBVIOUS
  <2>1. PICK c \in S : c = Genesis \/ Parent[c] \notin S
    BY TreeAssumption, Zenon
  <2> QED BY <2>1, AncBasics
<1> QED BY <1>1

LEMMA NotItsOwnAncestor ==
  ASSUME NEW b \in Blocks \ {Genesis}
  PROVE  b \notin Anc[Parent[b]]
<1> SUFFICES ASSUME b \in Anc[Parent[b]] PROVE FALSE
  OBVIOUS
<1> DEFINE S == {x \in Anc[Parent[b]] : b \in Anc[x]}
<1>1. Parent[b] \in S /\ S \subseteq Blocks
  BY AncBasics
<1>2. PICK x \in S : x = Genesis \/ Parent[x] \notin S
  BY <1>1, TreeAssumption, Zenon
<1>3. x # Genesis
  BY AncBasics
<1>4. Parent[x] \in Anc[Parent[b]]
  BY <1>1, <1>3, AncBasics, AncTransitive
<1>5. b \in Anc[Parent[x]]
  BY <1>1, <1>3, AncBasics
<1> QED BY <1>2, <1>3, <1>4, <1>5

\* A block that is not below x, in a chain that x belongs to, is higher.
LEMMA Higher ==
  ASSUME NEW b \in Blocks, NEW x \in Anc[b], b \notin Anc[x]
  PROVE  Height[x] < Height[b] /\ Height[x] \in Int /\ Height[b] \in Int
<1>1. x \in Blocks /\ Anc[x] \subseteq Anc[b] /\ Anc[x] # Anc[b]
  BY AncBasics, AncTransitive
<1>2. IsFiniteSet(Anc[b]) /\ IsFiniteSet(Anc[x])
  BY <1>1, AncBasics, TreeAssumption, FS_Subset
<1>3. Cardinality(Anc[x]) < Cardinality(Anc[b])
  BY <1>1, <1>2, FS_Subset, FS_CardinalityType
<1>4. Cardinality(Anc[x]) \in Nat /\ Cardinality(Anc[b]) \in Nat
  BY <1>2, FS_CardinalityType
<1> QED BY <1>1, <1>3, <1>4 DEF Height

-----------------------------------------------------------------------------
(* The invariant *)

Locals ==
  /\ world \in Worlds /\ tip \in Blocks /\ index \subseteq Blocks
  /\ abc \in [most : Blocks \cup {NoBlock}, start : Blocks, old : Blocks, moved : BOOLEAN]
  /\ inv \in [block : Blocks \cup {NoBlock}, mark : Blocks \cup {NoBlock}, was : BOOLEAN,
              others : SUBSET Blocks]

\* What was received passed ContextualCheckBlock; only what was received with all its
\* ancestors is linked, and only such blocks are candidates.
DataReceived ==
  /\ have \subseteq txs /\ txs \subseteq Checked /\ unlinked \subseteq txs
  /\ cands \subseteq linked /\ linked \subseteq txs
  /\ \A b \in linked : Anc[b] \subseteq linked

\* The target of ActivateBestChain can be connected all the way, also after cs_main was
\* given up, and the tip is then on this way.
TargetUsable ==
  /\ pc \in {"abc_find", "abc_step", "abc_unlocked"} /\ abc.most # NoBlock =>
       abc.most \in linked /\ Unusable(abc.most) = {}
  /\ pc = "abc_step" => abc.most # NoBlock
  /\ pc = "abc_unlocked" /\ abc.most # NoBlock => tip \in Anc[abc.most]

\* What InvalidateBlock is going to mark is not, or no longer, in the active chain.
MarksOffChain ==
  /\ pc \in {"inv_loop", "inv_mark"} => inv.block \in Blocks \ {Genesis} /\ inv.mark \in Blocks
  /\ pc = "inv_loop" => inv.mark = inv.block \/ inv.mark \notin Chain
  /\ pc = "inv_mark" => inv.block \notin Chain /\ inv.mark \notin Chain

IInv == Locals /\ DataReceived /\ ActiveChainSound /\ TargetUsable /\ MarksOffChain

LEMMA WorldTypes ==
  ASSUME world \in Worlds
  PROVE  /\ Branches \subseteq Blocks /\ Checked \subseteq Blocks /\ Valid \subseteq Blocks
         /\ Genesis \in Checked \cap Valid
BY WorldsAssumption DEF Branches, Checked, Valid

LEMMA InitOK == Init => IInv
<1> SUFFICES ASSUME Init PROVE IInv
  OBVIOUS
<1> USE DEF Init
<1>1. Locals
  BY TreeAssumption DEF Locals, NoABC, NoInv
<1>2. DataReceived
  BY <1>1, WorldTypes, AncBasics DEF DataReceived, Locals
<1>3. ActiveChainSound
  BY <1>1, WorldTypes, AncBasics DEF ActiveChainSound, Chain, Locals
<1> QED BY <1>1, <1>2, <1>3 DEF IInv, TargetUsable, MarksOffChain

-----------------------------------------------------------------------------
(* Facts about a state of the invariant *)

\* The active chain is closed under parents and all its blocks were received.
LEMMA ChainFacts ==
  ASSUME IInv
  PROVE  /\ tip \in Chain /\ Genesis \in Chain /\ Chain \subseteq Blocks
         /\ \A x \in Chain : Anc[x] \subseteq Chain
         /\ linked \subseteq Blocks /\ txs \subseteq Blocks
BY AncBasics, AncTransitive, WorldTypes
   DEF IInv, Locals, DataReceived, ActiveChainSound, Chain

\* Marking a block outside a chain, and what descends from it, does not touch the chain.
LEMMA MarkedOutside ==
  ASSUME NEW b, NEW c \in Blocks, b \notin Anc[c]
  PROVE  Anc[c] \cap (Descendants(b) \cup {b}) = {}
BY AncTransitive DEF Descendants

\* ReceivedBlockTransactions links whole branches.
LEMMA LinkableClosed ==
  ASSUME IInv, NEW b \in Blocks, b = Genesis \/ Parent[b] \in linked
  PROVE  /\ Linkable(b) \subseteq {b} \cup unlinked
         /\ \A x \in Linkable(b) : Anc[x] \subseteq linked \cup Linkable(b)
<1>1. Linkable(b) \subseteq {b} \cup unlinked /\ {b} \cup unlinked \subseteq Blocks
  BY ChainFacts DEF Linkable, IInv, DataReceived
<1>2. b \in Linkable(b)
  BY AncBasics DEF Linkable
<1>3. Anc[b] \subseteq linked \cup {b}
  BY AncBasics DEF IInv, DataReceived
<1>4. ASSUME NEW x \in Linkable(b), NEW y \in Anc[x], y \notin Anc[b]
      PROVE  y \in Linkable(b)
  <2>1. x \in Blocks /\ y \in Blocks /\ b \in Anc[x] /\ Anc[x] \ Anc[b] \subseteq unlinked
    BY <1>1, AncBasics DEF Linkable
  <2>2. b \in Anc[y]
    BY <1>4, <2>1, AncLinear
  <2>3. Anc[y] \subseteq Anc[x]
    BY <2>1, AncTransitive
  <2> QED BY <1>4, <2>1, <2>2, <2>3 DEF Linkable
<1> QED BY <1>1, <1>2, <1>3, <1>4

-----------------------------------------------------------------------------
(* The steps *)

LEMMA HeaderKeeps ==
  ASSUME IInv, NEW b \in Branches, ProcessNewBlockHeader(b)
  PROVE  IInv'
BY WorldTypes, SMTT(30)
   DEF ProcessNewBlockHeader, HeaderAdded, order, IInv, Locals, DataReceived, ActiveChainSound, TargetUsable,
       MarksOffChain, Chain, Unusable, Path, Checked, Valid

LEMMA BlockKeeps ==
  ASSUME IInv, NEW b \in Branches, NEW requested \in BOOLEAN, ProcessNewBlock(b, requested)
  PROVE  IInv'
<1>1. b \in Blocks /\ UNCHANGED <<tip, pc, abc, inv, world>>
  BY WorldTypes DEF ProcessNewBlock, IInv, Locals
<1>2. Locals' /\ MarksOffChain'
  BY <1>1, Zenon DEF ProcessNewBlock, HeaderAdded, Received, Rejected, IInv, Locals, MarksOffChain, Chain
<1>3. CASE ~Wanted(b, requested)
  BY <1>1, <1>2, <1>3, Zenon
     DEF ProcessNewBlock, order, IInv, DataReceived, ActiveChainSound, TargetUsable, Chain, Unusable,
         Path, Checked, Valid
<1>4. CASE Wanted(b, requested) /\ b \in Checked
  <2>1. Received(b)
    BY <1>4 DEF ProcessNewBlock
  <2>2. have' = have \cup {b} /\ txs' = txs \cup {b} /\ failed' = failed
    BY <2>1 DEF Received, ReceivedBlockTransactions
  <2>3. CASE b = Genesis \/ Parent[b] \in linked
    <3>1. /\ linked' = linked \cup Linkable(b)
          /\ cands' \subseteq cands \cup Linkable(b)
          /\ unlinked' \subseteq unlinked
      BY <2>1, <2>3, Zenon DEF Received, ReceivedBlockTransactions, EraseUnlinked, TryAdd
    <3>2. DataReceived'
      BY <1>1, <1>4, <2>2, <2>3, <3>1, LinkableClosed DEF IInv, DataReceived, Checked
    <3> QED BY <1>1, <1>2, <2>2, <3>1, <3>2
            DEF IInv, ActiveChainSound, TargetUsable, Chain, Unusable, Path, Valid
  <2>4. CASE ~(b = Genesis \/ Parent[b] \in linked)
    <3>1. linked' = linked /\ cands' = cands /\ unlinked' \subseteq unlinked \cup {b}
      BY <2>1, <2>4 DEF Received, ReceivedBlockTransactions, AddUnlinked
    <3> QED BY <1>1, <1>2, <1>4, <2>2, <3>1, Zenon
            DEF IInv, DataReceived, ActiveChainSound, TargetUsable, Chain, Unusable, Path, Checked, Valid
  <2> QED BY <2>3, <2>4
<1>5. CASE Wanted(b, requested) /\ b \notin Checked
  <2>1. /\ failed' = failed \cup Descendants(b) \cup {b} /\ cands' \subseteq cands
        /\ UNCHANGED <<have, txs, linked, unlinked>>
    BY <1>5, Zenon DEF ProcessNewBlock, Rejected
  <2>2. \A c \in linked : c \in Blocks /\ b \notin Anc[c]
    BY <1>5, ChainFacts DEF IInv, DataReceived
  <2>3. \A c \in linked : Anc[c] \cap (Descendants(b) \cup {b}) = {}
    BY <2>2, MarkedOutside
  <2>4. tip \in linked
    BY ChainFacts DEF IInv, ActiveChainSound
  <2> QED BY <1>1, <1>2, <2>1, <2>3, <2>4, Zenon
          DEF IInv, DataReceived, ActiveChainSound, TargetUsable, Chain, Unusable, Path, Checked, Valid
<1> QED BY <1>3, <1>4, <1>5

\* The steps that move neither the tip nor the marks
LEMMA QuietKeeps ==
  ASSUME IInv, ABCStart \/ ABCBreak \/ ABCStep \/ ABCUnlocked \/ InvalidateStuck \/ InvalidateLeave
  PROVE  IInv'
<1>1. UNCHANGED <<index, have, txs, linked, unlinked, failed, cands, tip, world>>
  BY DEF ABCStart, ABCBreak, ABCStep, ABCUnlocked, InvalidateStuck, InvalidateLeave, tree, marks
<1>2. DataReceived' /\ ActiveChainSound'
  BY <1>1 DEF IInv, DataReceived, ActiveChainSound, Chain, Checked, Valid
<1>3. Locals'
  <2> DEFINE A == [most : Blocks \cup {NoBlock}, start : Blocks, old : Blocks, moved : BOOLEAN]
             I == [block : Blocks \cup {NoBlock}, mark : Blocks \cup {NoBlock}, was : BOOLEAN,
                   others : SUBSET Blocks]
  <2>1. abc \in A /\ inv \in I /\ tip \in Blocks /\ NoABC \in A /\ NoInv \in I
    BY TreeAssumption DEF IInv, Locals, NoABC, NoInv
  <2>2. abc' = NoABC \/ abc' = abc \/ abc' = [abc EXCEPT !.old = tip]
        \/ abc' = [abc EXCEPT !.start = tip, !.moved = FALSE]
        \/ abc' = [most |-> NoBlock, start |-> tip, old |-> tip, moved |-> FALSE]
    BY DEF ABCStart, ABCBreak, ABCStep, ABCUnlocked, InvalidateStuck, InvalidateLeave
  <2>3. inv' = NoInv \/ inv' = inv
    BY DEF ABCStart, ABCBreak, ABCStep, ABCUnlocked, InvalidateStuck, InvalidateLeave
  <2>4. abc' \in A
    <3>1. [abc EXCEPT !.old = tip] \in A
      BY <2>1
    <3>2. [abc EXCEPT !.start = tip, !.moved = FALSE] \in A
      BY <2>1, Zenon
    <3>3. [most |-> NoBlock, start |-> tip, old |-> tip, moved |-> FALSE] \in A
      BY <2>1
    <3> HIDE DEF A
    <3> QED BY <2>1, <2>2, <3>1, <3>2, <3>3, Zenon
  <2>5. inv' \in I
    BY <2>1, <2>3
  <2> QED BY <1>1, <2>4, <2>5 DEF IInv, Locals
<1>4. TargetUsable'
  <2>1. \A c : Unusable(c)' = Unusable(c)
    BY <1>1 DEF Unusable, Path, Chain
  <2>2. CASE ABCStart
    BY <2>2, Zenon DEF ABCStart, TargetUsable
  <2>3. CASE ABCBreak
    BY <1>1, <2>1, <2>3, AncBasics, SMTT(30) DEF ABCBreak, TargetUsable, IInv, Locals
  <2>4. CASE ABCStep
    BY <1>1, <2>1, <2>4 DEF ABCStep, TargetUsable, IInv, Locals
  <2>5. CASE ABCUnlocked
    BY <1>1, <2>1, <2>5, Zenon DEF ABCUnlocked, TargetUsable, IInv, Locals
  <2>6. CASE InvalidateStuck \/ InvalidateLeave
    BY <2>6, Zenon DEF InvalidateStuck, InvalidateLeave, TargetUsable
  <2> QED BY <2>2, <2>3, <2>4, <2>5, <2>6
<1>5. MarksOffChain'
  BY <1>1
     DEF ABCStart, ABCBreak, ABCStep, ABCUnlocked, InvalidateStuck, InvalidateLeave, IInv,
         MarksOffChain, Chain
<1> QED BY <1>2, <1>3, <1>4, <1>5 DEF IInv

LEMMA FindKeeps ==
  ASSUME IInv, FindMostWorkChain
  PROVE  IInv'
<1>1. /\ pc = "abc_find" /\ abc.most = NoBlock
      /\ UNCHANGED <<index, have, txs, linked, failed, tip, pc, inv, world>>
  BY DEF FindMostWorkChain
<1>2. PICK c \in cands :
        IF Unusable(c) = {}
        THEN abc' = [abc EXCEPT !.most = c] /\ UNCHANGED <<cands, unlinked>>
        ELSE cands' \subseteq cands /\ unlinked' \subseteq unlinked \cup Anc[c] /\ UNCHANGED abc
  BY DEF FindMostWorkChain, AddUnlinked, Above, Path
<1>3. c \in linked /\ c \in Blocks /\ Anc[c] \subseteq txs
  BY ChainFacts DEF IInv, DataReceived
<1>4. Locals' /\ MarksOffChain' /\ ActiveChainSound'
  BY <1>1, <1>2, <1>3 DEF IInv, Locals, MarksOffChain, ActiveChainSound, Chain, Valid
<1>5. DataReceived'
  BY <1>1, <1>2, <1>3 DEF IInv, DataReceived, Checked
<1>6. TargetUsable'
  BY <1>1, <1>2, <1>3 DEF IInv, Locals, TargetUsable, Unusable, Path, Chain
<1> QED BY <1>4, <1>5, <1>6 DEF IInv

LEMMA DisconnectKeeps ==
  ASSUME IInv, ABCDisconnect
  PROVE  IInv'
<1>1. /\ pc = "abc_step" /\ tip \notin Anc[abc.most]
      /\ UNCHANGED <<index, have, txs, linked, unlinked, failed, cands, abc, inv, world>>
      /\ \/ tip' = Parent[tip] /\ pc' = pc
         \/ tip' = tip /\ pc' = "fatal"
  BY DEF ABCDisconnect, tree, marks
<1>2. abc.most \in linked /\ abc.most \in Blocks
  BY <1>1, ChainFacts DEF IInv, TargetUsable
<1>3. tip \in Blocks \ {Genesis}
  BY <1>1, <1>2, AncBasics DEF IInv, Locals
<1>4. Parent[tip] \in Blocks /\ Chain = {tip} \cup Anc[Parent[tip]]
  BY <1>3, AncBasics DEF Chain
<1>5. Locals' /\ DataReceived' /\ ActiveChainSound'
  BY <1>1, <1>4, Zenon DEF IInv, Locals, DataReceived, ActiveChainSound, Chain, Checked, Valid
<1>6. TargetUsable'
  BY <1>1, <1>4 DEF IInv, TargetUsable, Unusable, Path, Chain
<1>7. MarksOffChain'
  BY <1>1 DEF MarksOffChain
<1> QED BY <1>5, <1>6, <1>7 DEF IInv

LEMMA ConnectKeeps ==
  ASSUME IInv, ABCConnect
  PROVE  IInv'
<1>1. PICK x \in NextOnPath \cap Valid :
        /\ tip' = x /\ cands' \subseteq cands
        /\ UNCHANGED <<index, have, txs, linked, unlinked, failed, inv, world>>
        /\ \/ abc' = [abc EXCEPT !.most = abc.most, !.moved = TRUE] /\ pc' \in {"abc_find", "abc_unlocked"}
           \/ abc' = abc /\ pc' = pc
  BY DEF ABCConnect, StepDone, tree, marks
<1>2. pc = "abc_step" /\ x \in Anc[abc.most] \ Chain /\ Parent[x] = tip
  BY Zenon DEF ABCConnect, NextOnPath, Path
<1>3. abc.most \in linked /\ abc.most \in Blocks /\ Anc[abc.most] \subseteq linked /\ x \notin failed
  BY <1>2, ChainFacts, Zenon DEF IInv, TargetUsable, DataReceived, Unusable, Path
<1>4. x \in Blocks /\ Anc[x] = {x} \cup Chain
  BY <1>2, <1>3, AncBasics, ChainFacts, Zenon DEF Chain
<1>5. Locals'
  BY <1>1, <1>4, Zenon DEF IInv, Locals
<1>6. DataReceived' /\ ActiveChainSound'
  BY <1>1, <1>2, <1>3, <1>4 DEF IInv, DataReceived, ActiveChainSound, Chain, Checked, Valid
<1>7. abc'.most = abc.most
  BY <1>1, Zenon DEF IInv, Locals
<1>8. Unusable(abc.most)' = {} /\ tip' \in Anc[abc.most]
  BY <1>1, <1>2, <1>4, <1>7, <1>3 DEF IInv, TargetUsable, Unusable, Path, Chain
<1>9. TargetUsable'
  BY <1>1, <1>2, <1>3, <1>7, <1>8 DEF IInv, TargetUsable
<1>10. MarksOffChain'
  BY <1>1, <1>2 DEF MarksOffChain
<1> QED BY <1>5, <1>6, <1>9, <1>10 DEF IInv

LEMMA ConnectInvalidKeeps ==
  ASSUME IInv, ABCConnectInvalid
  PROVE  IInv'
<1>1. PICK x \in NextOnPath \ Valid :
        /\ failed' = failed \cup {x} \cup (Descendants(x) \ {x}) /\ cands' \subseteq cands
        /\ UNCHANGED <<index, have, txs, linked, unlinked, tip, inv, world>>
        /\ abc' = [abc EXCEPT !.most = NoBlock, !.moved = TRUE] /\ pc' \in {"abc_find", "abc_unlocked"}
  BY DEF ABCConnectInvalid, InvalidChainFound, StepDone, tree
<1>2. x \notin Anc[tip] /\ tip \in Blocks
  BY DEF NextOnPath, Path, Chain, IInv, Locals
<1>3. Chain \cap (Descendants(x) \cup {x}) = {}
  BY <1>2, MarkedOutside DEF Chain
<1>4. Locals' /\ abc'.most = NoBlock
  BY <1>1, Zenon DEF IInv, Locals
<1>5. DataReceived' /\ ActiveChainSound'
  BY <1>1, <1>3 DEF IInv, DataReceived, ActiveChainSound, Chain, Checked, Valid
<1>6. TargetUsable' /\ MarksOffChain'
  BY <1>1, <1>4 DEF TargetUsable, MarksOffChain
<1> QED BY <1>4, <1>5, <1>6 DEF IInv

LEMMA InvalidateStartKeeps ==
  ASSUME IInv, NEW b \in Branches, InvalidateStart(b)
  PROVE  IInv'
<1>1. /\ pc' = "inv_loop" /\ b \in Blocks \ {Genesis}
      /\ UNCHANGED <<index, have, txs, linked, unlinked, failed, cands, tip, abc, world>>
      /\ inv'.block = b /\ inv'.mark = b
  BY WorldTypes, Zenon DEF InvalidateStart, tree, marks, IInv, Locals
<1>2. Locals'
  BY <1>1, Zenon DEF InvalidateStart, IInv, Locals
<1>3. DataReceived' /\ ActiveChainSound'
  BY <1>1, Zenon DEF IInv, DataReceived, ActiveChainSound, Chain, Checked, Valid
<1> QED BY <1>1, <1>2, <1>3, Zenon DEF IInv, TargetUsable, MarksOffChain

LEMMA InvalidateDisconnectKeeps ==
  ASSUME IInv, InvalidateDisconnect
  PROVE  IInv'
<1> DEFINE new == Parent[tip]
           seen == {x \in inv.others : ChainWork[x] >= ChainWork[new]}
           gone == {x \in seen : tip \in Anc[x]}
<1>1. /\ pc = "inv_loop" /\ pc' = pc /\ inv.block \in Chain /\ tip' = new
      /\ failed' = failed \cup {tip} \cup gone
      /\ cands' \subseteq cands \cup {new} \cup linked
      /\ inv' = [inv EXCEPT !.mark = tip, !.was = TRUE, !.others = @ \ gone]
      /\ UNCHANGED <<index, have, txs, linked, unlinked, abc, world>>
  BY DEF InvalidateDisconnect, tree
<1>2. tip \in Blocks \ {Genesis}
  BY <1>1, AncBasics DEF IInv, Locals, MarksOffChain, Chain
<1>3. new \in Blocks /\ Chain = {tip} \cup Anc[new] /\ tip \notin Anc[new] /\ new \in Anc[new]
  BY <1>2, AncBasics, NotItsOwnAncestor DEF Chain
<1>4. Anc[new] \cap gone = {}
  BY <1>3, AncTransitive
<1>5. Locals' /\ inv'.block = inv.block /\ inv'.mark = tip
  BY <1>1, <1>2, <1>3, Zenon DEF IInv, Locals
<1>6. DataReceived' /\ ActiveChainSound'
  BY <1>1, <1>3, <1>4 DEF IInv, DataReceived, ActiveChainSound, Chain, Checked, Valid
<1>7. TargetUsable' /\ MarksOffChain'
  BY <1>1, <1>2, <1>3, <1>5 DEF IInv, TargetUsable, MarksOffChain, Chain
<1> QED BY <1>5, <1>6, <1>7 DEF IInv

LEMMA InvalidateMarkKeeps ==
  ASSUME IInv, InvalidateMark
  PROVE  IInv'
<1>1. /\ pc = "inv_mark" /\ pc' = "idle" /\ inv' = NoInv
      /\ failed' \subseteq failed \cup {inv.block} \cup Descendants(inv.mark)
      /\ cands' \subseteq cands \cup linked
      /\ UNCHANGED <<index, have, txs, linked, unlinked, tip, abc, world>>
  BY Zenon DEF InvalidateMark, InvalidChainFound, tree
<1>2. Chain \cap Descendants(inv.mark) = {} /\ inv.block \notin Chain
  BY <1>1, MarkedOutside, Zenon DEF IInv, Locals, MarksOffChain, Chain
<1>3. Locals'
  BY <1>1, TreeAssumption, Zenon DEF IInv, Locals, NoInv
<1>4. DataReceived' /\ ActiveChainSound'
  BY <1>1, <1>2, Zenon DEF IInv, DataReceived, ActiveChainSound, Chain, Checked, Valid
<1> QED BY <1>1, <1>3, <1>4, Zenon DEF IInv, TargetUsable, MarksOffChain

LEMMA ReconsiderKeeps ==
  ASSUME IInv, NEW b \in Branches, ReconsiderBlock(b)
  PROVE  IInv'
<1>1. /\ failed' \subseteq failed /\ cands' \subseteq cands \cup linked
      /\ UNCHANGED <<index, have, txs, linked, unlinked, tip, pc, abc, inv, world>>
  BY Zenon DEF ReconsiderBlock, tree
<1> QED BY <1>1, Zenon DEF IInv, Locals, DataReceived, ActiveChainSound, TargetUsable, MarksOffChain, Chain,
                    Unusable, Path, Checked, Valid

LEMMA PreciousKeeps ==
  ASSUME IInv, NEW b \in Branches, PreciousBlock(b)
  PROVE  IInv'
<1>1. /\ cands' \subseteq cands \cup linked
      /\ UNCHANGED <<index, have, txs, linked, unlinked, failed, tip, pc, abc, inv, world>>
  BY Zenon DEF PreciousBlock, tree, marks
<1> QED BY <1>1, SMTT(30) DEF IInv, Locals, DataReceived, ActiveChainSound, TargetUsable, MarksOffChain, Chain,
                    Unusable, Path, Checked, Valid

\* What is pruned is too low to be on the way from the tip to the target.
LEMMA PruneKeeps ==
  ASSUME IInv, NEW b \in Branches, PruneOneBlockFile(b)
  PROVE  IInv'
<1>1. /\ have' = have \ {b} /\ unlinked' \subseteq unlinked
      /\ UNCHANGED <<index, txs, linked, failed, cands, tip, pc, abc, inv, world>>
      /\ pc \notin {"abc_find", "abc_step"}
      /\ b \in Blocks
  BY WorldTypes, Zenon DEF PruneOneBlockFile, EraseUnlinked, marks, CsFree, IInv, Locals
<1>2. ASSUME pc = "abc_unlocked", abc.most # NoBlock
      PROVE  b \notin Path(abc.most)
  <2> SUFFICES ASSUME b \in Anc[abc.most], b \notin Anc[tip] PROVE FALSE
    BY DEF Path, Chain
  <2>1. abc.most \in Blocks /\ tip \in Anc[abc.most]
    BY <1>2, ChainFacts, Zenon DEF IInv, TargetUsable
  <2>2. tip \in Anc[b]
    BY <2>1, AncLinear, Zenon
  <2>3. Height[tip] < Height[b] /\ Height[tip] \in Int /\ Height[b] \in Int
    BY <1>1, <2>2, Higher
  <2>4. Height[b] + KeepBlocks <= Height[tip] /\ KeepBlocks \in Nat
    BY WorldsAssumption, Zenon DEF PruneOneBlockFile, IInv, Locals, KeepBlocks
  <2> QED BY <2>3, <2>4
<1>3. TargetUsable'
  BY <1>1, <1>2, Zenon DEF IInv, TargetUsable, Unusable, Path, Chain
<1> QED BY <1>1, <1>3, Zenon DEF IInv, Locals, DataReceived, ActiveChainSound, MarksOffChain, Chain, Checked, Valid

LEMMA RestartKeeps ==
  ASSUME IInv, Restart
  PROVE  IInv'
<1> DEFINE all == {x \in txs : Anc[x] \subseteq txs}
           bad == {x \in index : Anc[x] \cap failed # {}}
<1>1. /\ linked' = all /\ unlinked' = have \ all /\ failed' = bad /\ cands' \subseteq all
      /\ pc' = "idle" /\ abc' = NoABC /\ inv' = NoInv
      /\ UNCHANGED <<index, have, txs, tip, world>>
  BY Zenon DEF Restart, LoadUnlinked, LoadedCandidates
<1>2. Locals'
  BY <1>1, TreeAssumption, Zenon DEF IInv, Locals, NoABC, NoInv
<1>3. \A b \in all : Anc[b] \subseteq all
  BY AncTransitive, ChainFacts
<1>4. Chain \subseteq all /\ Chain \cap bad = {}
  BY ChainFacts DEF IInv, DataReceived, ActiveChainSound
<1>5. DataReceived' /\ ActiveChainSound'
  BY <1>1, <1>3, <1>4, Zenon DEF IInv, DataReceived, ActiveChainSound, Chain, Checked, Valid
<1> QED BY <1>1, <1>2, <1>5, Zenon DEF IInv, TargetUsable, MarksOffChain

-----------------------------------------------------------------------------
(* The theorems *)

LEMMA NextKeeps == IInv /\ [Next]_vars => IInv'
<1> SUFFICES ASSUME IInv, [Next]_vars PROVE IInv'
  OBVIOUS
<1>1. CASE UNCHANGED vars
  BY <1>1, SMTT(30) DEF vars, tree, marks, IInv, Locals, DataReceived, ActiveChainSound, TargetUsable,
              MarksOffChain, Chain, Unusable, Path, Checked, Valid
<1>2. ASSUME NEW b \in Branches,
             \/ ProcessNewBlockHeader(b)
             \/ \E requested \in BOOLEAN : ProcessNewBlock(b, requested)
             \/ InvalidateStart(b)
             \/ ReconsiderBlock(b)
             \/ PreciousBlock(b)
             \/ PruneOneBlockFile(b)
      PROVE  IInv'
  BY <1>2, HeaderKeeps, BlockKeeps, InvalidateStartKeeps, ReconsiderKeeps, PreciousKeeps, PruneKeeps
<1>3. CASE Activate
  BY <1>3, QuietKeeps, FindKeeps, DisconnectKeeps, ConnectKeeps, ConnectInvalidKeeps DEF Activate
<1>4. CASE Invalidate
  BY <1>4, QuietKeeps, InvalidateDisconnectKeeps, InvalidateMarkKeeps DEF Invalidate
<1>5. CASE Restart
  BY <1>5, RestartKeeps
<1> QED BY <1>1, <1>2, <1>3, <1>4, <1>5 DEF Next

LEMMA InvariantHolds == Spec => []IInv
<1> QED BY InitOK, NextKeeps, PTL DEF Spec

\* The active chain is sound in every block tree: through reorganisations, a block found
\* invalid while it is connected, invalidateblock, reconsiderblock, preciousblock, pruning and
\* restarts, it never holds a block that is marked invalid, that ConnectBlock rejects or that
\* lacks a received ancestor.
THEOREM ActiveChainAlwaysSound == Spec => []ActiveChainSound
<1>1. IInv => ActiveChainSound
  BY DEF IInv
<1> QED BY <1>1, InvariantHolds, PTL

\* ActivateBestChain may trust the target it kept over a release of cs_main, in every block
\* tree and for every pruning depth: nothing that runs in between, pruning included, makes a
\* block on the way to it unusable.
THEOREM TargetAlwaysUsable == Spec => []TargetStaysUsable
<1>1. IInv => TargetStaysUsable
  BY DEF IInv, TargetUsable, TargetStaysUsable
<1> QED BY <1>1, InvariantHolds, PTL

-----------------------------------------------------------------------------
(* Extremes *)

LEMMA LeastNat ==
  ASSUME NEW S \in SUBSET Nat, S # {}
  PROVE  \E n \in S : \A m \in S : n <= m
<1> DEFINE R == {ss \in Nat \X Nat : ss[1] < ss[2]}
<1>1. IsWellFoundedOn(R, Nat)
  BY NatLessThanWellFounded DEF OpToRel
<1>2. \E n \in S : \A m \in S : ~(<<m, n>> \in R)
  <2> HIDE DEF R
  <2> QED BY <1>1, WFMin, Zenon
<1>3. PICK n \in S : \A m \in S : ~(<<m, n>> \in R)
  BY <1>2
<1>4. ASSUME NEW m \in S PROVE n <= m
  <2>1. m \in Nat /\ n \in Nat
    OBVIOUS
  <2>2. ~(m < n)
    BY <1>3, <2>1, Zenon
  <2> QED BY <2>1, <2>2
<1> QED BY <1>4

\* A set of blocks has a member where f is greatest: one with the fewest above it.
LEMMA GreatestExists ==
  ASSUME NEW f \in [Blocks -> Int], NEW S \in SUBSET Blocks, S # {}
  PROVE  \E x \in S : \A y \in S : f[y] <= f[x]
<1> DEFINE Over(x) == {y \in S : f[y] > f[x]}
           N == {Cardinality(Over(x)) : x \in S}
<1>1. \A x \in S : IsFiniteSet(Over(x)) /\ Cardinality(Over(x)) \in Nat
  <2>1. \A x \in S : Over(x) \subseteq Blocks
    OBVIOUS
  <2>2. \A x \in S : IsFiniteSet(Over(x))
    BY <2>1, TreeAssumption, FS_Subset, Zenon
  <2> QED BY <2>2, FS_CardinalityType
<1>2. PICK n \in N : \A m \in N : n <= m
  <2>1. N \in SUBSET Nat /\ N # {}
    BY <1>1, Zenon
  <2> HIDE DEF N
  <2> QED BY <2>1, LeastNat
<1>3. PICK x \in S : n = Cardinality(Over(x))
  BY Zenon
<1>4. ASSUME NEW y \in S, f[y] > f[x] PROVE FALSE
  <2>1. Over(y) \subseteq Over(x) /\ y \in Over(x) /\ y \notin Over(y)
    BY <1>4
  <2>2. Cardinality(Over(y)) < Cardinality(Over(x))
    <3>1. Over(y) # Over(x)
      BY <2>1
    <3> HIDE DEF Over
    <3> QED BY <1>1, <2>1, <3>1, FS_Subset, SMTT(30)
  <2>3. Cardinality(Over(x)) <= Cardinality(Over(y))
    BY <1>2, <1>3, Zenon
  <2>4. Cardinality(Over(x)) \in Nat /\ Cardinality(Over(y)) \in Nat
    BY <1>1, Zenon
  <2> HIDE DEF Over
  <2> QED BY <2>2, <2>3, <2>4, SMTT(30)
<1> QED BY <1>4

-----------------------------------------------------------------------------
(* The work of a chain *)

\* f adds up the work of b's chain.
Sums(b, f) ==
  /\ f \in [Anc[b] -> Nat]
  /\ \A x \in Anc[b] : f[x] = Proof[x] + (IF x = Genesis THEN 0 ELSE f[Parent[x]])

LEMMA SumsExist == \A b \in Blocks : \E f : Sums(b, f)
<1> DEFINE S == {b \in Blocks : ~\E f : Sums(b, f)}
<1>1. S = {}
  <2> SUFFICES ASSUME S # {} PROVE FALSE
    OBVIOUS
  <2>1. PICK b \in S : b = Genesis \/ Parent[b] \notin S
    BY TreeAssumption, Zenon
  <2>2. Proof[b] \in Nat
    BY TreeAssumption, Zenon
  <2>3. b # Genesis
    <3> SUFFICES ASSUME b = Genesis PROVE FALSE
      OBVIOUS
    <3>1. Sums(b, [x \in {Genesis} |-> Proof[Genesis]])
      BY <2>2, AncBasics, SMTT(30) DEF Sums
    <3> QED BY <3>1
  <2>4. Parent[b] \in Blocks /\ Anc[b] = {b} \cup Anc[Parent[b]] /\ b \notin Anc[Parent[b]]
    BY <2>3, AncBasics, NotItsOwnAncestor, Zenon
  <2>5. PICK g : Sums(Parent[b], g)
    BY <2>1, <2>3, <2>4, Zenon
  <2> DEFINE f == [x \in Anc[b] |-> IF x = b THEN Proof[b] + g[Parent[b]] ELSE g[x]]
  <2>6. Parent[b] \in Anc[Parent[b]] /\ g[Parent[b]] \in Nat
    BY <2>4, <2>5, AncBasics, Zenon DEF Sums
  <2>7. f \in [Anc[b] -> Nat]
    BY <2>2, <2>4, <2>5, <2>6, SMTT(30) DEF Sums
  <2>8. f[b] = Proof[b] + f[Parent[b]]
    BY <2>4, <2>6, Zenon
  <2>9. ASSUME NEW x \in Anc[Parent[b]]
        PROVE  f[x] = Proof[x] + (IF x = Genesis THEN 0 ELSE f[Parent[x]])
    <3>1. f[x] = Proof[x] + (IF x = Genesis THEN 0 ELSE g[Parent[x]])
      BY <2>4, <2>5, Zenon DEF Sums
    <3>2. x # Genesis => Parent[x] \in Anc[Parent[b]]
      BY <2>4, AncBasics, AncTransitive, SMTT(30)
    <3> QED BY <2>4, <3>1, <3>2, Zenon
  <2>10. Sums(b, f)
    <3> HIDE DEF f
    <3> QED BY <2>3, <2>4, <2>7, <2>8, <2>9, Zenon DEF Sums
  <2> QED BY <2>10
<1> QED BY <1>1

LEMMA SumsUnique ==
  ASSUME NEW b \in Blocks, NEW c \in Blocks, NEW f, NEW g, Sums(b, f), Sums(c, g),
         NEW x \in Anc[b] \cap Anc[c]
  PROVE  f[x] = g[x]
<1> DEFINE S == {y \in Anc[b] \cap Anc[c] : f[y] # g[y]}
<1>1. S = {}
  <2> SUFFICES ASSUME S # {} PROVE FALSE
    OBVIOUS
  <2>1. S \in SUBSET Blocks
    BY AncBasics, Zenon
  <2>2. PICK y \in S : y = Genesis \/ Parent[y] \notin S
    BY <2>1, TreeAssumption, Zenon
  <2>3. y # Genesis => Parent[y] \in Anc[b] \cap Anc[c]
    <3>1. y \in Blocks /\ Anc[y] \subseteq Anc[b] /\ Anc[y] \subseteq Anc[c]
      BY <2>1, AncTransitive, Zenon
    <3> QED BY <3>1, AncBasics, Zenon
  <2> QED BY <2>2, <2>3, Zenon DEF Sums
<1> QED BY <1>1, Zenon

\* nChainWork = pprev->nChainWork + GetBlockProof
LEMMA WorkUnfolds ==
  /\ ChainWork \in [Blocks -> Nat]
  /\ \A b \in Blocks \ {Genesis} : ChainWork[b] = Proof[b] + ChainWork[Parent[b]]
<1> DEFINE F(w) == [b \in Blocks |-> Proof[b] + (IF b = Genesis THEN 0 ELSE w[Parent[b]])]
           sum(b) == CHOOSE f : Sums(b, f)
           W == [b \in Blocks |-> sum(b)[b]]
<1>1. \A b \in Blocks : Sums(b, sum(b))
  BY SumsExist
<1>2. ASSUME NEW b \in Blocks
      PROVE  W[b] \in Nat /\ W[b] = Proof[b] + (IF b = Genesis THEN 0 ELSE W[Parent[b]])
  <2>1. b \in Anc[b] /\ Sums(b, sum(b))
    BY <1>1, AncBasics, Zenon
  <2>2. sum(b)[b] = Proof[b] + (IF b = Genesis THEN 0 ELSE sum(b)[Parent[b]]) /\ sum(b)[b] \in Nat
    <3> HIDE DEF sum
    <3> QED BY <2>1, Zenon DEF Sums
  <2>3. CASE b = Genesis
    BY <2>2, <2>3, Zenon
  <2>4. CASE b # Genesis
    <3>1. Parent[b] \in Blocks /\ Parent[b] \in Anc[b] \cap Anc[Parent[b]]
      BY <2>4, AncBasics
    <3>2. Sums(Parent[b], sum(Parent[b]))
      BY <1>1, <3>1
    <3>3. sum(b)[Parent[b]] = sum(Parent[b])[Parent[b]]
      <4> HIDE DEF sum
      <4> QED BY <2>1, <3>1, <3>2, SumsUnique, SMTT(30)
    <3> QED BY <2>2, <2>4, <3>1, <3>3, SMTT(30)
  <2> QED BY <2>3, <2>4, Zenon
<1>3. W = F(W)
  <2> HIDE DEF sum
  <2>1. \A b \in Blocks : W[b] = Proof[b] + (IF b = Genesis THEN 0 ELSE W[Parent[b]])
    BY <1>2, Zenon
  <2> QED BY <2>1
<1>4. WorkOf = F(WorkOf)
  <2>1. WorkOf = CHOOSE w : w = F(w)
    BY DEF WorkOf
  <2>2. \E w : w = F(w)
    BY <1>3, Zenon
  <2> HIDE DEF F
  <2> QED BY <2>1, <2>2
<1>5. \A b \in Blocks : ChainWork[b] = Proof[b] + (IF b = Genesis THEN 0 ELSE ChainWork[Parent[b]])
  <2>1. \A b \in Blocks : b # Genesis => Parent[b] \in Blocks
    BY TreeAssumption
  <2> QED BY <1>4, <2>1, Zenon DEF ChainWork
<1> DEFINE S == {b \in Blocks : ChainWork[b] \notin Nat}
<1>6. S = {}
  <2> SUFFICES ASSUME S # {} PROVE FALSE
    OBVIOUS
  <2>1. PICK b \in S : b = Genesis \/ Parent[b] \notin S
    BY TreeAssumption, Zenon
  <2> QED BY <1>5, <2>1, TreeAssumption
<1>7. ChainWork = [b \in Blocks |-> WorkOf[b]]
  BY DEF ChainWork
<1> QED BY <1>5, <1>6, <1>7, Zenon

\* A block has more work than each of its ancestors.
LEMMA MoreWork ==
  ASSUME NEW b \in Blocks, NEW x \in Anc[b], x # b
  PROVE  ChainWork[x] < ChainWork[b]
<1> DEFINE S == {c \in Blocks : \E y \in Anc[c] : y # c /\ ~(ChainWork[y] < ChainWork[c])}
<1>1. S = {}
  <2> SUFFICES ASSUME S # {} PROVE FALSE
    OBVIOUS
  <2>1. PICK c \in S : c = Genesis \/ Parent[c] \notin S
    BY TreeAssumption, Zenon
  <2>2. PICK y \in Anc[c] : y # c /\ ~(ChainWork[y] < ChainWork[c])
    BY <2>1
  <2>3. c # Genesis /\ Parent[c] \in Blocks /\ y \in Anc[Parent[c]] /\ y \in Blocks
    BY <2>2, AncBasics, SMTT(30)
  <2>4. y = Parent[c] \/ ChainWork[y] < ChainWork[Parent[c]]
    BY <2>1, <2>3, Zenon
  <2>5. ChainWork[c] = Proof[c] + ChainWork[Parent[c]] /\ Proof[c] \in Nat \ {0}
    BY <2>3, WorkUnfolds, TreeAssumption, Zenon
  <2>6. ChainWork[c] \in Nat /\ ChainWork[y] \in Nat /\ ChainWork[Parent[c]] \in Nat
    BY <2>3, WorkUnfolds, Zenon
  <2> QED BY <2>2, <2>4, <2>5, <2>6, SMTT(30)
<1> QED BY <1>1

-----------------------------------------------------------------------------
(* CBlockIndexWorkComparator is a total order. *)

LEMMA OrderTotal ==
  ASSUME NEW s \in [Blocks -> Int]
  PROVE  /\ \A a \in Blocks : ~WorseIn(s, a, a)
         /\ \A a, b \in Blocks : a = b \/ WorseIn(s, a, b) \/ WorseIn(s, b, a)
         /\ \A a, b \in Blocks : ~(WorseIn(s, a, b) /\ WorseIn(s, b, a))
         /\ \A a, b, c \in Blocks : WorseIn(s, a, b) /\ WorseIn(s, b, c) => WorseIn(s, a, c)
         /\ \A a, b \in Blocks : WorseIn(s, a, b) => ChainWork[a] <= ChainWork[b]
<1>1. \A a \in Blocks : ChainWork[a] \in Nat /\ s[a] \in Int /\ Addr[a] \in Nat
  BY WorkUnfolds, TreeAssumption
<1>2. \A a, b \in Blocks : Addr[a] = Addr[b] => a = b
  BY TreeAssumption
<1> QED BY <1>1, <1>2, SMTT(30) DEF WorseIn

LEMMA BestExists ==
  ASSUME NEW s \in [Blocks -> Int], NEW S \in SUBSET Blocks, S # {}
  PROVE  \E h \in S : \A x \in S \ {h} : WorseIn(s, x, h)
<1> DEFINE early == [b \in Blocks |-> 0 - s[b]]
           low == [b \in Blocks |-> 0 - Addr[b]]
<1>1. \A b \in Blocks : ChainWork[b] \in Nat /\ s[b] \in Int /\ Addr[b] \in Nat
  BY WorkUnfolds, TreeAssumption
<1>2. ChainWork \in [Blocks -> Int] /\ early \in [Blocks -> Int] /\ low \in [Blocks -> Int]
  BY <1>1, WorkUnfolds
<1>3. PICK x1 \in S : \A y \in S : ChainWork[y] <= ChainWork[x1]
  BY <1>2, GreatestExists
<1> DEFINE S1 == {x \in S : ChainWork[x] = ChainWork[x1]}
<1>4. PICK x2 \in S1 : \A y \in S1 : early[y] <= early[x2]
  <2>1. S1 \in SUBSET Blocks /\ S1 # {}
    OBVIOUS
  <2> HIDE DEF S1, early
  <2> QED BY <1>2, <2>1, GreatestExists, Zenon
<1> DEFINE S2 == {x \in S1 : s[x] = s[x2]}
<1>5. PICK h \in S2 : \A y \in S2 : low[y] <= low[h]
  <2>1. S2 \in SUBSET Blocks /\ S2 # {}
    OBVIOUS
  <2> HIDE DEF S2, low
  <2> QED BY <1>2, <2>1, GreatestExists, Zenon
<1>6. ASSUME NEW x \in S \ {h} PROVE WorseIn(s, x, h)
  <2>1. x \in Blocks /\ h \in Blocks /\ x1 \in Blocks /\ x2 \in Blocks
    OBVIOUS
  <2>2. ChainWork[h] = ChainWork[x1] /\ s[h] = s[x2] /\ ChainWork[x] <= ChainWork[x1]
    BY <1>3, Zenon
  <2>3. ChainWork[x] = ChainWork[x1] => s[x] >= s[x2]
    <3> SUFFICES ASSUME ChainWork[x] = ChainWork[x1] PROVE s[x] >= s[x2]
      BY Zenon
    <3>1. early[x] <= early[x2] /\ early[x] = 0 - s[x] /\ early[x2] = 0 - s[x2]
      BY <1>4, <2>1, Zenon
    <3>2. s[x] \in Int /\ s[x2] \in Int
      BY <2>1, Zenon
    <3> QED BY <3>1, <3>2, SMTT(30)
  <2>4. ChainWork[x] = ChainWork[x1] /\ s[x] = s[x2] => Addr[x] >= Addr[h]
    <3> SUFFICES ASSUME ChainWork[x] = ChainWork[x1], s[x] = s[x2] PROVE Addr[x] >= Addr[h]
      BY Zenon
    <3>1. low[x] <= low[h] /\ low[x] = 0 - Addr[x] /\ low[h] = 0 - Addr[h]
      BY <1>5, <2>1, Zenon
    <3>2. Addr[x] \in Nat /\ Addr[h] \in Nat
      BY <1>1, <2>1, Zenon
    <3> QED BY <3>1, <3>2, SMTT(30)
  <2>5. Addr[x] # Addr[h]
    BY <2>1, TreeAssumption, Zenon
  <2> QED BY <1>1, <2>1, <2>2, <2>3, <2>4, <2>5, SMTT(30) DEF WorseIn
<1> QED BY <1>6

\* A scan for more work that starts at a member of S ends at one with the most work.
LEMMA MostWorkIsMost ==
  ASSUME NEW S \in SUBSET Blocks, NEW from \in S, NEW h \in MostWork(S, from)
  PROVE  h \in S /\ \A y \in S : ChainWork[y] <= ChainWork[h]
<1>1. \A y \in S : ChainWork[y] \in Nat
  BY WorkUnfolds
<1>2. PICK x \in S : \A y \in S : ChainWork[y] <= ChainWork[x]
  <2>1. ChainWork \in [Blocks -> Int]
    BY WorkUnfolds, SMTT(30)
  <2> QED BY <2>1, GreatestExists
<1> QED BY <1>1, <1>2 DEF MostWork

-----------------------------------------------------------------------------
(* The best header *)

Searching == pc \in {"abc_find", "abc_step"}
Invalidating == pc \in {"inv_loop", "inv_mark"}

\* InvalidateBlock runs when the operator asks for it, works on one block, and is followed by an
\* ActivateBestChain.
InvalidateRuns ==
  Invalidating => /\ "invalidate" \in Operator /\ pending > 0 /\ inv.block \in index
                  /\ inv.mark = inv.block \/ inv.block \in Chain

\* What is marked or received has a known header.
Basics ==
  /\ failed \subseteq index /\ txs \subseteq index /\ bestHeader \in index
  /\ seq \in [Blocks -> Int] /\ nextSeq \in Nat \ {0, 1} /\ reverse.next \in Int /\ pending \in Nat
  /\ InvalidateRuns /\ inv.others \subseteq index

HeaderFound ==
  "invalidate" \notin Operator =>
    bestHeader \notin failed /\ \A b \in index \ failed : ChainWork[b] <= ChainWork[bestHeader]

LEMMA TipFacts ==
  ASSUME IInv, Basics
  PROVE  tip \in linked /\ tip \in index /\ tip \notin failed /\ index \subseteq Blocks
BY ChainFacts, Zenon DEF IInv, Locals, ActiveChainSound, DataReceived, Basics

\* No step marks the tip it leaves in place.
LEMMA TipNotMarked ==
  ASSUME IInv, IInv', tip' = tip
  PROVE  tip \notin failed'
BY ChainFacts, Zenon DEF IInv, ActiveChainSound, Chain

LEMMA BasicsInit == Init => Basics /\ HeaderFound
<1> SUFFICES ASSUME Init PROVE Basics /\ HeaderFound
  OBVIOUS
<1>1. ChainWork[Genesis] \in Nat
  BY WorkUnfolds, TreeAssumption, Zenon
<1> QED BY <1>1, SMTT(30) DEF Init, NoInv, Basics, HeaderFound, InvalidateRuns, Invalidating

LEMMA BlockBasics ==
  ASSUME IInv, Basics, HeaderFound, IInv', NEW b \in Branches,
         ProcessNewBlockHeader(b) \/ \E requested \in BOOLEAN : ProcessNewBlock(b, requested)
  PROVE  Basics' /\ HeaderFound'
<1>1. /\ UNCHANGED <<tip, pc, abc, inv, world, reverse>> /\ AcceptsHeader(b) /\ b \in Blocks
      /\ pending' = pending \/ pending' = pending + 1
  BY WorldTypes, Zenon
     DEF ProcessNewBlockHeader, ProcessNewBlock, Received, Rejected, order, IInv, Locals
<1>2. ChainWork \in [Blocks -> Nat] /\ index \subseteq Blocks
  BY WorkUnfolds, Zenon DEF IInv, Locals
<1>3. index \subseteq index'
  BY Zenon DEF ProcessNewBlockHeader, ProcessNewBlock, Received, Rejected, HeaderAdded
<1>4. InvalidateRuns' /\ inv'.others \subseteq index' /\ pending' \in Nat /\ reverse'.next \in Int
  <2>1. pending' \in Nat /\ (pending > 0 => pending' > 0)
    <3>1. pending \in Nat
      BY Zenon DEF Basics
    <3> QED BY <1>1, <3>1
  <2>2. InvalidateRuns'
    BY <1>1, <1>3, <2>1, Zenon DEF Basics, InvalidateRuns, Invalidating, Operator, Chain
  <2>3. inv'.others \subseteq index' /\ reverse'.next \in Int
    BY <1>1, <1>3, Zenon DEF Basics
  <2> QED BY <2>1, <2>2, <2>3
<1>5. CASE HeaderAdded(b) /\ failed' = failed
  <2>1. failed' \subseteq index' /\ bestHeader' \in index' /\ HeaderFound'
    BY <1>1, <1>2, <1>5, SMTT(30) DEF HeaderAdded, HeaderBest, AcceptsHeader, Basics, HeaderFound, Operator
  <2>2. txs' \subseteq index'
    BY <1>1, <1>5, Zenon
       DEF ProcessNewBlockHeader, ProcessNewBlock, HeaderAdded, Received, Rejected,
           ReceivedBlockTransactions, Basics
  <2>3. seq' \in [Blocks -> Int] /\ nextSeq' \in Nat \ {0, 1}
    <3>1. CASE seq' = seq /\ nextSeq' = nextSeq
      BY <3>1 DEF Basics
    <3>2. CASE Received(b) /\ (b = Genesis \/ Parent[b] \in linked)
      <4> DEFINE L == Linkable(b)
                 before == DequeuedBefore(L)
                 n(x) == Cardinality({y \in L : before[<<y, x>>]})
      <4>1. L \subseteq Blocks
        BY <1>1, ChainFacts, LinkableClosed, <3>2, Zenon DEF IInv, DataReceived
      <4>2. \A x : IsFiniteSet({y \in L : before[<<y, x>>]}) /\ IsFiniteSet(L)
        <5> HIDE DEF L, before
        <5>1. \A x : {y \in L : before[<<y, x>>]} \subseteq Blocks
          BY <4>1
        <5> QED BY <4>1, <5>1, TreeAssumption, FS_Subset, Zenon
      <4>3. \A x : n(x) \in Nat /\ Cardinality(L) \in Nat
        <5> HIDE DEF L, before
        <5> QED BY <4>2, FS_CardinalityType, Zenon
      <4>4. /\ seq' = [x \in Blocks |-> IF x \in L THEN nextSeq + n(x) ELSE seq[x]]
            /\ nextSeq' = nextSeq + Cardinality(L)
        BY <3>2, Zenon DEF Received, ReceivedBlockTransactions
      <4> HIDE DEF L, n
      <4>5. seq \in [Blocks -> Int] /\ nextSeq \in Nat \ {0, 1}
        BY Zenon DEF Basics
      <4> QED BY <4>3, <4>4, <4>5, SMTT(30)
    <3>3. CASE Received(b) /\ ~(b = Genesis \/ Parent[b] \in linked)
      BY <3>1, <3>3, Zenon DEF Received, ReceivedBlockTransactions
    <3>4. CASE ~Received(b)
      <4>1. UNCHANGED <<seq, nextSeq>>
        BY <3>4, Zenon DEF ProcessNewBlockHeader, ProcessNewBlock, Rejected, order
      <4> QED BY <4>1, Zenon DEF Basics
    <3> QED BY <3>2, <3>3, <3>4, Zenon
  <2> QED BY <1>4, <2>1, <2>2, <2>3, Zenon DEF Basics
<1>6. CASE Rejected(b)
  <2>1. /\ index' = index \cup {b} /\ failed' = failed \cup Descendants(b) \cup {b}
        /\ UNCHANGED <<txs, seq, nextSeq>>
        /\ bestHeader' \in IF b \in Anc[HeaderBest(b)] THEN MostWork(index \ failed', tip)
                                                        ELSE {bestHeader}
    BY <1>6, Zenon DEF Rejected, order, RecalculateBestHeader
  <2>2. tip \in index \ failed'
    BY <1>1, TipFacts, TipNotMarked
  <2>3. CASE b \in Anc[HeaderBest(b)]
    <3>1. bestHeader' \in index \ failed' /\ \A y \in index \ failed' : ChainWork[y] <= ChainWork[bestHeader']
      BY <1>2, <2>1, <2>2, <2>3, MostWorkIsMost, Zenon
    <3> QED BY <1>4, <2>1, <3>1, Zenon DEF Basics, HeaderFound, Descendants, Operator
  <2>4. CASE b \notin Anc[HeaderBest(b)]
    <3>1. bestHeader' = bestHeader /\ b \notin Anc[bestHeader] /\ bestHeader # b
      BY <1>1, <2>1, <2>4, AncBasics, Zenon DEF HeaderBest
    <3> QED BY <1>1, <1>4, <2>1, <3>1, Zenon DEF Basics, HeaderFound, Descendants, Operator
  <2> QED BY <2>3, <2>4, Zenon
<1> QED BY <1>5, <1>6, Zenon DEF ProcessNewBlockHeader, ProcessNewBlock, Received

\* InvalidChainFound ends at a header that is not marked.
LEMMA MarkBasics ==
  ASSUME Basics, NEW b \in index, NEW bad \in SUBSET index, InvalidChainFound(b, bad), tip \in index \ failed',
         index \subseteq Blocks
  PROVE  /\ failed' \subseteq index /\ bestHeader' \in index
         /\ HeaderFound /\ bad \subseteq failed \cup {b} /\ failed \subseteq bad /\ b \in bad
            /\ "invalidate" \notin Operator =>
              bestHeader' \notin failed'
              /\ \A x \in index \ failed' : ChainWork[x] <= ChainWork[bestHeader']
<1>1. /\ failed' = bad \cup (Descendants(b) \ {b})
      /\ bestHeader' \in IF b \in Anc[bestHeader] THEN MostWork(index \ failed', tip) ELSE {bestHeader}
  BY Zenon DEF InvalidChainFound, RecalculateBestHeader
<1>2. failed' \subseteq index
  BY <1>1, Zenon DEF Descendants
<1>3. CASE b \in Anc[bestHeader]
  <2>1. bestHeader' \in index \ failed' /\ \A y \in index \ failed' : ChainWork[y] <= ChainWork[bestHeader']
    BY <1>1, <1>3, MostWorkIsMost, Zenon
  <2> QED BY <1>2, <2>1
<1>4. CASE b \notin Anc[bestHeader]
  <2>1. bestHeader # b
    BY <1>4, AncBasics, Zenon
  <2> QED BY <1>1, <1>2, <1>4, <2>1, SMTT(30) DEF Basics, HeaderFound, Descendants
<1> QED BY <1>3, <1>4, Zenon

LEMMA ActivateBasics ==
  ASSUME IInv, Basics, HeaderFound, IInv', Activate
  PROVE  Basics' /\ HeaderFound'
<1>1. UNCHANGED <<world, index, txs, seq, nextSeq, reverse, inv>> /\ ~Invalidating' /\ pending' \in Nat
  BY SMTT(30) DEF Activate, ABCStart, FindMostWorkChain, ABCBreak, ABCStep, ABCDisconnect, ABCConnect,
         ABCConnectInvalid, ABCUnlocked, StepDone, tree, order, Basics, Invalidating
<1>2. CASE ABCConnectInvalid
  <2>1. PICK x \in NextOnPath \ Valid : InvalidChainFound(x, failed \cup {x})
    BY <1>2, Zenon DEF ABCConnectInvalid
  <2>2. x \in index
    BY <1>2, Zenon DEF NextOnPath, Path, IInv, TargetUsable, DataReceived, ABCConnectInvalid, Basics
  <2>3. tip \in index \ failed'
    BY <1>2, TipFacts, TipNotMarked, Zenon DEF ABCConnectInvalid
  <2>4. failed \cup {x} \in SUBSET index /\ index \subseteq Blocks
    BY <2>2, Zenon DEF Basics, IInv, Locals
  <2>5. /\ failed' \subseteq index /\ bestHeader' \in index
        /\ "invalidate" \notin Operator =>
             bestHeader' \notin failed' /\ \A y \in index \ failed' : ChainWork[y] <= ChainWork[bestHeader']
    BY <2>1, <2>2, <2>3, <2>4, MarkBasics, SMTT(30)
  <2>6. HeaderFound'
    BY <1>1, <2>5, Zenon DEF HeaderFound, Operator
  <2>7. InvalidateRuns'
    BY <1>1, Zenon DEF InvalidateRuns
  <2> QED BY <1>1, <2>5, <2>6, <2>7, Zenon DEF Basics
<1>3. CASE ~ABCConnectInvalid
  <2>1. UNCHANGED <<failed, bestHeader>>
    BY <1>3, Zenon DEF Activate, ABCStart, FindMostWorkChain, ABCBreak, ABCStep, ABCDisconnect, ABCConnect,
         ABCUnlocked, marks
  <2> QED BY <1>1, <2>1, Zenon DEF Basics, HeaderFound, InvalidateRuns, Operator
<1> QED BY <1>2, <1>3

LEMMA InvalidateBasics ==
  ASSUME IInv, Basics, HeaderFound, IInv', Invalidate \/ \E b \in Branches : InvalidateStart(b)
  PROVE  Basics' /\ HeaderFound'
<1>1. UNCHANGED <<world, index, txs, seq, nextSeq, reverse>> /\ "invalidate" \in Operator
  BY Zenon DEF Invalidate, InvalidateStart, InvalidateDisconnect, InvalidateStuck, InvalidateLeave,
         InvalidateMark, tree, order, Basics, InvalidateRuns, Invalidating
<1>2. HeaderFound'
  BY <1>1 DEF HeaderFound, Operator
<1>3. pending' \in Nat /\ (Invalidating' => pending' > 0)
  BY SMTT(30) DEF Invalidate, InvalidateStart, InvalidateDisconnect, InvalidateStuck, InvalidateLeave,
         InvalidateMark, Basics, InvalidateRuns, Invalidating
<1>4. ASSUME Invalidating' PROVE inv'.mark = inv'.block \/ inv'.block \in Chain'
  <2>1. CASE InvalidateDisconnect
    <3>1. inv' = [inv EXCEPT !.mark = tip, !.was = TRUE, !.others = inv'.others]
          /\ tip' = Parent[tip] /\ inv.block \in Chain
      BY <2>1, Zenon DEF InvalidateDisconnect, IInv, Locals
    <3>2. inv'.mark = tip /\ inv'.block = inv.block
      BY <3>1, Zenon DEF IInv, Locals
    <3>3. inv.block # Genesis
      BY <2>1 DEF InvalidateDisconnect, IInv, MarksOffChain
    <3> QED BY <3>1, <3>2, <3>3, AncBasics DEF Chain, IInv, Locals
  <2>2. CASE ~InvalidateDisconnect
    BY <1>4, <2>2, SMTT(30)
       DEF Invalidate, InvalidateStart, InvalidateStuck, InvalidateLeave, InvalidateMark, Basics,
           InvalidateRuns, Invalidating, Chain
  <2> QED BY <2>1, <2>2
<1>5. failed' \subseteq index /\ bestHeader' \in index /\ inv'.others \subseteq index
      /\ (Invalidating' => inv'.block \in index)
  <2>1. CASE InvalidateDisconnect
    <3> DEFINE new == Parent[tip]
               seen == {x \in inv.others : ChainWork[x] >= ChainWork[new]}
               gone == {x \in seen : tip \in Anc[x]}
               rest == seen \ gone
    <3>1. /\ failed' = failed \cup {tip} \cup gone /\ tip' = new
          /\ bestHeader' \in IF tip \in Anc[bestHeader] THEN MostWork(rest \cup {new}, new) ELSE {bestHeader}
          /\ inv' = [inv EXCEPT !.mark = tip, !.was = TRUE, !.others = @ \ gone]
      BY <2>1 DEF InvalidateDisconnect
    <3>2. inv'.others \subseteq inv.others /\ inv'.block = inv.block
      BY <3>1, Zenon DEF IInv, Locals
    <3>3. inv.block \in index
      BY <2>1 DEF InvalidateDisconnect, Basics, InvalidateRuns, Invalidating
    <3>4. seen \subseteq index
      BY DEF Basics
    <3>5. new \in index
      BY <1>1, <3>1, AncBasics, Zenon DEF Basics, IInv, Locals, ActiveChainSound, DataReceived, Chain
    <3> HIDE DEF new, seen
    <3>6. bestHeader' \in index
      BY <3>1, <3>4, <3>5, TipFacts, MostWorkIsMost DEF Basics
    <3> QED BY <3>1, <3>2, <3>3, <3>4, <3>6, TipFacts DEF Basics
  <2>2. CASE InvalidateMark
    <3>1. PICK bad \in SUBSET (failed \cup {inv.block}) : InvalidChainFound(inv.mark, bad)
      BY <2>2, Zenon DEF InvalidateMark
    <3>2. inv.mark = inv.block /\ inv.block \in index
      BY <2>2, Zenon DEF InvalidateMark, IInv, MarksOffChain, Basics, InvalidateRuns, Invalidating
    <3>3. tip \in index \ failed'
      BY <2>2, TipFacts, TipNotMarked, Zenon DEF InvalidateMark
    <3>4. failed' \subseteq index /\ bestHeader' \in index
      BY <3>1, <3>2, <3>3, TipFacts, MarkBasics, Zenon DEF Basics
    <3> QED BY <2>2, <3>4, Zenon DEF InvalidateMark, NoInv, Invalidating
  <2>3. CASE InvalidateStart(CHOOSE b \in Branches : InvalidateStart(b))
    <3> DEFINE b == CHOOSE b \in Branches : InvalidateStart(b)
    <3>1. /\ UNCHANGED <<failed, bestHeader>> /\ b \in index
          /\ inv' = [block |-> b, mark |-> b, was |-> FALSE,
                     others |-> {x \in index \ (Chain \cup failed) : ~Worse(x, Parent[b])}]
      BY <2>3, Zenon DEF InvalidateStart, marks
    <3>2. inv'.others \subseteq index /\ inv'.block \in index
      <4> HIDE DEF b
      <4> QED BY <3>1, Zenon
    <3> QED BY <3>1, <3>2, Zenon DEF Basics
  <2>4. CASE InvalidateStuck \/ InvalidateLeave
    BY <2>4, SMTT(30) DEF InvalidateStuck, InvalidateLeave, marks, Basics, InvalidateRuns, Invalidating, NoInv
  <2> QED BY <2>1, <2>2, <2>3, <2>4, Zenon DEF Invalidate
<1> QED BY <1>1, <1>2, <1>3, <1>4, <1>5, Zenon DEF Basics, InvalidateRuns, Operator

LEMMA CommandBasics ==
  ASSUME IInv, Basics, HeaderFound, IInv', NEW b \in Branches,
         ReconsiderBlock(b) \/ PreciousBlock(b) \/ PruneOneBlockFile(b)
  PROVE  Basics' /\ HeaderFound'
<1>1. UNCHANGED <<world, index, txs, nextSeq, pc, inv, tip>> /\ (pending' = pending \/ pending' = pending + 1)
  BY Zenon DEF ReconsiderBlock, PreciousBlock, PruneOneBlockFile, tree, order, marks
<1>2. pending' \in Nat /\ InvalidateRuns' /\ inv'.others \subseteq index'
  <2>1. pending' \in Nat /\ (pending > 0 => pending' > 0)
    <3>1. pending \in Nat
      BY Zenon DEF Basics
    <3> QED BY <1>1, <3>1
  <2>2. InvalidateRuns' /\ inv'.others \subseteq index'
    BY <1>1, <2>1, Zenon DEF Basics, InvalidateRuns, Invalidating, Operator, Chain
  <2> QED BY <2>1, <2>2
<1>3. CASE ReconsiderBlock(b)
  <2>1. failed' \subseteq failed /\ UNCHANGED <<seq, reverse>> /\ bestHeader' \in MostWork(index \ failed', tip)
    BY <1>3, Zenon DEF ReconsiderBlock, order, RecalculateBestHeader
  <2>2. bestHeader' \in index \ failed' /\ \A y \in index \ failed' : ChainWork[y] <= ChainWork[bestHeader']
    BY <2>1, TipFacts, MostWorkIsMost, Zenon
  <2>3. /\ failed' \subseteq index' /\ txs' \subseteq index' /\ bestHeader' \in index' /\ nextSeq' \in Nat \ {0, 1}
        /\ seq' \in [Blocks -> Int] /\ reverse'.next \in Int
    BY <1>1, <2>1, <2>2, Zenon DEF Basics
  <2> QED BY <1>1, <1>2, <2>2, <2>3, Zenon DEF Basics, HeaderFound
<1>4. CASE ~ReconsiderBlock(b)
  <2>1. UNCHANGED <<failed, bestHeader>>
    BY <1>4, Zenon DEF PreciousBlock, PruneOneBlockFile, marks
  <2>2. HeaderFound'
    BY <1>1, <2>1, Zenon DEF HeaderFound, Operator
  <2>3. seq' \in [Blocks -> Int] /\ reverse'.next \in Int
    <3>1. CASE PreciousBlock(b)
      <4> DEFINE id == IF ChainWork[tip] > reverse.work THEN -1 ELSE reverse.next
      <4>0. id \in Int
        BY SMTT(30) DEF Basics
      <4>1. /\ seq' = [seq EXCEPT ![b] = id]
            /\ reverse' = [next |-> IF id > MinReverse THEN id - 1 ELSE id, work |-> ChainWork[tip]]
        BY <3>1, Zenon DEF PreciousBlock
      <4> HIDE DEF id
      <4>2. seq' \in [Blocks -> Int]
        BY <4>0, <4>1, Zenon DEF Basics
      <4>3. reverse'.next \in Int
        BY <4>0, <4>1
      <4> QED BY <4>2, <4>3
    <3>2. CASE PruneOneBlockFile(b)
      BY <3>2, Zenon DEF PruneOneBlockFile, order, Basics
    <3> QED BY <1>4, <3>1, <3>2
  <2>4. failed' \subseteq index' /\ txs' \subseteq index' /\ bestHeader' \in index' /\ nextSeq' \in Nat \ {0, 1}
    BY <1>1, <2>1, Zenon DEF Basics
  <2> QED BY <1>2, <2>2, <2>3, <2>4, Zenon DEF Basics
<1> QED BY <1>3, <1>4

LEMMA RestartBasics ==
  ASSUME IInv, Basics, HeaderFound, IInv', Restart
  PROVE  Basics' /\ HeaderFound'
<1> DEFINE bad == {x \in index : Anc[x] \cap failed # {}}
           flat == [b \in Blocks |-> 1]
<1>1. /\ UNCHANGED <<world, index, txs, tip>> /\ pc' = "idle" /\ pending' = 1 /\ nextSeq' = 2
      /\ failed' = bad /\ reverse' = [next |-> -1, work |-> 0]
      /\ seq' = [b \in Blocks |-> IF b \in Chain THEN 0 ELSE 1]
      /\ bestHeader' = CHOOSE h \in index \ bad : \A x \in index \ (bad \cup {h}) : WorseIn(flat, x, h)
  BY Zenon DEF Restart, LoadedBestHeader
<1>2. tip \in index \ bad
  BY <1>1, TipFacts, TipNotMarked, Zenon
<1>3. \E h \in index \ bad : \A x \in index \ (bad \cup {h}) : WorseIn(flat, x, h)
  <2>1. flat \in [Blocks -> Int] /\ index \ bad \in SUBSET Blocks /\ index \ bad # {}
    BY <1>2, TipFacts, SMTT(30)
  <2>2. \E h \in index \ bad : \A x \in (index \ bad) \ {h} : WorseIn(flat, x, h)
    <3> HIDE DEF flat, bad
    <3> QED BY <2>1, BestExists, Zenon
  <2> QED BY <2>2, Zenon
<1>4. bestHeader' \in index \ bad /\ \A x \in index \ (bad \cup {bestHeader'}) : WorseIn(flat, x, bestHeader')
  BY <1>1, <1>3, Zenon
<1>5. \A x \in index \ bad : ChainWork[x] <= ChainWork[bestHeader']
  <2>1. flat \in [Blocks -> Int]
    OBVIOUS
  <2>2. \A x \in Blocks : ChainWork[x] \in Nat
    BY WorkUnfolds, Zenon
  <2> HIDE DEF flat, bad
  <2> QED BY <1>4, <2>1, <2>2, TipFacts, OrderTotal, SMTT(30)
<1>6. seq' \in [Blocks -> Int] /\ reverse'.next \in Int /\ nextSeq' \in Nat \ {0, 1}
  BY <1>1, SMTT(30)
<1>7. inv'.others \subseteq index'
  BY Zenon DEF Restart, NoInv
<1> QED BY <1>1, <1>4, <1>5, <1>6, <1>7, Zenon DEF Basics, HeaderFound, InvalidateRuns, Invalidating

LEMMA NextBasics == IInv /\ Basics /\ HeaderFound /\ [Next]_vars => Basics' /\ HeaderFound'
<1> SUFFICES ASSUME IInv, Basics, HeaderFound, [Next]_vars PROVE Basics' /\ HeaderFound'
  OBVIOUS
<1>0. IInv'
  BY NextKeeps
<1>1. CASE UNCHANGED vars
  BY <1>1, Zenon DEF vars, tree, order, marks, Basics, HeaderFound, InvalidateRuns, Invalidating, Operator, Chain
<1>2. CASE \E b \in Branches : ProcessNewBlockHeader(b) \/ \E requested \in BOOLEAN : ProcessNewBlock(b, requested)
  BY <1>0, <1>2, BlockBasics
<1>3. CASE \E b \in Branches : ReconsiderBlock(b) \/ PreciousBlock(b) \/ PruneOneBlockFile(b)
  BY <1>0, <1>3, CommandBasics
<1>4. CASE Activate
  BY <1>0, <1>4, ActivateBasics
<1>5. CASE Invalidate \/ \E b \in Branches : InvalidateStart(b)
  BY <1>0, <1>5, InvalidateBasics
<1>6. CASE Restart
  BY <1>0, <1>6, RestartBasics
<1> QED BY <1>1, <1>2, <1>3, <1>4, <1>5, <1>6, Zenon DEF Next

\* m_best_header in every block tree: as long as invalidateblock is not used it is not known to
\* be invalid and no header that is not has more work, through blocks rejected or found invalid
\* while they are connected, reconsiderblock and restarts.
THEOREM BestHeaderAlwaysBest == Spec => []BestHeaderBest
<1>1. HeaderFound => BestHeaderBest
  BY DEF HeaderFound, BestHeaderBest
<1> QED BY <1>1, InvariantHolds, BasicsInit, NextBasics, PTL DEF Spec

-----------------------------------------------------------------------------
(* A node that does not prune *)

Unpruned == "prune" \notin Operator

\* Exactly the blocks received with all their ancestors are linked; the others wait.
Links ==
  /\ have = txs /\ linked = {x \in txs : Anc[x] \subseteq txs} /\ unlinked = txs \ linked
  /\ pc # "fatal"

\* Nothing builds on a marked block unmarked, but for what InvalidateBlock is still going to mark.
Marked ==
  \A y \in index \ failed : \A x \in Anc[y] \cap failed : Invalidating /\ inv.block \in Anc[x]

LEMMA LinksInit == Init => Links /\ Marked
<1> SUFFICES ASSUME Init PROVE Links /\ Marked
  OBVIOUS
<1> QED BY AncBasics, Zenon DEF Init, Links, Marked

\* A header whose parent is not marked
LEMMA HeaderMarked ==
  ASSUME IInv, Basics, Marked, NEW b \in Blocks, AcceptsHeader(b), index' = index \cup {b},
         failed' = failed, pc' = pc, inv' = inv
  PROVE  Marked'
<1>1. CASE b \in index
  BY <1>1, Zenon DEF Marked, Invalidating
<1>2. CASE b \notin index
  <2>1. b # Genesis /\ Parent[b] \in index \ failed /\ b \notin failed
    BY <1>2, Zenon DEF AcceptsHeader, Basics
  <2>2. Anc[b] \cap failed = Anc[Parent[b]] \cap failed
    BY <2>1, AncBasics, SMTT(30)
  <2> QED BY <2>1, <2>2, Zenon DEF Marked, Invalidating
<1> QED BY <1>1, <1>2

\* What ReceivedBlockTransactions links was not linked before, and is all that can be.
LEMMA ReceivedLinks ==
  ASSUME IInv, Links, NEW b \in Blocks, b \notin have, b = Genesis \/ Parent[b] \in linked
  PROVE  /\ b \in Linkable(b) /\ Linkable(b) \cap linked = {} /\ Linkable(b) \subseteq {b} \cup txs
         /\ \A x \in {b} \cup txs : Anc[x] \subseteq {b} \cup txs => x \in linked \cup Linkable(b)
<1>1. b \in Linkable(b) /\ Linkable(b) \subseteq {b} \cup unlinked
  BY AncBasics, Zenon DEF Linkable
<1>2. b \notin linked
  BY DEF Links
<1>3. ASSUME NEW x \in {b} \cup txs, Anc[x] \subseteq {b} \cup txs, b \in Anc[x]
      PROVE  x \in Linkable(b)
  <2>0. x \in Blocks
    BY ChainFacts, Zenon
  <2>1. ASSUME NEW z \in Anc[x], b \in Anc[z], z # b PROVE z \in unlinked
    BY <1>3, <2>1, Zenon DEF Links
  <2>2. \A z \in Anc[x] \ Anc[b] : b \in Anc[z] /\ z # b
    BY <1>3, <2>0, AncLinear, AncBasics, Zenon
  <2> QED BY <1>3, <2>0, <2>1, <2>2, AncBasics, Zenon DEF Linkable
<1>4. ASSUME NEW x \in {b} \cup txs, Anc[x] \subseteq {b} \cup txs, b \notin Anc[x]
      PROVE  x \in linked
  BY <1>4, AncBasics, Zenon DEF Links
<1> QED BY <1>1, <1>2, <1>3, <1>4, Zenon DEF Links

LEMMA BlockLinks ==
  ASSUME IInv, IInv', Basics, Links, Marked, NEW b \in Branches,
         ProcessNewBlockHeader(b) \/ \E requested \in BOOLEAN : ProcessNewBlock(b, requested)
  PROVE  Links' /\ Marked'
<1>1. UNCHANGED <<tip, pc, abc, inv, world>> /\ AcceptsHeader(b) /\ b \in Blocks
  BY WorldTypes, Zenon DEF ProcessNewBlockHeader, ProcessNewBlock, IInv, Locals
<1>2. CASE HeaderAdded(b) /\ UNCHANGED <<have, txs, linked, unlinked, failed>>
  BY <1>1, <1>2, HeaderMarked, Zenon DEF HeaderAdded, Links
<1>3. CASE Received(b) /\ b \notin have
  <2>1. Marked'
    BY <1>1, <1>3, HeaderMarked, Zenon DEF Received, HeaderAdded
  <2>2. have' = have \cup {b} /\ txs' = txs \cup {b}
    BY <1>3, Zenon DEF Received, ReceivedBlockTransactions
  <2>3. CASE b = Genesis \/ Parent[b] \in linked
    <3>1. linked' = linked \cup Linkable(b) /\ unlinked' = unlinked \ Linkable(b)
      BY <1>3, <2>3, Zenon DEF Received, ReceivedBlockTransactions, EraseUnlinked
    <3>2. linked' = {x \in txs' : Anc[x] \subseteq txs'}
      <4>1. linked' \subseteq {x \in txs' : Anc[x] \subseteq txs'}
        BY Zenon DEF IInv, DataReceived
      <4>2. {x \in txs' : Anc[x] \subseteq txs'} \subseteq linked'
        BY <1>1, <1>3, <2>2, <2>3, <3>1, ReceivedLinks, Zenon
      <4> QED BY <4>1, <4>2, Zenon
    <3>3. unlinked' = txs' \ linked'
      <4>1. b \in Linkable(b) /\ Linkable(b) \cap linked = {} /\ Linkable(b) \subseteq {b} \cup txs
        BY <1>1, <1>3, <2>3, ReceivedLinks, Zenon
      <4>2. unlinked = txs \ linked /\ b \notin linked
        BY <4>1, Zenon DEF Links
      <4> QED BY <2>2, <3>1, <4>1, <4>2, Zenon
    <3> QED BY <1>1, <2>1, <2>2, <3>2, <3>3, Zenon DEF Links
  <2>4. CASE ~(b = Genesis \/ Parent[b] \in linked)
    <3>1. linked' = linked /\ unlinked' = unlinked \cup {b}
      BY <1>3, <2>4, Zenon DEF Received, ReceivedBlockTransactions, AddUnlinked
    <3>2. Anc[b] = {b} \cup Anc[Parent[b]] /\ b \notin Anc[Parent[b]] /\ Parent[b] \in Anc[Parent[b]]
      BY <1>1, <2>4, AncBasics, NotItsOwnAncestor, Zenon
    <3>3. ASSUME NEW x \in txs', Anc[x] \subseteq txs' PROVE b \notin Anc[x]
      <4> SUFFICES ASSUME b \in Anc[x] PROVE FALSE
        BY Zenon
      <4>1. Anc[b] \subseteq Anc[x]
        BY <1>1, <2>2, ChainFacts, AncTransitive, Zenon
      <4>2. Anc[Parent[b]] \subseteq txs
        BY <2>2, <3>2, <3>3, <4>1, Zenon
      <4> QED BY <2>4, <3>2, <4>2, Zenon DEF Links
    <3>4. linked' = {x \in txs' : Anc[x] \subseteq txs'}
      BY <1>1, <2>2, <3>1, <3>3, AncBasics, SMTT(30) DEF Links
    <3>5. unlinked' = txs' \ linked'
      BY <1>3, <2>2, <3>1, Zenon DEF Links
    <3> QED BY <1>1, <2>1, <2>2, <3>4, <3>5, Zenon DEF Links
  <2> QED BY <2>3, <2>4
<1>4. CASE Rejected(b)
  <2>1. /\ index' = index \cup {b} /\ failed' = failed \cup Descendants(b) \cup {b}
        /\ UNCHANGED <<have, txs, linked, unlinked>>
    BY <1>4, Zenon DEF Rejected
  <2>2. Marked'
    <3> SUFFICES ASSUME NEW y \in index' \ failed', NEW x \in Anc[y] \cap failed'
                 PROVE  Invalidating' /\ inv'.block \in Anc[x]
      BY Zenon DEF Marked
    <3>1. y \in index \ failed /\ y # b /\ b \notin Anc[y] /\ y \in Blocks
      BY <2>1, TipFacts, Zenon DEF Descendants
    <3>2. x \in failed
      BY <2>1, <3>1, AncTransitive, Zenon DEF Descendants
    <3> QED BY <1>1, <3>1, <3>2, Zenon DEF Marked, Invalidating
  <2> QED BY <1>1, <2>1, <2>2, Zenon DEF Links
<1> QED BY <1>2, <1>3, <1>4, Zenon
        DEF ProcessNewBlockHeader, ProcessNewBlock, Received, Wanted

-----------------------------------------------------------------------------
(* Heights *)

LEMMA HeightType == Height \in [Blocks -> Int]
<1>1. \A b \in Blocks : IsFiniteSet(Anc[b])
  BY AncBasics, TreeAssumption, FS_Subset, Zenon
<1>2. \A b \in Blocks : Cardinality(Anc[b]) \in Nat
  BY <1>1, FS_CardinalityType
<1> QED BY <1>2 DEF Height

LEMMA HighestIs ==
  ASSUME NEW S \in SUBSET Blocks, S # {}
  PROVE  Highest(S) \in S /\ \A y \in S : Height[y] <= Height[Highest(S)]
<1>1. \E x \in S : \A y \in S : Height[y] <= Height[x]
  BY HeightType, GreatestExists
<1> QED BY <1>1 DEF Highest

\* FindMostWorkChain throws out only marked blocks.
LEMMA ThrownOut ==
  ASSUME IInv, Basics, Links, Marked, pc = "abc_find", NEW c \in cands, Unusable(c) # {}
  PROVE  /\ Highest(Unusable(c)) \in failed
         /\ Above(c, Highest(Unusable(c))) \subseteq failed
<1> DEFINE test == Highest(Unusable(c))
<1>1. c \in linked /\ c \in Blocks /\ Anc[c] \subseteq linked /\ Anc[c] \subseteq Blocks
  BY ChainFacts, AncBasics, Zenon DEF IInv, DataReceived
<1>2. test \in Unusable(c)
  BY <1>1, HighestIs, Zenon DEF Unusable, Path
<1>3. test \in failed /\ test \in Anc[c] /\ test \in Blocks
  BY <1>1, <1>2, Zenon DEF Unusable, Path, Links
<1>4. ASSUME NEW y \in Above(c, test) PROVE y \in failed
  <2>1. y \in Anc[c] /\ y \in Blocks /\ Height[y] > Height[test] /\ y \in index
    BY <1>1, Zenon DEF Above, Path, IInv, DataReceived, Basics
  <2>2. y # test /\ Height[y] \in Int /\ Height[test] \in Int
    BY <1>3, <2>1, HeightType, SMTT(30)
  <2>3. test \in Anc[y]
    <3> HIDE DEF test
    <3>1. y \in Anc[test] => test \in Anc[y] \/ Height[y] < Height[test]
      BY <1>3, Higher, Zenon
    <3> QED BY <1>1, <1>3, <2>1, <2>2, <3>1, AncLinear, SMTT(30)
  <2> QED BY <1>3, <2>1, <2>3, Zenon DEF Marked, Invalidating
<1> QED BY <1>3, <1>4, Zenon

LEMMA ActivateLinks ==
  ASSUME IInv, IInv', Basics, Links, Marked, Activate
  PROVE  Links' /\ Marked'
<1>1. UNCHANGED <<world, index, have, txs, linked, inv>>
  BY Zenon DEF Activate, ABCStart, FindMostWorkChain, ABCBreak, ABCStep, ABCDisconnect, ABCConnect,
         ABCConnectInvalid, ABCUnlocked, tree
<1>2. pc' # "fatal" /\ ~Invalidating
  BY TipFacts, Zenon
     DEF Activate, ABCStart, FindMostWorkChain, ABCBreak, ABCStep, ABCDisconnect, ABCConnect,
         ABCConnectInvalid, ABCUnlocked, StepDone, Links, Invalidating
<1>3. unlinked' = unlinked
  <2>1. CASE FindMostWorkChain
    BY <2>1, ThrownOut DEF FindMostWorkChain
  <2>2. CASE ~FindMostWorkChain
    BY <2>2, Zenon DEF Activate, ABCStart, ABCBreak, ABCStep, ABCDisconnect, ABCConnect,
         ABCConnectInvalid, ABCUnlocked, tree
  <2> QED BY <2>1, <2>2
<1>4. Marked'
  <2>1. CASE ABCConnectInvalid
    <3>1. PICK x \in NextOnPath : failed' = failed \cup {x} \cup (Descendants(x) \ {x})
      BY <2>1, Zenon DEF ABCConnectInvalid, InvalidChainFound
    <3> SUFFICES ASSUME NEW y \in index \ failed', NEW z \in Anc[y] \cap failed'
                 PROVE  FALSE
      BY <1>1, Zenon DEF Marked
    <3>2. y \in index \ failed /\ x \notin Anc[y] /\ y \in Blocks
      BY <3>1, TipFacts, Zenon DEF Descendants
    <3>3. z \in failed
      BY <3>1, <3>2, AncTransitive, Zenon DEF Descendants
    <3> QED BY <1>2, <3>2, <3>3, Zenon DEF Marked
  <2>2. CASE ~ABCConnectInvalid
    <3>1. failed' = failed
      BY <2>2, Zenon DEF Activate, ABCStart, FindMostWorkChain, ABCBreak, ABCStep, ABCDisconnect, ABCConnect,
         ABCUnlocked, marks
    <3> QED BY <1>1, <1>2, <3>1, Zenon DEF Marked
  <2> QED BY <2>1, <2>2
<1> QED BY <1>1, <1>2, <1>3, <1>4, Zenon DEF Links

LEMMA WorldStays == [Next]_vars => world' = world
BY Zenon DEF Next, vars, ProcessNewBlockHeader, ProcessNewBlock, InvalidateStart, ReconsiderBlock,
       PreciousBlock, PruneOneBlockFile, Activate, ABCStart, FindMostWorkChain, ABCBreak, ABCStep,
       ABCDisconnect, ABCConnect, ABCConnectInvalid, ABCUnlocked, Invalidate,
       InvalidateDisconnect, InvalidateStuck, InvalidateLeave, InvalidateMark, Restart

LEMMA InvalidateLinks ==
  ASSUME IInv, IInv', Basics, Links, Marked, Invalidate \/ \E b \in Branches : InvalidateStart(b)
  PROVE  Links' /\ Marked'
<1>1. UNCHANGED <<world, index, have, txs, linked, unlinked>> /\ ~InvalidateStuck
  BY TipFacts, Zenon DEF Invalidate, InvalidateStart, InvalidateDisconnect, InvalidateStuck, InvalidateLeave,
                  InvalidateMark, tree, Links, IInv, DataReceived
<1>2. Links'
  BY <1>1, Zenon DEF Invalidate, InvalidateStart, InvalidateDisconnect, InvalidateLeave, InvalidateMark, Links
<1>3. CASE InvalidateDisconnect
  <2> DEFINE gone == {x \in {x \in inv.others : ChainWork[x] >= ChainWork[Parent[tip]]} : tip \in Anc[x]}
  <2>1. /\ failed' = failed \cup {tip} \cup gone /\ inv.block \in Chain /\ pc = "inv_loop" /\ pc' = pc
        /\ inv' = [inv EXCEPT !.mark = tip, !.was = TRUE, !.others = @ \ gone]
    BY <1>3 DEF InvalidateDisconnect
  <2>2. inv'.block = inv.block
    BY <2>1, Zenon DEF IInv, Locals
  <2>3. \A x \in {tip} \cup gone : inv.block \in Anc[x]
    BY <2>1, AncTransitive, TipFacts DEF Chain, Basics
  <2> HIDE DEF gone
  <2> QED BY <1>1, <1>2, <2>1, <2>2, <2>3 DEF Marked, Invalidating
<1>4. CASE InvalidateMark
  <2>1. PICK bad : bad \in {failed, failed \cup {inv.block}} /\ InvalidChainFound(inv.mark, bad)
    BY <1>4, Zenon DEF InvalidateMark
  <2> DEFINE b == inv.block
  <2>2. inv.mark = b /\ b \in index /\ b \in Blocks
    BY <1>4, TipFacts, Zenon DEF InvalidateMark, IInv, MarksOffChain, Basics, InvalidateRuns, Invalidating
  <2>3. failed' = bad \cup (Descendants(b) \ {b})
    BY <2>1, <2>2, Zenon DEF InvalidChainFound
  <2> SUFFICES ASSUME NEW y \in index \ failed', NEW x \in Anc[y] \cap failed' PROVE FALSE
    BY <1>1, <1>2, Zenon DEF Marked
  <2>4. y \in Blocks /\ x \in Blocks /\ y \notin failed /\ (b \in Anc[y] => y = b)
    BY <2>1, <2>3, TipFacts, AncBasics, Zenon DEF Descendants
  <2>5. b \in Anc[x]
    BY <2>1, <2>2, <2>3, <2>4, AncBasics, Zenon DEF Marked, Descendants
  <2>6. y = b
    BY <2>4, <2>5, AncTransitive, Zenon
  <2>7. x = b
    <3> SUFFICES ASSUME x # b PROVE FALSE
      BY Zenon
    <3>1. ChainWork[x] < ChainWork[b] /\ ChainWork[b] < ChainWork[x]
      BY <2>2, <2>4, <2>5, <2>6, MoreWork, Zenon
    <3>2. ChainWork[x] \in Nat /\ ChainWork[b] \in Nat
      BY <2>2, <2>4, WorkUnfolds, Zenon
    <3> HIDE DEF b
    <3> QED BY <3>1, <3>2, SMTT(30)
  <2> QED BY <2>6, <2>7
<1>5. CASE ~InvalidateDisconnect /\ ~InvalidateMark
  <2>1. failed' = failed /\ (Invalidating => Invalidating' /\ inv'.block = inv.block)
    BY <1>1, <1>5, Zenon
       DEF Invalidate, InvalidateStart, InvalidateLeave, marks, Invalidating
  <2> QED BY <1>1, <1>2, <2>1, Zenon DEF Marked
<1> QED BY <1>3, <1>4, <1>5

LEMMA CommandLinks ==
  ASSUME IInv, IInv', Basics, Links, Marked, Unpruned, NEW b \in Branches,
         ReconsiderBlock(b) \/ PreciousBlock(b) \/ PruneOneBlockFile(b)
  PROVE  Links' /\ Marked'
<1>1. UNCHANGED <<world, index, have, txs, linked, unlinked, pc, inv>>
  BY Zenon DEF ReconsiderBlock, PreciousBlock, PruneOneBlockFile, Unpruned, tree
<1>2. CASE ReconsiderBlock(b)
  <2>1. failed' = failed \ {x \in failed : b \in Anc[x] \/ x \in Anc[b]} /\ b \in index
    BY <1>2, Zenon DEF ReconsiderBlock
  <2>2. ASSUME NEW y \in index \ failed', NEW x \in Anc[y] \cap failed'
        PROVE  y \notin failed /\ x \in failed
    <3>1. y \in Blocks /\ b \in Blocks
      BY <2>1, TipFacts, Zenon
    <3>2. x \in failed /\ b \notin Anc[x] /\ x \notin Anc[b]
      BY <2>1, Zenon
    <3>3. b \notin Anc[y]
      BY <3>1, <3>2, AncLinear, Zenon
    <3>4. y \notin Anc[b]
      BY <3>1, <3>2, AncTransitive, Zenon
    <3> QED BY <2>1, <3>2, <3>3, <3>4, Zenon
  <2> QED BY <1>1, <2>1, <2>2, Zenon DEF Links, Marked, Invalidating
<1>3. CASE ~ReconsiderBlock(b)
  <2>1. failed' = failed
    BY <1>3, Zenon DEF PreciousBlock, PruneOneBlockFile, marks
  <2> QED BY <1>1, <2>1, Zenon DEF Links, Marked, Invalidating
<1> QED BY <1>2, <1>3

LEMMA RestartLinks ==
  ASSUME IInv, IInv', Basics, Links, Marked, Restart
  PROVE  Links' /\ Marked'
<1> DEFINE all == {x \in txs : Anc[x] \subseteq txs}
           bad == {x \in index : Anc[x] \cap failed # {}}
<1>1. /\ linked' = all /\ unlinked' = have \ all /\ failed' = bad /\ pc' = "idle"
      /\ UNCHANGED <<index, have, txs>>
  BY Zenon DEF Restart, LoadUnlinked
<1>2. Links'
  BY <1>1, Zenon DEF Links
<1>3. \A y \in index \ bad : Anc[y] \cap bad = {}
  BY TipFacts, AncTransitive, Zenon
<1> QED BY <1>1, <1>2, <1>3, Zenon DEF Marked

LEMMA NextLinks ==
  IInv /\ Basics /\ (Unpruned => Links /\ Marked) /\ [Next]_vars => (Unpruned => Links /\ Marked)'
<1> SUFFICES ASSUME IInv, Basics, Unpruned => Links /\ Marked, [Next]_vars, Unpruned'
             PROVE  Links' /\ Marked'
  BY Zenon
<1>0. IInv' /\ Unpruned /\ Links /\ Marked
  <2>1. world' = world
    BY WorldStays
  <2> QED BY <2>1, NextKeeps, Zenon DEF Unpruned, Operator
<1>1. CASE UNCHANGED vars
  BY <1>0, <1>1, Zenon DEF vars, tree, marks, Links, Marked, Invalidating
<1>2. CASE \E b \in Branches : ProcessNewBlockHeader(b) \/ \E requested \in BOOLEAN : ProcessNewBlock(b, requested)
  BY <1>0, <1>2, BlockLinks, Zenon
<1>3. CASE \E b \in Branches : ReconsiderBlock(b) \/ PreciousBlock(b) \/ PruneOneBlockFile(b)
  BY <1>0, <1>3, CommandLinks
<1>4. CASE Activate
  BY <1>0, <1>4, ActivateLinks
<1>5. CASE Invalidate \/ \E b \in Branches : InvalidateStart(b)
  BY <1>0, <1>5, InvalidateLinks
<1>6. CASE Restart
  BY <1>0, <1>6, RestartLinks
<1> QED BY <1>1, <1>2, <1>3, <1>4, <1>5, <1>6, Zenon DEF Next

LEMMA LinksHold == Spec => [](IInv /\ Basics /\ (Unpruned => Links /\ Marked))
<1>1. Init => (Unpruned => Links /\ Marked)
  BY LinksInit
<1> QED BY <1>1, InvariantHolds, BasicsInit, NextBasics, NextLinks, PTL DEF Spec

LEMMA StaysUnpruned == Spec /\ Unpruned => []Unpruned
<1>1. Unpruned /\ [Next]_vars => Unpruned'
  BY WorldStays DEF Unpruned, Operator
<1> QED BY <1>1, PTL DEF Spec

\* m_blocks_unlinked in every block tree, on a node that does not prune: a block waits there
\* exactly while an ancestor has not been received, whatever is invalidated, reconsidered,
\* preferred or loaded again.
THEOREM UnlinkedAlwaysExact == Spec /\ Unpruned => []UnlinkedExact
<1>1. Unpruned /\ (Unpruned => Links /\ Marked) => UnlinkedExact
  BY Zenon DEF Links, UnlinkedExact
<1> QED BY <1>1, LinksHold, StaysUnpruned, PTL

\* Sequence ids are given out when a block arrives, to blocks that were not linked before.
LEMMA NewIds ==
  ASSUME IInv, Links, NEW b \in Blocks, Received(b), b \notin have
  PROVE  \A c \in linked : seq'[c] = seq[c]
<1>1. CASE b = Genesis \/ Parent[b] \in linked
  <2> DEFINE n(x) == nextSeq + Cardinality({y \in Linkable(b) : DequeuedBefore(Linkable(b))[<<y, x>>]})
  <2>1. seq' = [x \in Blocks |-> IF x \in Linkable(b) THEN n(x) ELSE seq[x]]
    BY <1>1, Zenon DEF Received, ReceivedBlockTransactions
  <2> HIDE DEF n
  <2> QED BY <1>1, <2>1, ReceivedLinks, ChainFacts, Zenon
<1>2. CASE ~(b = Genesis \/ Parent[b] \in linked)
  BY <1>2, Zenon DEF Received, ReceivedBlockTransactions
<1> QED BY <1>1, <1>2, Zenon

\* setBlockIndexCandidates' order on a node that does not prune, in every block tree: when a
\* block's arrival gives out sequence ids, none of the blocks that get one is in the set.
THEOREM SortKeysAlwaysStable == Spec /\ Unpruned => SortKeysStable
<1>1. IInv /\ Basics /\ Unpruned /\ (Unpruned => Links /\ Marked) /\ [Next]_vars =>
        [nextSeq' > nextSeq /\ ~PrunedInvalidate => \A c \in cands : seq'[c] = seq[c]]_vars
  <2> SUFFICES ASSUME IInv, Basics, Unpruned, Links, Next, nextSeq' > nextSeq, NEW c \in cands
               PROVE  seq'[c] = seq[c]
    BY Zenon
  <2>1. nextSeq \in Nat \ {0, 1}
    BY Zenon DEF Basics
  <2>2. CASE nextSeq' = nextSeq
    BY <2>1, <2>2, SMTT(30)
  <2>3. CASE Restart
    <3>1. nextSeq' = 2
      BY <2>3, Zenon DEF Restart
    <3> QED BY <2>1, <3>1
  <2>4. CASE \E b \in Branches, requested \in BOOLEAN :
               ProcessNewBlock(b, requested) /\ Received(b) /\ Wanted(b, requested)
    BY <2>4, NewIds, WorldTypes, Zenon DEF Wanted, IInv, Locals, DataReceived
  <2>5. nextSeq' = nextSeq \/ Restart \/ \E b \in Branches, requested \in BOOLEAN :
               ProcessNewBlock(b, requested) /\ Received(b) /\ Wanted(b, requested)
    BY ZenonT(40) DEF Next, ProcessNewBlockHeader, ProcessNewBlock, Rejected, InvalidateStart, ReconsiderBlock,
           PreciousBlock, PruneOneBlockFile, Activate, ABCStart, FindMostWorkChain, ABCBreak, ABCStep,
           ABCDisconnect, ABCConnect, ABCConnectInvalid, ABCUnlocked, Invalidate,
           InvalidateDisconnect, InvalidateStuck, InvalidateLeave, InvalidateMark, order
  <2> QED BY <2>2, <2>3, <2>4, <2>5, Zenon
<1> QED BY <1>1, LinksHold, StaysUnpruned, PTL DEF Spec, SortKeysStable

-----------------------------------------------------------------------------
(* The choice of the best chain, without preciousblock and pruning *)

Plain == Operator \cap {"prune", "precious"} = {}

\* PruneBlockIndexCandidates
NoneWorse == \A c \in cands : ~Worse(c, tip)

\* While ActivateBestChain holds cs_main: the tip that it found when it took it can be connected
\* again, is at least as good as a tip that is not on the way to the target, and the target is at
\* least as good.
StartThere ==
  Searching =>
    /\ Anc[abc.start] \subseteq (Valid \cap linked) \ failed
    /\ pc = "abc_find" \/ tip \notin Anc[abc.most] => ~Worse(abc.start, tip)
    /\ pc = "abc_find" /\ ~abc.moved => tip = abc.start
    /\ abc.most # NoBlock => ~Worse(abc.most, abc.start)

\* What is at least as good as both the tip and the tip at the beginning is a candidate.
Complete ==
  ~Invalidating =>
    \A b \in linked \ failed : (Searching => ~Worse(b, abc.start)) /\ ~Worse(b, tip) => b \in cands

\* Once no thread is about to call ActivateBestChain, the target of the one that runs has the
\* most work, and so has the tip when it has returned.
NothingBetter ==
  pending = 0 =>
    /\ pc = "idle" => \A b \in linked \ failed : ChainWork[b] <= ChainWork[tip]
    /\ pc \in {"abc_find", "abc_step", "abc_unlocked"} /\ abc.most # NoBlock =>
         \A b \in linked \ failed : ChainWork[b] <= ChainWork[abc.most]

Selection == NoneWorse /\ StartThere /\ Complete /\ NothingBetter

Sound == IInv /\ Basics /\ Links /\ Marked

LEMMA Order ==
  ASSUME Basics
  PROVE  /\ \A a \in Blocks : ~Worse(a, a)
         /\ \A a, b \in Blocks : a = b \/ Worse(a, b) \/ Worse(b, a)
         /\ \A a, b \in Blocks : ~(Worse(a, b) /\ Worse(b, a))
         /\ \A a, b, c \in Blocks : Worse(a, b) /\ Worse(b, c) => Worse(a, c)
         /\ \A a, b \in Blocks : Worse(a, b) => ChainWork[a] <= ChainWork[b]
BY OrderTotal, Zenon DEF Worse, Basics

LEMMA AncestorWorse ==
  ASSUME NEW b \in Blocks, NEW x \in Anc[b], x # b
  PROVE  Worse(x, b)
BY MoreWork, Zenon DEF Worse, WorseIn

LEMMA Places ==
  ASSUME Sound
  PROVE  /\ tip \in linked \ failed /\ linked \subseteq Blocks /\ cands \subseteq linked
         /\ abc.start \in Blocks /\ abc.most \in Blocks \cup {NoBlock} /\ NoBlock \notin Blocks
         /\ tip # Genesis => Parent[tip] \in Blocks /\ Worse(Parent[tip], tip)
<1>1. tip # Genesis => Parent[tip] \in Blocks /\ Parent[tip] \in Anc[tip] /\ Parent[tip] # tip
  BY AncBasics, NotItsOwnAncestor, SMTT(30) DEF Sound, IInv, Locals
<1> QED BY <1>1, TipFacts, ChainFacts, AncestorWorse, TreeAssumption, Zenon DEF Sound, IInv, Locals, DataReceived

LEMMA SelectionInit == Init => Selection
<1> SUFFICES ASSUME Init PROVE Selection
  OBVIOUS
<1>1. Basics /\ Genesis \in Blocks /\ ChainWork[Genesis] \in Nat
  BY BasicsInit, TreeAssumption, WorkUnfolds, Zenon
<1>2. ~Worse(Genesis, Genesis)
  BY <1>1, Order, Zenon
<1> QED BY <1>1, <1>2, SMTT(30)
        DEF Init, Selection, NoneWorse, StartThere, Complete, NothingBetter, Searching

\* The tip that ActivateBestChain started from is still a candidate when it looks for another
\* target.
LEMMA StartIsCandidate ==
  ASSUME Sound, Selection, pc = "abc_find"
  PROVE  abc.start \in cands
<1>1. abc.start \in linked \ failed /\ ~Worse(abc.start, tip)
  BY Places, AncBasics, Zenon DEF Selection, StartThere, Searching
<1> QED BY <1>1, Places, Order, Zenon DEF Sound, Selection, Complete, Invalidating

\* Blocks and headers
LEMMA BlockSelects ==
  ASSUME Sound, Sound', Selection, NEW b \in Branches,
         ProcessNewBlockHeader(b) \/ \E requested \in BOOLEAN : ProcessNewBlock(b, requested)
  PROVE  Selection'
<1>1. /\ UNCHANGED <<tip, pc, abc, inv>> /\ b \in Blocks /\ ~Searching /\ ~Searching'
      /\ pending \in Nat /\ (pending' = pending \/ pending' = pending + 1)
  BY WorldTypes, Zenon
     DEF ProcessNewBlockHeader, ProcessNewBlock, Sound, IInv, Locals, Searching, CsFree, Basics
<1>2. CASE /\ UNCHANGED <<linked, seq>> /\ failed \subseteq failed' /\ cands' = cands
  <2>1. pending' = 0 => pending = 0
    BY <1>1
  <2>2. NoneWorse' /\ StartThere' /\ Complete'
    BY <1>1, <1>2, Zenon DEF Selection, NoneWorse, StartThere, Complete, Invalidating, Worse
  <2>3. NothingBetter'
    BY <1>1, <1>2, <2>1, Zenon DEF Selection, NothingBetter
  <2> QED BY <2>2, <2>3 DEF Selection
<1>3. CASE Rejected(b) /\ b \notin have
  <2>1. UNCHANGED <<linked, seq>> /\ failed \subseteq failed' /\ cands' = cands \ {b}
    BY <1>3, Zenon DEF Rejected, order
  <2>2. b \notin cands
    BY <1>3, Places, Zenon DEF Sound, Links
  <2> QED BY <1>2, <2>1, <2>2
<1>4. CASE Received(b) /\ b \notin have /\ pending' = pending + 1
  <2>1. CASE ~(b = Genesis \/ Parent[b] \in linked)
    <3>1. UNCHANGED <<linked, seq, failed, cands>>
      BY <1>4, <2>1, Zenon DEF Received, ReceivedBlockTransactions
    <3> QED BY <1>2, <3>1
  <2>2. CASE b = Genesis \/ Parent[b] \in linked
    <3>1. /\ linked' = linked \cup Linkable(b) /\ failed' = failed
          /\ cands' = cands \cup {x \in Linkable(b) : ~WorseIn(seq', x, tip)}
      BY <1>4, <2>2, Zenon DEF Received, ReceivedBlockTransactions, TryAdd
    <3>2. \A c \in linked : seq'[c] = seq[c]
      BY <1>1, <1>4, NewIds, Zenon DEF Sound
    <3>3. \A c \in linked : WorseIn(seq', c, tip) = WorseIn(seq, c, tip)
      BY <3>2, Places, Zenon DEF WorseIn
    <3>4. NoneWorse'
      BY <1>1, <3>1, <3>3, Places, Zenon DEF Selection, NoneWorse, Worse
    <3>5. Complete'
      BY <1>1, <3>1, <3>3, Zenon DEF Selection, Complete, Worse, Invalidating
    <3>6. StartThere'
      BY <1>1, Zenon DEF StartThere
    <3>7. NothingBetter'
      <4>1. pending' # 0
        BY <1>1, <1>4
      <4> QED BY <4>1, Zenon DEF NothingBetter
    <3> QED BY <3>4, <3>5, <3>6, <3>7, Zenon DEF Selection
  <2> QED BY <2>1, <2>2, Zenon
<1>5. CASE ProcessNewBlockHeader(b)
  BY <1>2, <1>5, Zenon DEF ProcessNewBlockHeader, order
<1>6. CASE \E requested \in BOOLEAN : ProcessNewBlock(b, requested)
  BY <1>2, <1>3, <1>4, <1>6, Zenon DEF ProcessNewBlock, order, Wanted
<1> QED BY <1>5, <1>6

\* ActivateBestChain begins, or goes on after it gave cs_main up.
LEMMA EnterSelects ==
  ASSUME Sound, Sound', Selection, ABCStart \/ (ABCUnlocked /\ tip # abc.most)
  PROVE  Selection'
<1>0. UNCHANGED <<linked, failed, seq, cands, tip, world>> /\ pc' = "abc_find" /\ pc \in {"idle", "abc_unlocked"}
      /\ (pc = "abc_unlocked" => pending' = pending)
  BY DEF ABCStart, ABCUnlocked, tree, order, marks
<1>1. abc'.start = tip /\ (abc'.most = NoBlock \/ (ABCUnlocked /\ tip # abc.most /\ abc'.most = abc.most))
  <2>1. CASE ABCStart
    BY <2>1, Zenon DEF ABCStart
  <2>2. CASE ABCUnlocked /\ tip # abc.most
    <3>1. abc' = [abc EXCEPT !.start = tip, !.moved = FALSE]
      BY <2>2 DEF ABCUnlocked
    <3>2. abc'.start = tip /\ abc'.most = abc.most
      BY <3>1 DEF Sound, IInv, Locals
    <3> QED BY <2>2, <3>2, Zenon
  <2> QED BY <2>1, <2>2, Zenon
<1>2. abc'.most # NoBlock => ~Worse(abc'.most, tip)
  <2> SUFFICES ASSUME abc'.most # NoBlock PROVE ~Worse(abc'.most, tip)
    OBVIOUS
  <2>1. pc = "abc_unlocked" /\ abc'.most = abc.most /\ tip # abc.most /\ abc.most \in Blocks
    BY <1>1, Places DEF ABCUnlocked
  <2>2. tip \in Anc[abc.most]
    BY <2>1, Places, Zenon DEF Sound, IInv, TargetUsable
  <2> QED BY <2>1, <2>2, AncestorWorse, Order, Places, Zenon DEF Sound
<1>3. Chain \subseteq (Valid \cap linked) \ failed /\ ~Worse(tip, tip)
  BY Places, Order, Zenon DEF Sound, IInv, ActiveChainSound
<1>4. StartThere'
  BY <1>0, <1>1, <1>2, <1>3, Zenon DEF StartThere, Worse, Chain, Valid
<1>5. NoneWorse' /\ Complete'
  BY <1>0, <1>1, Zenon DEF Selection, NoneWorse, Complete, Worse, Searching, Invalidating
<1>6. NothingBetter'
  BY <1>0, <1>1 DEF Selection, NothingBetter, ABCUnlocked
<1> QED BY <1>4, <1>5, <1>6 DEF Selection

\* One turn of FindMostWorkChain throws out only marked blocks, and the target that it ends with is
\* the best of all that could be connected.
LEMMA FindSelects ==
  ASSUME Sound, Sound', Selection, FindMostWorkChain
  PROVE  Selection'
<1>1. /\ UNCHANGED <<linked, failed, seq, tip, pc, pending, world>> /\ pc = "abc_find" /\ abc.most = NoBlock
  BY DEF FindMostWorkChain, order
<1>2. PICK c \in cands :
        /\ BestCandidate(c)
        /\ \/ abc' = [abc EXCEPT !.most = c] /\ cands' = cands
           \/ Unusable(c) # {} /\ cands' = cands \ (Above(c, Highest(Unusable(c))) \cup {Highest(Unusable(c))})
              /\ abc' = abc
  BY DEF FindMostWorkChain
<1>3. CASE abc' = [abc EXCEPT !.most = c] /\ cands' = cands
  <2>1. abc'.most = c /\ abc'.start = abc.start /\ abc'.moved = abc.moved
    BY <1>3 DEF Sound, IInv, Locals
  <2>2. c \in Blocks /\ \A d \in cands : ~Worse(c, d)
    BY <1>2, Places, Order DEF Sound, BestCandidate
  <2>3. StartThere'
    BY <1>1, <2>1, <2>2, StartIsCandidate, Zenon DEF Selection, StartThere, Searching, Worse, Valid
  <2>4. NoneWorse' /\ Complete'
    BY <1>1, <1>3, <2>1 DEF Selection, NoneWorse, Complete, Searching, Invalidating, Worse
  <2>5. ASSUME NEW b \in linked \ failed PROVE ChainWork[b] <= ChainWork[c]
    <3>1. b \in cands => ChainWork[b] <= ChainWork[c]
      BY <1>2, Places, Order, WorkUnfolds DEF Sound, BestCandidate
    <3>2. Worse(b, tip) \/ Worse(b, abc.start) => Worse(b, c)
      BY <2>2, StartIsCandidate, Places, Order, <1>1, <1>2, Zenon DEF Sound, Selection, NoneWorse
    <3> QED BY <1>1, <1>2, <3>1, <3>2, Places, Order
            DEF Sound, Selection, Complete, Invalidating
  <2>6. NothingBetter'
    BY <1>1, <2>1, <2>5, Zenon DEF NothingBetter
  <2> QED BY <2>3, <2>4, <2>6, Zenon DEF Selection
<1>4. CASE Unusable(c) # {} /\ cands' = cands \ (Above(c, Highest(Unusable(c))) \cup {Highest(Unusable(c))})
           /\ abc' = abc
  <2>1. cands' \subseteq cands /\ cands \ cands' \subseteq failed
    BY <1>1, <1>2, <1>4, ThrownOut DEF Sound
  <2> QED BY <1>1, <1>4, <2>1, Zenon
          DEF Selection, NoneWorse, StartThere, Complete, NothingBetter, Searching, Invalidating, Worse, Valid
<1> QED BY <1>2, <1>3, <1>4

\* ActivateBestChain gives cs_main up without a step, or returns, with a tip that is at least as
\* good as the one it started from.
LEMMA BreakTip ==
  ASSUME Sound, Selection, ABCBreak
  PROVE  abc.most = tip /\ ~Worse(tip, abc.start)
BY StartIsCandidate, Places, Zenon DEF ABCBreak, Selection, StartThere, Searching

LEMMA LeaveSelects ==
  ASSUME Sound, Sound', Selection, ABCBreak \/ (ABCUnlocked /\ tip = abc.most)
  PROVE  Selection'
<1>1. /\ UNCHANGED <<linked, failed, seq, cands, tip, pending, world>> /\ abc.most = tip
      /\ pc \in {"abc_find", "abc_unlocked"} /\ pc' \in {"idle", "abc_unlocked"}
      /\ (pc' = "abc_unlocked" => abc' = abc)
  BY BreakTip DEF ABCBreak, ABCUnlocked, tree, order, marks
<1>2. NothingBetter'
  BY <1>1, Places, Zenon DEF Selection, NothingBetter
<1>3. pc = "abc_find" => ~Worse(tip, abc.start)
  BY BreakTip DEF ABCUnlocked
<1>4. Complete'
  <2> SUFFICES ASSUME NEW b \in linked \ failed, ~Worse(b, tip) PROVE b \in cands
    BY <1>1, Zenon DEF Complete, Worse
  <2>1. pc = "abc_find" => ~Worse(b, abc.start)
    BY <1>3, Places, Order, Zenon DEF Sound
  <2> QED BY <1>1, <2>1, Zenon DEF Selection, Complete, Searching, Invalidating
<1> QED BY <1>1, <1>2, <1>4, Zenon DEF Selection, NoneWorse, StartThere, Searching, Worse

LEMMA StepSelects ==
  ASSUME Sound, Sound', Selection, ABCStep
  PROVE  Selection'
<1>1. /\ UNCHANGED <<linked, failed, seq, cands, tip, pending, world>>
      /\ pc = "abc_find" /\ pc' = "abc_step" /\ abc' = [abc EXCEPT !.old = tip]
  BY DEF ABCStep, tree, order, marks
<1>2. abc'.most = abc.most /\ abc'.start = abc.start
  BY <1>1 DEF Sound, IInv, Locals
<1> QED BY <1>1, <1>2
        DEF Selection, NoneWorse, StartThere, Complete, NothingBetter, Searching, Invalidating, Worse, Valid

LEMMA DisconnectSelects ==
  ASSUME Sound, Sound', Selection, ABCDisconnect
  PROVE  Selection'
<1>1. /\ UNCHANGED <<linked, failed, seq, cands, abc, pc, pending, world>>
      /\ pc = "abc_step" /\ tip \notin Anc[abc.most] /\ tip' = Parent[tip]
  BY Zenon DEF ABCDisconnect, tree, order, marks, Sound, Links
<1>2. tip # Genesis /\ Parent[tip] \in Blocks /\ Worse(Parent[tip], tip)
  <2>1. abc.most \in Blocks
    BY <1>1, Places, Zenon DEF Sound, IInv, TargetUsable
  <2>2. Genesis \in Anc[abc.most]
    BY <2>1, AncBasics, Zenon
  <2>3. tip # Genesis
    BY <1>1, <2>2, Zenon
  <2> QED BY <2>3, Places, Zenon
<1>3. ~Worse(abc.start, tip)
  BY <1>1, Zenon DEF Selection, StartThere, Searching
<1>4. NoneWorse'
  BY <1>1, <1>2, Places, Order, Zenon DEF Sound, Selection, NoneWorse, Worse
<1>5. StartThere'
  BY <1>1, <1>2, <1>3, Places, Order, Zenon DEF Sound, Selection, StartThere, Searching, Worse, Valid
<1>6. Complete'
  <2> SUFFICES ASSUME NEW b \in linked \ failed, ~Worse(b, abc.start) PROVE b \in cands
    BY <1>1, Zenon DEF Complete, Searching, Worse
  <2>1. ~Worse(b, tip)
    BY <1>3, Places, Order, Zenon DEF Sound
  <2> QED BY <1>1, <2>1, Zenon DEF Selection, Complete, Invalidating
<1>7. NothingBetter'
  BY <1>1, Zenon DEF Selection, NothingBetter
<1> QED BY <1>4, <1>5, <1>6, <1>7 DEF Selection

\* ConnectTip succeeds.
LEMMA ConnectSelects ==
  ASSUME Sound, Sound', Selection, ABCConnect
  PROVE  Selection'
<1>1. PICK x \in NextOnPath :
        /\ tip' = x /\ cands' = {c \in cands : ~Worse(c, x)}
        /\ \/ abc' = [abc EXCEPT !.most = abc.most, !.moved = TRUE] /\ Worse(x, abc.start) /\ pc' = "abc_find"
           \/ abc' = [abc EXCEPT !.most = abc.most, !.moved = TRUE] /\ ~Worse(x, abc.start) /\ pc' = "abc_unlocked"
           \/ abc' = abc /\ pc' = pc
  BY DEF ABCConnect, StepDone
<1>2. UNCHANGED <<linked, failed, seq, pending, world>> /\ pc = "abc_step"
  BY Zenon DEF ABCConnect, tree, order, marks
<1>3. abc'.most = abc.most /\ abc'.start = abc.start /\ (pc' = "abc_find" => abc'.moved)
  BY <1>1, <1>2, Zenon DEF Sound, IInv, Locals
<1>4. x \in Blocks /\ x # Genesis /\ tip = Parent[x] /\ x \in Anc[abc.most] /\ Worse(tip, x)
  <2>1. abc.most \in Blocks
    BY <1>2, Places, Zenon DEF Sound, IInv, TargetUsable
  <2>2. x \in Blocks /\ x \in Anc[abc.most] /\ x \notin Chain /\ tip = Parent[x]
    BY <2>1, AncBasics, Zenon DEF NextOnPath, Path
  <2>3. x # Genesis
    BY <2>2, ChainFacts, Zenon DEF Sound
  <2>4. tip \in Anc[x] /\ tip # x
    BY <2>2, <2>3, AncBasics, ChainFacts, SMTT(30) DEF Sound
  <2> QED BY <2>2, <2>3, <2>4, AncestorWorse, Zenon
<1>5. NoneWorse'
  BY <1>1, <1>2 DEF NoneWorse, Worse
<1>6. StartThere'
  BY <1>1, <1>2, <1>3, <1>4, Places, Order, Zenon DEF Sound, Selection, StartThere, Searching, Worse, Valid
<1>7. Complete'
  <2> SUFFICES ASSUME NEW b \in linked \ failed, ~Worse(b, x), Searching' => ~Worse(b, abc.start)
               PROVE  b \in cands
    BY <1>1, <1>2, <1>3 DEF Complete, Worse
  <2>1. ~Worse(b, tip)
    BY <1>4, Places, Order, Zenon DEF Sound
  <2>2. ~Worse(b, abc.start)
    BY <1>1, <1>2, <1>4, Places, Order DEF Sound, Searching
  <2> QED BY <1>2, <2>1, <2>2, Zenon DEF Selection, Complete, Invalidating
<1>8. NothingBetter'
  BY <1>1, <1>2, <1>3, Places, Zenon DEF Selection, NothingBetter, Sound, IInv, TargetUsable
<1> QED BY <1>5, <1>6, <1>7, <1>8 DEF Selection

\* ConnectTip fails: what is marked is not below the tip that ActivateBestChain started from.
LEMMA ConnectInvalidSelects ==
  ASSUME Sound, Sound', Selection, ABCConnectInvalid
  PROVE  Selection'
<1>1. PICK x \in NextOnPath \ Valid : failed' = failed \cup {x} \cup (Descendants(x) \ {x}) /\ cands' = cands \ {x}
  BY Zenon DEF ABCConnectInvalid, InvalidChainFound
<1>2. /\ UNCHANGED <<linked, seq, tip, pending, world>> /\ pc = "abc_step"
      /\ abc' = [abc EXCEPT !.most = NoBlock, !.moved = TRUE]
      /\ pc' = IF Worse(tip, abc.start) THEN "abc_find" ELSE "abc_unlocked"
  BY DEF ABCConnectInvalid, StepDone, tree, order
<1>3. abc'.most = NoBlock /\ abc'.start = abc.start /\ (abc'.moved = TRUE)
  BY <1>2 DEF Sound, IInv, Locals
<1>4. NoneWorse' /\ NothingBetter'
  BY <1>1, <1>2, <1>3 DEF Selection, NoneWorse, NothingBetter, Worse
<1>5. StartThere'
  <2>1. Anc[abc.start] \subseteq (Valid \cap linked) \ failed
    BY <1>2 DEF Selection, StartThere, Searching
  <2>2. Anc[abc.start] \cap failed' = {}
    BY <1>1, <2>1, Places, MarkedOutside, Zenon
  <2>3. pc' = "abc_find" => ~Worse(abc.start, tip)
    BY <1>2, Places, Order DEF Sound
  <2> QED BY <1>2, <1>3, <2>1, <2>2, <2>3 DEF StartThere, Searching, Worse, Valid
<1>6. Complete'
  <2> SUFFICES ASSUME NEW b \in linked \ failed', ~Worse(b, tip), Searching' => ~Worse(b, abc.start)
               PROVE  b \in cands'
    BY <1>2, <1>3 DEF Complete, Worse
  <2>1. ~Worse(b, abc.start)
    BY <1>2, Places, Order DEF Sound, Searching
  <2> QED BY <1>1, <1>2, <2>1 DEF Selection, Complete, Invalidating
<1> QED BY <1>4, <1>5, <1>6 DEF Selection

\* InvalidateBlock; its last section sweeps for the candidates that were missed.
LEMMA InvalidateSelects ==
  ASSUME Sound, Sound', Selection, Invalidate \/ \E b \in Branches : InvalidateStart(b)
  PROVE  Selection'
<1>1. UNCHANGED <<linked, txs, seq, world>> /\ ~Searching' /\ pc' \notin {"abc_find", "abc_step", "abc_unlocked"}
  BY Zenon DEF Invalidate, InvalidateStart, InvalidateDisconnect, InvalidateStuck, InvalidateLeave,
         InvalidateMark, tree, order, Searching
<1>2. StartThere'
  BY <1>1, Zenon DEF StartThere
<1>3. pending' # 0
  BY SMTT(30) DEF Invalidate, InvalidateStart, InvalidateDisconnect, InvalidateStuck, InvalidateLeave,
         InvalidateMark, Sound, Basics, InvalidateRuns, Invalidating
<1>4. NothingBetter'
  BY <1>3, Zenon DEF NothingBetter
<1>5. CASE InvalidateMark
  <2>1. PICK bad : /\ bad \subseteq failed'
                   /\ cands' = (cands \ (bad \ failed)) \cup {x \in (txs \ bad) \cap linked : ~Worse(x, tip)}
    <3> DEFINE direct == IF inv.was \/ inv.block \in failed THEN {} ELSE {inv.block}
    <3>1. /\ cands' = (cands \ direct) \cup {x \in (txs \ (failed \cup direct)) \cap linked : ~Worse(x, tip)}
          /\ InvalidChainFound(inv.mark, failed \cup direct)
      BY <1>5, Zenon DEF InvalidateMark
    <3>2. direct = (failed \cup direct) \ failed
      BY Zenon
    <3>3. failed \cup direct \subseteq failed'
      BY <3>1, Zenon DEF InvalidChainFound
    <3> HIDE DEF direct
    <3> QED BY <3>1, <3>2, <3>3, Zenon
  <2>2. tip' = tip
    BY <1>5, Zenon DEF InvalidateMark
  <2>3. NoneWorse'
    BY <1>1, <2>1, <2>2, Zenon DEF Selection, NoneWorse, Worse
  <2>4. Complete'
    BY <1>1, <2>1, <2>2, Zenon DEF Complete, Worse, Sound, IInv, DataReceived
  <2> QED BY <1>2, <1>4, <2>3, <2>4 DEF Selection
<1>6. CASE InvalidateDisconnect
  <2>1. PICK r : cands' = (cands \ {tip}) \cup {Parent[tip]}
                          \cup {x \in r : ~Worse(x, Parent[tip]) /\ x \in (txs \ failed) \cap linked}
    BY <1>6, Zenon DEF InvalidateDisconnect
  <2>2. tip' = Parent[tip] /\ pc' = "inv_loop" /\ tip # Genesis
    <3>1. inv.block \in Chain /\ inv.block # Genesis
      BY <1>6, Zenon DEF InvalidateDisconnect, Sound, IInv, MarksOffChain
    <3>2. tip # Genesis
      BY <3>1, AncBasics, Zenon DEF Chain
    <3> QED BY <1>6, <3>2, Zenon DEF InvalidateDisconnect
  <2>3. \A c \in cands' : ~Worse(c, Parent[tip])
    BY <2>1, <2>2, Places, Order, Zenon DEF Sound, Selection, NoneWorse
  <2>4. NoneWorse'
    BY <1>1, <2>2, <2>3, Zenon DEF NoneWorse, Worse
  <2> QED BY <1>2, <1>4, <2>2, <2>4, Zenon DEF Selection, Complete, Invalidating
<1>7. CASE InvalidateLeave \/ \E b \in Branches : InvalidateStart(b)
  <2>1. UNCHANGED <<cands, tip>> /\ Invalidating'
    BY <1>7, Zenon DEF InvalidateLeave, InvalidateStart, Invalidating
  <2> QED BY <1>1, <1>2, <1>4, <2>1, Zenon DEF Selection, NoneWorse, Complete, Worse
<1>8. ~InvalidateStuck
  BY Places, Zenon DEF InvalidateStuck, Sound, IInv, DataReceived, Links
<1> QED BY <1>5, <1>6, <1>7, <1>8 DEF Invalidate

LEMMA ReconsiderSelects ==
  ASSUME Sound, Sound', Selection, NEW b \in Branches, ReconsiderBlock(b)
  PROVE  Selection'
<1>1. PICK cleared \in SUBSET failed :
        failed' = failed \ cleared /\ cands' = cands \cup {x \in cleared \cap txs \cap linked : Worse(tip, x)}
  BY Zenon DEF ReconsiderBlock
<1>2. UNCHANGED <<linked, seq, tip, pc, abc>> /\ pending' = pending + 1 /\ ~Searching /\ pending \in Nat
  BY Zenon DEF ReconsiderBlock, tree, order, Searching, CsFree, Sound, Basics
<1>3. NoneWorse'
  BY <1>1, <1>2, Places, Order, Zenon DEF Sound, Selection, NoneWorse, Worse
<1>4. Complete'
  <2> SUFFICES ASSUME ~Invalidating, NEW x \in linked \ failed', ~Worse(x, tip) PROVE x \in cands'
    BY <1>2, Zenon DEF Complete, Worse, Invalidating
  <2>1. CASE x \notin failed
    BY <1>1, <1>2, <2>1, Zenon DEF Selection, Complete
  <2>2. CASE x \in failed
    <3>1. x \in cleared /\ x # tip /\ x \in txs
      BY <1>1, <2>2, Places, Zenon DEF Sound, IInv, DataReceived
    <3> QED BY <1>1, <3>1, Places, Order, Zenon DEF Sound
  <2> QED BY <2>1, <2>2
<1>5. StartThere'
  BY <1>2, Zenon DEF StartThere, Searching
<1>6. NothingBetter'
  <2>1. pending' # 0
    BY <1>2
  <2> QED BY <2>1, Zenon DEF NothingBetter
<1> QED BY <1>3, <1>4, <1>5, <1>6 DEF Selection

LEMMA RestartSelects ==
  ASSUME Sound, Sound', Restart
  PROVE  Selection'
<1>1. /\ cands' = {x \in linked' \ failed' : ~WorseIn(seq', x, tip)} /\ tip' = tip /\ pc' = "idle" /\ pending' = 1
  BY Zenon DEF Restart, LoadedCandidates
<1>2. NoneWorse'
  BY <1>1 DEF NoneWorse, Worse
<1>3. StartThere'
  BY <1>1, Zenon DEF StartThere, Searching
<1>4. Complete'
  BY <1>1, Zenon DEF Complete, Worse
<1>5. NothingBetter'
  BY <1>1, SMTT(30) DEF NothingBetter
<1> QED BY <1>2, <1>3, <1>4, <1>5 DEF Selection

LEMMA NextSelects == Sound /\ Sound' /\ Plain /\ Selection /\ [Next]_vars => Selection'
<1> SUFFICES ASSUME Sound, Sound', Plain, Selection, [Next]_vars PROVE Selection'
  OBVIOUS
<1>1. CASE UNCHANGED vars
  BY <1>1, Zenon DEF vars, tree, order, marks, Selection, NoneWorse, StartThere, Complete, NothingBetter,
              Searching, Invalidating, Worse, Valid
<1>2. CASE \E b \in Branches : ProcessNewBlockHeader(b) \/ \E requested \in BOOLEAN : ProcessNewBlock(b, requested)
  BY <1>2, BlockSelects, Zenon
<1>3. CASE \E b \in Branches : ReconsiderBlock(b) \/ PreciousBlock(b) \/ PruneOneBlockFile(b)
  BY <1>3, ReconsiderSelects, Zenon DEF PreciousBlock, PruneOneBlockFile, Plain
<1>4. CASE Activate
  BY <1>4, EnterSelects, FindSelects, LeaveSelects, StepSelects, DisconnectSelects, ConnectSelects,
     ConnectInvalidSelects, Zenon DEF Activate
<1>5. CASE Invalidate \/ \E b \in Branches : InvalidateStart(b)
  BY <1>5, InvalidateSelects
<1>6. CASE Restart
  BY <1>6, RestartSelects
<1> QED BY <1>1, <1>2, <1>3, <1>4, <1>5, <1>6, Zenon DEF Next

LEMMA SelectionHolds == Spec /\ Plain => [](Sound /\ Selection /\ Plain)
<1>1. Plain => Unpruned
  BY DEF Plain, Unpruned
<1>2. Plain /\ [Next]_vars => Plain'
  BY WorldStays, Zenon DEF Plain, Operator
<1>3. IInv /\ Basics /\ (Unpruned => Links /\ Marked) /\ Unpruned => Sound
  BY DEF Sound
<1> QED BY <1>1, <1>2, <1>3, LinksHold, SelectionInit, NextSelects, PTL DEF Spec

\* setBlockIndexCandidates in every block tree, on a node that does not prune: whenever
\* CheckBlockIndex may run it holds the tip and every fully downloaded block that is not known to
\* be invalid and is at least as good as the tip, and nothing worse or not linked; nothing builds
\* unmarked on a marked block.
THEOREM CandidatesAlwaysExact == Spec /\ Unpruned => []CandidatesExact
<1>1. Sound /\ Selection => CandidatesExact
  BY Places, Zenon DEF CandidatesExact, Sound, Selection, NoneWorse, Complete, Marked, Observable, Searching, Invalidating
<1>2. Spec /\ Plain => []CandidatesExact
  BY <1>1, SelectionHolds, PTL
<1>3. Spec /\ ~Plain /\ Unpruned => []CandidatesExact
  <2>1. ~Plain /\ Unpruned => "precious" \in Operator
    BY DEF Plain, Unpruned
  <2>2. "precious" \in Operator /\ [Next]_vars => ("precious" \in Operator)'
    BY WorldStays, Zenon DEF Operator
  <2>3. "precious" \in Operator => CandidatesExact
    BY Zenon DEF CandidatesExact
  <2> QED BY <2>1, <2>2, <2>3, PTL DEF Spec
<1> QED BY <1>2, <1>3

\* When every thread has returned from ActivateBestChain, no chain of received blocks that are not
\* known to be invalid has more work than the active one: in every block tree, whatever arrives,
\* fails to connect, is invalidated, reconsidered or loaded again meanwhile, on a node that does
\* not prune and without preciousblock.
THEOREM BestChainAlwaysActive == Spec /\ Plain => []BestChainActive
<1>1. Sound /\ Selection => BestChainActive
  <2> SUFFICES ASSUME Sound, Selection, pc = "idle", pending = 0, NEW b \in linked,
                      ChainWork[b] > ChainWork[tip], Unusable(b) = {}
               PROVE  FALSE
    BY Zenon DEF BestChainActive
  <2>1. ChainWork[b] \in Nat /\ ChainWork[tip] \in Nat /\ b \in Blocks
    BY Places, WorkUnfolds, Zenon
  <2>2. b \in failed
    <3>1. ~(ChainWork[b] <= ChainWork[tip])
      BY <2>1, SMTT(30)
    <3> QED BY <3>1, Zenon DEF Selection, NothingBetter
  <2>3. b \in Chain
    BY <2>1, <2>2, AncBasics, Zenon DEF Unusable, Path
  <2> QED BY <2>2, <2>3 DEF Sound, IInv, ActiveChainSound
<1> QED BY <1>1, SelectionHolds, PTL

\* ActivateBestChain never shows a tip worse than the one it found, in every block tree: however
\* many branches fail to connect, it gives cs_main up only once it is back at a tip that is at
\* least as good, and the old tip stays a candidate until then.
THEOREM VisibleTipIsNeverWorse == Spec /\ Plain => VisibleTipNeverWorse
<1>1. Sound /\ Selection /\ [Next]_vars =>
        [pc # "abc_unlocked" /\ pc' = "abc_unlocked" => ~Worse(tip', abc.start)]_vars
  <2> SUFFICES ASSUME Sound, Selection, Next, pc # "abc_unlocked", pc' = "abc_unlocked"
               PROVE  ~Worse(tip', abc.start)
    BY Zenon
  <2>1. ABCBreak \/ ABCConnect \/ ABCConnectInvalid
    BY ZenonT(40) DEF Next, ProcessNewBlockHeader, ProcessNewBlock, InvalidateStart, ReconsiderBlock,
           PreciousBlock, PruneOneBlockFile, Activate, ABCStart, FindMostWorkChain, ABCStep,
           ABCDisconnect, ABCUnlocked, Invalidate, InvalidateDisconnect, InvalidateStuck,
           InvalidateLeave, InvalidateMark, Restart
  <2>2. CASE ABCBreak
    BY <2>2, BreakTip, Zenon DEF ABCBreak
  <2>3. CASE ABCConnect
    BY <2>3 DEF ABCConnect, StepDone
  <2>4. CASE ABCConnectInvalid
    BY <2>4 DEF ABCConnectInvalid, StepDone
  <2> QED BY <2>1, <2>2, <2>3, <2>4
<1> QED BY <1>1, SelectionHolds, PTL DEF Spec, VisibleTipNeverWorse
=============================================================================
