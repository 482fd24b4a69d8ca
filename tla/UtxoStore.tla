----------------------------- MODULE UtxoStore -----------------------------
(***************************************************************************)
(* What the coins hierarchy promises: a store of unspent outputs with one  *)
(* open transaction at a time.  `disk' is what a restart would find,       *)
(* `committed' what every reader of the chainstate sees, `working' what    *)
(* the block being connected or disconnected sees.  There is no caching,   *)
(* no flag and no flush order here: CoinsCache is shown to implement it.   *)
(***************************************************************************)
CONSTANTS
  Outpoints,   \* COutPoint
  Coins,       \* unspent outputs (Coin with a non-null CTxOut)
  NoCoin,      \* a null (spent) Coin
  Blocks,      \* block hashes
  NoBlock      \* the null hash

VARIABLES
  disk,        \* [coin |-> Outpoints -> Coins or NoCoin, best |-> block]
  committed,
  working,
  open         \* is a block being connected or disconnected?

vars == <<disk, committed, working, open>>

Store == [coin : [Outpoints -> Coins \cup {NoCoin}], best : Blocks \cup {NoBlock}]

EmptyStore == [coin |-> [o \in Outpoints |-> NoCoin], best |-> NoBlock]

Init ==
  /\ disk = EmptyStore
  /\ committed = EmptyStore
  /\ working = EmptyStore
  /\ open = FALSE

Begin ==
  /\ ~open
  /\ open' = TRUE
  /\ UNCHANGED <<disk, committed, working>>

Put(o, c) ==
  /\ open
  /\ working' = [coin |-> [working.coin EXCEPT ![o] = c], best |-> working.best]
  /\ UNCHANGED <<disk, committed, open>>

Remove(o) == Put(o, NoCoin)

\* The whole block becomes visible at once, together with its hash.
Commit(b) ==
  /\ open
  /\ working' = [coin |-> working.coin, best |-> b]
  /\ committed' = working'
  /\ open' = FALSE
  /\ UNCHANGED disk

\* Nothing of an abandoned block is ever visible.
Abandon ==
  /\ open
  /\ working' = committed
  /\ open' = FALSE
  /\ UNCHANGED <<disk, committed>>

Persist ==
  /\ ~open
  /\ committed.best # NoBlock
  /\ disk' = committed
  /\ UNCHANGED <<committed, working, open>>

Next ==
  \/ Begin
  \/ \E o \in Outpoints : (\E c \in Coins : Put(o, c)) \/ Remove(o)
  \/ \E b \in Blocks : Commit(b)
  \/ Abandon
  \/ Persist

Spec == Init /\ [][Next]_vars
=============================================================================
