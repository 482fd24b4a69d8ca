---------------------------- MODULE RequestRules ----------------------------
(***************************************************************************)
(* What the transaction request tracker promises (the rules in             *)
(* txrequest.h), with nothing precomputed: an announcement is a candidate, *)
(* requested or completed, and what may be asked of a peer is worked out   *)
(* from these when GetRequestable asks for it.  TxRequest, which keeps the *)
(* choice up to date as it goes along, is shown to implement it.           *)
(***************************************************************************)
EXTENDS Integers

CONSTANTS
  Peers,
  Txs,        \* txhashes
  Priority,   \* Priority[t][p]: who is asked first for t
  Times,      \* the points in time of the calls
  NoCall      \* no call of GetRequestable is running, or none has returned

VARIABLES
  status,     \* status[t][p]
  due,        \* due[t][p]: a candidate's reqtime, a request's expiry
  call,       \* the GetRequestable call that runs: its peer and time
  ret         \* what it returned, until the next operation

vars == <<status, due, call, ret>>

Forgotten == [p \in Peers |-> "none"]

Live(s) == s \in {"candidate", "requested"}

\* An announcement that has failed is kept only as long as another may succeed.
Purged(col) == IF \E p \in Peers : Live(col[p]) THEN col ELSE Forgotten

\* `due' means something only of what is still to come.
Change(t, col, times) ==
  /\ status' = [status EXCEPT ![t] = col]
  /\ due' = [due EXCEPT ![t] = [p \in Peers |-> IF Live(col[p]) THEN times[p] ELSE 0]]

Init ==
  /\ status = [t \in Txs |-> Forgotten]
  /\ due = [t \in Txs |-> [p \in Peers |-> 0]]
  /\ call = NoCall
  /\ ret = NoCall

ReceivedInv(p, t, reqtime) ==
  /\ call = NoCall
  /\ status[t][p] = "none"
  /\ Change(t, [status[t] EXCEPT ![p] = "candidate"], [due[t] EXCEPT ![p] = reqtime])
  /\ ret' = NoCall
  /\ UNCHANGED call

ForgetTxHash(t) ==
  /\ call = NoCall
  /\ Change(t, Forgotten, due[t])
  /\ ret' = NoCall
  /\ UNCHANGED call

DisconnectedPeer(p) ==
  /\ call = NoCall
  /\ status' = [t \in Txs |-> Purged([status[t] EXCEPT ![p] = "none"])]
  /\ due' = [t \in Txs |-> [due[t] EXCEPT ![p] = 0]]
  /\ ret' = NoCall
  /\ UNCHANGED call

ReceivedResponse(p, t) ==
  /\ call = NoCall
  /\ Live(status[t][p])
  /\ Change(t, Purged([status[t] EXCEPT ![p] = "completed"]), due[t])
  /\ ret' = NoCall
  /\ UNCHANGED call

\* A new request gives up the one that is out.
RequestedTx(p, t, expiry) ==
  /\ call = NoCall
  /\ status[t][p] = "candidate"
  /\ Change(t, [q \in Peers |-> IF q = p THEN "requested"
                                ELSE IF status[t][q] = "requested" THEN "completed"
                                ELSE status[t][q]],
            [due[t] EXCEPT ![p] = expiry])
  /\ ret' = NoCall
  /\ UNCHANGED call

\* A call without effect
Ignored == call = NoCall /\ ret' = NoCall /\ UNCHANGED <<status, due, call>>

BeginGetRequestable(p, now) ==
  /\ call = NoCall
  /\ call' = [peer |-> p, now |-> now]
  /\ ret' = NoCall
  /\ UNCHANGED <<status, due>>

Expire(p, t) ==
  /\ call # NoCall
  /\ status[t][p] = "requested" /\ due[t][p] <= call.now
  /\ Change(t, Purged([status[t] EXCEPT ![p] = "completed"]), due[t])
  /\ UNCHANGED <<call, ret>>

MayAsk(p, t, now) == status[t][p] = "candidate" /\ due[t][p] <= now

\* p is asked for t: no request for t is out, and no other peer comes first.
Chosen(p, t, now) ==
  /\ MayAsk(p, t, now)
  /\ \A q \in Peers : /\ status[t][q] # "requested"
                      /\ MayAsk(q, t, now) => Priority[t][q] <= Priority[t][p]

EndGetRequestable ==
  /\ call # NoCall
  /\ \A t \in Txs, p \in Peers : status[t][p] = "requested" => due[t][p] > call.now
  /\ ret' = {t \in Txs : Chosen(call.peer, t, call.now)}
  /\ call' = NoCall
  /\ UNCHANGED <<status, due>>

Next ==
  \/ \E p \in Peers, t \in Txs, when \in Times : ReceivedInv(p, t, when) \/ RequestedTx(p, t, when)
  \/ \E t \in Txs : ForgetTxHash(t)
  \/ \E p \in Peers : DisconnectedPeer(p)
  \/ \E p \in Peers, t \in Txs : ReceivedResponse(p, t) \/ Expire(p, t)
  \/ Ignored
  \/ \E p \in Peers, now \in Times : BeginGetRequestable(p, now)
  \/ EndGetRequestable

Spec == Init /\ [][Next]_vars
=============================================================================
