----------------------------- MODULE TxRequest ------------------------------
(***************************************************************************)
(* The transaction request tracker (txrequest.cpp).  The announcements of  *)
(* one txhash are a column: a state for each peer, "none" where there is   *)
(* no announcement.  The tracker keeps in every column a selected one, the *)
(* peer to ask next or the one that was asked, and finds its successor     *)
(* among the neighbours in the ByTxHash index instead of searching.        *)
(*                                                                         *)
(* Its caller holds m_tx_download_mutex, so operations do not interleave.  *)
(* The loops of SetTimePoint are taken one turn at a time; nothing else    *)
(* can happen until GetRequestable returns.  m_peerinfo is left out: Erase *)
(* and Modify, the only ways to change an announcement, keep its counts.   *)
(***************************************************************************)
EXTENDS Integers

CONSTANTS
  Peers,
  Txs,        \* txhashes
  Priority,   \* PriorityComputer: Priority[t][p], fixed while a peer is connected
  Announcers, \* bound: Announcers[t], the peers that announce t
  Times,      \* bound: the points in time of the calls
  NoCall

ASSUME TrackerAssumption ==
  /\ Priority \in [Txs -> [Peers -> Int]]
  /\ \A t \in Txs : \A p, q \in Peers : Priority[t][p] = Priority[t][q] => p = q
  /\ \A t \in Txs : \A S \in (SUBSET Peers) \ {{}} :      \* there are finitely many priorities
       \E p \in S : \A q \in S : Priority[t][q] <= Priority[t][p]
  /\ Announcers \in [Txs -> SUBSET Peers] /\ Times \subseteq Int
  /\ NoCall \notin [peer : Peers, now : Int]

VARIABLES
  state,      \* state[t][p]: m_state, or "none"
  time,       \* time[t][p]: m_time; 0 where it is not used
  pc,         \* where GetRequestable is: "idle", "forward" or "backward"
  call,       \* its arguments
  ret         \* what it returned, until the next operation

vars == <<state, time, pc, call, ret>>

States == {"none", "DELAYED", "READY", "BEST", "REQUESTED", "COMPLETED"}

IsSelected(s) == s \in {"BEST", "REQUESTED"}
IsWaiting(s) == s \in {"REQUESTED", "DELAYED"}
IsSelectable(s) == s \in {"READY", "BEST"}

NoAnnouncements == [p \in Peers |-> "none"]

Init ==
  /\ state = [t \in Txs |-> NoAnnouncements]
  /\ time = [t \in Txs |-> [p \in Peers |-> 0]]
  /\ pc = "idle" /\ call = NoCall /\ ret = NoCall

-----------------------------------------------------------------------------
(* The ByTxHash index: by state, and the READY ones by priority *)

StateOrder(s) ==
  CASE s = "DELAYED" -> 1 [] s = "READY" -> 2 [] s = "BEST" -> 3
    [] s = "REQUESTED" -> 4 [] s = "COMPLETED" -> 5 [] OTHER -> 0

Before(c, t, p, q) ==
  /\ c[p] # "none" /\ c[q] # "none"
  /\ \/ StateOrder(c[p]) < StateOrder(c[q])
     \/ c[p] = "READY" /\ c[q] = "READY" /\ Priority[t][p] < Priority[t][q]

\* q is std::next of p (announcements of one state other than READY count as one place)
Adjacent(c, t, p, q) ==
  /\ Before(c, t, p, q)
  /\ ~\E r \in Peers : Before(c, t, p, r) /\ Before(c, t, r, q)

\* std::next of p is COMPLETED or of another txhash: COMPLETED is the last of the states
NothingOpenAfter(c, t, p) == \A q \in Peers : Before(c, t, p, q) => c[q] = "COMPLETED"

PromoteCandidateReady(c, t, p) ==
  LET ready == [c EXCEPT ![p] = "READY"]
      Beaten(q) == /\ ready[q] = "BEST" /\ Adjacent(ready, t, p, q)
                   /\ Priority[t][p] > Priority[t][q]
      Wins == NothingOpenAfter(ready, t, p) \/ \E r \in Peers : Beaten(r)
  IN [q \in Peers |-> IF q = p /\ Wins THEN "BEST"
                      ELSE IF Beaten(q) THEN "READY"
                      ELSE ready[q]]

ChangeAndReselect(c, t, p, new) ==
  [q \in Peers |-> IF q = p THEN new
                   ELSE IF IsSelected(c[p]) /\ c[q] = "READY" /\ Adjacent(c, t, q, p) THEN "BEST"
                   ELSE c[q]]

\* The two neighbours of p: nothing comes before p in its column, nothing open after it.
IsOnlyNonCompleted(c, t, p) ==
  /\ \A q \in Peers \ {p} : c[q] # "none" => StateOrder(c[q]) > StateOrder(c[p])
  /\ NothingOpenAfter(c, t, p)

MakeCompleted(c, t, p) ==
  IF c[p] = "COMPLETED" THEN c
  ELSE IF IsOnlyNonCompleted(c, t, p) THEN NoAnnouncements
  ELSE ChangeAndReselect(c, t, p, "COMPLETED")

Used(s) == s \notin {"none", "COMPLETED"}

\* The new column of t, with the times `times'
Change(t, c, times) ==
  /\ state' = [state EXCEPT ![t] = c]
  /\ time' = [time EXCEPT ![t] = [p \in Peers |-> IF Used(c[p]) THEN times[p] ELSE 0]]

-----------------------------------------------------------------------------
(* The operations *)

Operation == pc = "idle" /\ ret' = NoCall /\ UNCHANGED <<pc, call>>

ReceivedInv(p, t, reqtime) ==
  /\ Operation
  /\ IF state[t][p] = "none"
     THEN Change(t, [state[t] EXCEPT ![p] = "DELAYED"], [time[t] EXCEPT ![p] = reqtime])
     ELSE UNCHANGED <<state, time>>

ForgetTxHash(t) == Operation /\ Change(t, NoAnnouncements, time[t])

\* What is left of a column when p has gone
Disconnected(c, t, p) ==
  IF c[p] = "none" THEN c ELSE [MakeCompleted(c, t, p) EXCEPT ![p] = "none"]

DisconnectedPeer(p) ==
  /\ Operation
  /\ state' = [t \in Txs |-> Disconnected(state[t], t, p)]
  /\ time' = [t \in Txs |-> [time[t] EXCEPT ![p] = 0]]

ReceivedResponse(p, t) ==
  /\ Operation
  /\ IF state[t][p] = "none" THEN UNCHANGED <<state, time>>
     ELSE Change(t, MakeCompleted(state[t], t, p), time[t])

\* Mutant: the request that is out stays out.
RequestedBesides(c, p) ==
  [q \in Peers |-> IF q = p THEN "REQUESTED" ELSE IF c[q] = "BEST" THEN "READY" ELSE c[q]]

\* The column after p was asked.  When p was not BEST, another selected one steps back.
Requested(c, p) ==
  [q \in Peers |->
     IF q = p THEN "REQUESTED"
     ELSE IF c[p] # "BEST" /\ c[q] = "BEST" THEN "READY"
     ELSE IF c[p] # "BEST" /\ c[q] = "REQUESTED" /\ \A r \in Peers : c[r] # "BEST" THEN "COMPLETED"
     ELSE c[q]]

RequestedTx(p, t, expiry) ==
  /\ Operation
  /\ IF state[t][p] \in {"BEST", "DELAYED", "READY"}
     THEN Change(t, Requested(state[t], p), [time[t] EXCEPT ![p] = expiry])
     ELSE UNCHANGED <<state, time>>

-----------------------------------------------------------------------------
(* GetRequestable *)

GetRequestable(p, now) ==
  /\ pc = "idle"
  /\ pc' = "forward"
  /\ call' = [peer |-> p, now |-> now]
  /\ ret' = NoCall
  /\ UNCHANGED <<state, time>>

Due(t, p) == IsWaiting(state[t][p]) /\ time[t][p] <= call.now

\* Nothing that waits comes before it in the ByTime index.
AtFront(t, p) == \A u \in Txs, q \in Peers : IsWaiting(state[u][q]) => time[t][p] <= time[u][q]

\* One turn of the first loop of SetTimePoint
Forward(p, t) ==
  /\ pc = "forward" /\ Due(t, p) /\ AtFront(t, p)
  /\ Change(t, IF state[t][p] = "DELAYED" THEN PromoteCandidateReady(state[t], t, p)
               ELSE MakeCompleted(state[t], t, p),
            time[t])
  /\ UNCHANGED <<pc, call, ret>>

EndForward ==
  /\ pc = "forward"
  /\ ~\E t \in Txs, p \in Peers : Due(t, p)
  /\ pc' = "backward"
  /\ UNCHANGED <<state, time, call, ret>>

\* Mutant: candidates that are ahead of a clock set back stay available.
NeverEarly(t, p) == FALSE

\* The clock went back behind it.
Early(t, p) == IsSelectable(state[t][p]) /\ time[t][p] > call.now

AtBack(t, p) == \A u \in Txs, q \in Peers : IsSelectable(state[u][q]) => time[t][p] >= time[u][q]

\* One turn of the second loop
Backward(p, t) ==
  /\ pc = "backward" /\ Early(t, p) /\ AtBack(t, p)
  /\ Change(t, ChangeAndReselect(state[t], t, p, "DELAYED"), time[t])
  /\ UNCHANGED <<pc, call, ret>>

\* The rest of GetRequestable
EndBackward ==
  /\ pc = "backward"
  /\ ~\E t \in Txs, p \in Peers : Early(t, p)
  /\ ret' = {t \in Txs : state[t][call.peer] = "BEST"}
  /\ pc' = "idle" /\ call' = NoCall
  /\ UNCHANGED <<state, time>>

Next ==
  \/ \E t \in Txs : \E p \in Announcers[t], when \in Times : ReceivedInv(p, t, when)
  \/ \E p \in Peers, t \in Txs, when \in Times : RequestedTx(p, t, when)
  \/ \E t \in Txs : ForgetTxHash(t)
  \/ \E p \in Peers : DisconnectedPeer(p)
  \/ \E p \in Peers, t \in Txs : ReceivedResponse(p, t) \/ Forward(p, t) \/ Backward(p, t)
  \/ \E p \in Peers, now \in Times : GetRequestable(p, now)
  \/ EndForward
  \/ EndBackward

Spec == Init /\ [][Next]_vars

-----------------------------------------------------------------------------
(* Properties *)

\* SanityCheck's invariants: a txhash is forgotten when only failed announcements are left of
\* it, one announcement at most is selected, a READY one means that one is, and the BEST one
\* beats all READY ones.  The code only looks at neighbours in an index that relies on this.
ColumnSane(c, t) ==
  /\ (\E p \in Peers : c[p] # "none") => \E p \in Peers : Used(c[p])
  /\ \A p, q \in Peers : IsSelected(c[p]) /\ IsSelected(c[q]) => p = q
  /\ \A p \in Peers : c[p] = "READY" =>
       \E q \in Peers : \/ c[q] = "REQUESTED"
                        \/ c[q] = "BEST" /\ Priority[t][q] > Priority[t][p]

IndexSane == \A t \in Txs : ColumnSane(state[t], t)

Status(s) ==
  CASE s \in {"DELAYED", "READY", "BEST"} -> "candidate"
    [] s = "REQUESTED" -> "requested"
    [] s = "COMPLETED" -> "completed"
    [] OTHER -> "none"

Rules == INSTANCE RequestRules WITH
  status <- [t \in Txs |-> [p \in Peers |-> Status(state[t][p])]],
  due <- time

\* The tracker implements the rules of txrequest.h: GetRequestable names exactly the
\* transactions that a search through all announcements would find, whatever came before.
ImplementsRules == Rules!Spec
=============================================================================
