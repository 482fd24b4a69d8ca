--------------------------- MODULE TxRequestProofs --------------------------
(***************************************************************************)
(* Proofs about TxRequest, for any peers, txhashes, priorities and times.  *)
(* SanityCheck's invariant is inductive once the variables have their      *)
(* types: the column lemmas show that each of the four changes of a column *)
(* keeps it.                                                               *)
(***************************************************************************)
EXTENDS TxRequest, TLAPS

Column == [Peers -> States]

\* No other announcement of the column is open.
Alone(c, p) == \A q \in Peers \ {p} : ~Used(c[q])

-----------------------------------------------------------------------------
(* Columns *)

\* The READY announcement just below the selected one is the best of them.
LEMMA BestBelowSelected ==
  ASSUME NEW t \in Txs, NEW c \in Column, ColumnSane(c, t),
         NEW p \in Peers, IsSelected(c[p]), NEW q \in Peers, c[q] = "READY"
  PROVE  Adjacent(c, t, q, p) <=>
           \A r \in Peers : c[r] = "READY" => Priority[t][r] <= Priority[t][q]
<1> Priority[t] \in [Peers -> Int]
  BY TrackerAssumption
<1>1. Before(c, t, q, p)
  BY DEF Before, StateOrder, IsSelected
<1>2. \A r \in Peers : (Before(c, t, q, r) /\ Before(c, t, r, p))
                         <=> (c[r] = "READY" /\ Priority[t][q] < Priority[t][r])
  <2> TAKE r \in Peers
  <2>1. c[r] \in States
    BY DEF Column
  <2>2. c[r] \in {"BEST", "REQUESTED"} => r = p
    BY DEF ColumnSane, IsSelected
  <2> QED
    BY <2>1, <2>2 DEF Before, StateOrder, IsSelected, States
<1> QED
  BY <1>1, <1>2 DEF Adjacent

\* Where there are READY announcements, one of them is the best.
LEMMA BestReadyExists ==
  ASSUME NEW t \in Txs, NEW c \in Column, NEW p \in Peers, c[p] = "READY"
  PROVE  \E q \in Peers : /\ c[q] = "READY"
                          /\ \A r \in Peers : c[r] = "READY" => Priority[t][r] <= Priority[t][q]
<1> DEFINE S == {q \in Peers : c[q] = "READY"}
<1>1. S \in (SUBSET Peers) \ {{}}
  OBVIOUS
<1>2. PICK q \in S : \A r \in S : Priority[t][r] <= Priority[t][q]
  BY <1>1, TrackerAssumption, Zenon
<1> QED
  BY <1>2

LEMMA AloneMeansOnly ==
  ASSUME NEW t \in Txs, NEW c \in Column, NEW p \in Peers, Used(c[p])
  PROVE  IsOnlyNonCompleted(c, t, p) <=> Alone(c, p)
<1> \A q \in Peers : c[q] \in States
  BY DEF Column
<1> Priority[t] \in [Peers -> Int]
  BY TrackerAssumption
<1>1. ASSUME IsOnlyNonCompleted(c, t, p), NEW q \in Peers \ {p}, Used(c[q])
      PROVE  FALSE
  <2>1. StateOrder(c[q]) > StateOrder(c[p])
    BY <1>1 DEF IsOnlyNonCompleted, Used
  <2>2. Before(c, t, p, q)
    BY <1>1, <2>1 DEF Before, Used, StateOrder, States
  <2> QED
    BY <1>1, <2>2 DEF IsOnlyNonCompleted, NothingOpenAfter, Used
<1>2. ASSUME Alone(c, p)
      PROVE  IsOnlyNonCompleted(c, t, p)
  <2>1. \A q \in Peers \ {p} : c[q] # "none" => StateOrder(c[q]) > StateOrder(c[p])
    BY <1>2 DEF Alone, Used, StateOrder, States
  <2>2. NothingOpenAfter(c, t, p)
    BY <1>2 DEF NothingOpenAfter, Before, Alone, Used, StateOrder, States
  <2> QED
    BY <2>1, <2>2 DEF IsOnlyNonCompleted
<1> QED
  BY <1>1, <1>2 DEF Alone

LEMMA ReselectType ==
  ASSUME NEW t \in Txs, NEW c \in Column, NEW p \in Peers, NEW new \in States
  PROVE  ChangeAndReselect(c, t, p, new) \in Column
BY DEF ChangeAndReselect, Column, States

\* ChangeAndReselect keeps a column sane, as long as an open announcement stays.
LEMMA ReselectSane ==
  ASSUME NEW t \in Txs, NEW c \in Column, ColumnSane(c, t), NEW p \in Peers,
         NEW new \in {"COMPLETED", "DELAYED"}, Used(c[p]),
         new = "DELAYED" \/ ~Alone(c, p)
  PROVE  ColumnSane(ChangeAndReselect(c, t, p, new), t)
<1> DEFINE d == ChangeAndReselect(c, t, p, new)
<1> HIDE DEF d
<1> Priority[t] \in [Peers -> Int]
  BY TrackerAssumption
<1>0. \A q \in Peers : c[q] \in States
  BY DEF Column
<1>1. d[p] = new
  BY DEF d, ChangeAndReselect
<1>2. \A q \in Peers \ {p} :
        d[q] = IF IsSelected(c[p]) /\ c[q] = "READY" /\ Adjacent(c, t, q, p) THEN "BEST" ELSE c[q]
  BY DEF d, ChangeAndReselect
<1>3. \E q \in Peers : Used(d[q])
  BY <1>1, <1>2 DEF Used, Alone
<1>4. CASE IsSelected(c[p])
  <2>1. \A q \in Peers \ {p} : ~IsSelected(c[q])
    BY <1>4 DEF ColumnSane
  <2>2. \A q \in Peers \ {p} : IsSelected(d[q]) =>
          /\ c[q] = "READY"
          /\ d[q] = "BEST"
          /\ \A r \in Peers : c[r] = "READY" => Priority[t][r] <= Priority[t][q]
    BY <1>2, <1>4, <2>1, BestBelowSelected DEF IsSelected
  <2>3. \A q, r \in Peers : IsSelected(d[q]) /\ IsSelected(d[r]) => q = r
    <3> TAKE q, r \in Peers
    <3> HAVE IsSelected(d[q]) /\ IsSelected(d[r])
    <3>1. q # p /\ r # p
      BY <1>1 DEF IsSelected
    <3>2. Priority[t][q] <= Priority[t][r] /\ Priority[t][r] <= Priority[t][q]
      BY <3>1, <2>2
    <3>3. Priority[t][q] \in Int /\ Priority[t][r] \in Int
      OBVIOUS
    <3>4. Priority[t][q] = Priority[t][r]
      BY <3>2, <3>3
    <3> QED
      BY <3>4, TrackerAssumption
  <2>4. ASSUME NEW q \in Peers, d[q] = "READY"
        PROVE  \E r \in Peers : d[r] = "BEST" /\ Priority[t][r] > Priority[t][q]
    <3>1. c[q] = "READY" /\ q # p
      BY <2>4, <1>1, <1>2
    <3>2. PICK r \in Peers : /\ c[r] = "READY"
                             /\ \A u \in Peers : c[u] = "READY" => Priority[t][u] <= Priority[t][r]
      BY <3>1, BestReadyExists
    <3>3. r # p
      BY <3>2, <1>4 DEF IsSelected
    <3>4. Adjacent(c, t, r, p)
      BY <3>2, <1>4, BestBelowSelected
    <3>5. d[r] = "BEST"
      BY <3>2, <3>3, <3>4, <1>2, <1>4
    <3>6. r # q
      BY <3>5, <2>4
    <3>7. Priority[t][q] <= Priority[t][r] /\ Priority[t][q] # Priority[t][r]
      BY <3>1, <3>2, <3>6, TrackerAssumption
    <3> QED
      BY <3>5, <3>7
  <2> QED
    BY <1>3, <2>3, <2>4 DEF ColumnSane, d
<1>5. CASE ~IsSelected(c[p])
  <2>1. \A q \in Peers \ {p} : d[q] = c[q]
    BY <1>2, <1>5, Zenon
  <2>2. \A q, r \in Peers : IsSelected(d[q]) /\ IsSelected(d[r]) => q = r
    BY <1>1, <2>1 DEF ColumnSane, IsSelected
  <2>3. ASSUME NEW q \in Peers, d[q] = "READY"
        PROVE  \E r \in Peers : d[r] = "REQUESTED" \/ (d[r] = "BEST" /\ Priority[t][r] > Priority[t][q])
    <3>1. c[q] = "READY"
      BY <2>3, <1>1, <2>1
    <3> QED
      BY <3>1, <1>5, <2>1 DEF ColumnSane, IsSelected
  <2> QED
    BY <1>3, <2>2, <2>3 DEF ColumnSane, d
<1> QED
  BY <1>4, <1>5

LEMMA CompletedOK ==
  ASSUME NEW t \in Txs, NEW c \in Column, ColumnSane(c, t), NEW p \in Peers, c[p] # "none"
  PROVE  /\ MakeCompleted(c, t, p) \in Column
         /\ ColumnSane(MakeCompleted(c, t, p), t)
<1>0. c[p] \in States
  BY DEF Column
<1>1. NoAnnouncements \in Column /\ ColumnSane(NoAnnouncements, t)
  BY DEF NoAnnouncements, Column, States, ColumnSane, IsSelected
<1>2. CASE c[p] # "COMPLETED" /\ ~IsOnlyNonCompleted(c, t, p)
  <2>1. Used(c[p]) /\ ~Alone(c, p)
    BY <1>2, AloneMeansOnly DEF Used
  <2> QED
    BY <1>2, <2>1, ReselectSane, ReselectType DEF MakeCompleted, States
<1> QED
  BY <1>1, <1>2 DEF MakeCompleted

\* The announcement of a peer that leaves is erased after it was made COMPLETED.
LEMMA DisconnectedOK ==
  ASSUME NEW t \in Txs, NEW c \in Column, ColumnSane(c, t), NEW p \in Peers
  PROVE  /\ Disconnected(c, t, p) \in Column
         /\ ColumnSane(Disconnected(c, t, p), t)
<1> DEFINE m == MakeCompleted(c, t, p)
<1>1. CASE c[p] = "none"
  BY <1>1 DEF Disconnected
<1>2. CASE c[p] # "none"
  <2>1. m \in Column /\ ColumnSane(m, t)
    BY <1>2, CompletedOK
  <2>2. m[p] \in {"none", "COMPLETED"}
    BY DEF MakeCompleted, NoAnnouncements, ChangeAndReselect
  <2>3. Disconnected(c, t, p) = [m EXCEPT ![p] = "none"]
    BY <1>2 DEF Disconnected
  <2> HIDE DEF m
  <2>4. [m EXCEPT ![p] = "none"] \in Column
    BY <2>1 DEF Column, States
  <2>5. ColumnSane([m EXCEPT ![p] = "none"], t)
    <3> DEFINE d == [m EXCEPT ![p] = "none"]
    <3>1. d[p] = "none" /\ \A q \in Peers \ {p} : d[q] = m[q]
      BY <2>1 DEF Column
    <3> HIDE DEF d
    <3>2. (\E q \in Peers : d[q] # "none") => \E q \in Peers : Used(d[q])
      BY <2>1, <2>2, <3>1 DEF ColumnSane, Used
    <3>3. \A q, r \in Peers : IsSelected(d[q]) /\ IsSelected(d[r]) => q = r
      BY <2>1, <3>1 DEF ColumnSane, IsSelected
    <3>4. \A q \in Peers : d[q] = "READY" =>
            \E r \in Peers : d[r] = "REQUESTED" \/ (d[r] = "BEST" /\ Priority[t][r] > Priority[t][q])
      BY <2>1, <2>2, <3>1 DEF ColumnSane
    <3> QED
      BY <3>2, <3>3, <3>4 DEF ColumnSane, d
  <2> QED
    BY <2>3, <2>4, <2>5
<1> QED
  BY <1>1, <1>2

LEMMA RequestedOK ==
  ASSUME NEW t \in Txs, NEW c \in Column, ColumnSane(c, t), NEW p \in Peers,
         c[p] \in {"BEST", "DELAYED", "READY"}
  PROVE  /\ Requested(c, p) \in Column
         /\ ColumnSane(Requested(c, p), t)
         /\ \A q \in Peers \ {p} : ~IsSelected(Requested(c, p)[q])
<1> DEFINE d == Requested(c, p)
<1>1. d \in Column
  BY DEF Requested, Column, States
<1>2. d[p] = "REQUESTED"
  BY DEF Requested
<1>3. \A q \in Peers \ {p} : ~IsSelected(d[q])
  <2> TAKE q \in Peers \ {p}
  <2>1. CASE c[p] = "BEST"
    BY <2>1 DEF Requested, ColumnSane, IsSelected
  <2>2. CASE c[p] # "BEST"
    <3>1. c[q] = "REQUESTED" => \A r \in Peers : c[r] # "BEST"
      BY DEF ColumnSane, IsSelected
    <3> QED
      BY <2>2, <3>1 DEF Requested, IsSelected
  <2> QED
    BY <2>1, <2>2
<1> HIDE DEF d
<1>4. ColumnSane(d, t)
  BY <1>2, <1>3 DEF ColumnSane, Used, IsSelected
<1> QED
  BY <1>1, <1>3, <1>4 DEF d

\* A READY announcement takes the lead exactly if it beats all that are offered.
LEMMA PromotedOK ==
  ASSUME NEW t \in Txs, NEW c \in Column, ColumnSane(c, t), NEW p \in Peers, c[p] = "DELAYED"
  PROVE  /\ PromoteCandidateReady(c, t, p) \in Column
         /\ ColumnSane(PromoteCandidateReady(c, t, p), t)
<1> DEFINE ready == [c EXCEPT ![p] = "READY"]
           Beaten(q) == /\ ready[q] = "BEST" /\ Adjacent(ready, t, p, q)
                        /\ Priority[t][p] > Priority[t][q]
           Wins == NothingOpenAfter(ready, t, p) \/ \E r \in Peers : Beaten(r)
           d == PromoteCandidateReady(c, t, p)
<1>0. d = [q \in Peers |-> IF q = p /\ Wins THEN "BEST"
                           ELSE IF Beaten(q) THEN "READY" ELSE ready[q]]
  BY DEF PromoteCandidateReady
<1>1. ready[p] = "READY" /\ \A q \in Peers \ {p} : ready[q] = c[q]
  BY DEF Column
<1>2. ready \in Column
  BY DEF Column, States
<1> Priority[t] \in [Peers -> Int]
  BY TrackerAssumption
<1> HIDE DEF ready, Wins, d
<1>3. d \in Column
  BY <1>0, <1>2 DEF Column, States
<1>4. \A q \in Peers : ready[q] \in States
  BY <1>2 DEF Column
<1>5. \A q, r \in Peers : IsSelected(ready[q]) /\ IsSelected(ready[r]) => q = r
  BY <1>1 DEF ColumnSane, IsSelected
<1>6. \A q \in Peers \ {p} : ready[q] = "READY" =>
        \E r \in Peers \ {p} : ready[r] = "REQUESTED" \/ (ready[r] = "BEST" /\ Priority[t][r] > Priority[t][q])
  BY <1>1 DEF ColumnSane
<1>7. \A q \in Peers : Before(ready, t, p, q) <=>
        \/ ready[q] \in {"BEST", "REQUESTED", "COMPLETED"}
        \/ ready[q] = "READY" /\ Priority[t][p] < Priority[t][q]
  <2> TAKE q \in Peers
  <2>1. ready[q] \in States /\ ready[p] = "READY"
    BY <1>1, <1>4
  <2> QED
    BY <2>1 DEF Before, StateOrder, States
<1>8. \A q \in Peers : ready[q] = "BEST" =>
        (Adjacent(ready, t, p, q) <=> \A r \in Peers : ready[r] = "READY" => Priority[t][r] <= Priority[t][p])
  <2> TAKE q \in Peers
  <2> HAVE ready[q] = "BEST"
  <2>1. \A r \in Peers : Before(ready, t, r, q) <=> ready[r] \in {"DELAYED", "READY"}
    BY <1>4 DEF Before, StateOrder, States
  <2> QED
    BY <1>7, <2>1 DEF Adjacent
<1>9. CASE NothingOpenAfter(ready, t, p)
  <2>1. \A q \in Peers \ {p} : ready[q] \notin {"BEST", "REQUESTED", "READY"}
    <3>1. \A q \in Peers : ready[q] \notin {"BEST", "REQUESTED"}
      BY <1>7, <1>9, Zenon DEF NothingOpenAfter
    <3> QED
      BY <1>6, <3>1, Zenon
  <2>2. d[p] = "BEST" /\ \A q \in Peers \ {p} : d[q] = ready[q]
    BY <1>0, <1>9, <2>1 DEF Wins
  <2> QED
    BY <1>3, <2>1, <2>2 DEF ColumnSane, IsSelected, Used, d
<1>10. CASE ~NothingOpenAfter(ready, t, p) /\ \E r \in Peers : Beaten(r)
  <2>1. PICK b \in Peers : Beaten(b)
    BY <1>10
  <2>2. b # p /\ ready[b] = "BEST"
    BY <1>1, <2>1
  <2>3. \A q \in Peers \ {b} : ~IsSelected(ready[q])
    BY <1>5, <2>2, Zenon DEF IsSelected
  <2>4. d[p] = "BEST" /\ d[b] = "READY" /\ \A q \in Peers \ {p, b} : d[q] = ready[q]
    BY <1>0, <2>1, <2>2, <2>3 DEF Wins, IsSelected
  <2>5. \A q \in Peers : ready[q] = "READY" => Priority[t][q] <= Priority[t][p]
    BY <1>8, <2>1
  <2>6. \A q \in Peers \ {p} : d[q] = "READY" => Priority[t][q] < Priority[t][p]
    <3> TAKE q \in Peers \ {p}
    <3> HAVE d[q] = "READY"
    <3>1. CASE q = b
      BY <2>1, <3>1
    <3>2. CASE q # b
      <4>1. Priority[t][q] <= Priority[t][p]
        BY <3>2, <2>4, <2>5
      <4>2. Priority[t][q] # Priority[t][p]
        BY TrackerAssumption
      <4> QED
        BY <4>1, <4>2
    <3> QED
      BY <3>1, <3>2
  <2>7. \A q \in Peers \ {p} : ~IsSelected(d[q])
    BY <2>3, <2>4, Zenon DEF IsSelected
  <2> QED
    BY <1>3, <2>4, <2>6, <2>7 DEF ColumnSane, IsSelected, Used, d
<1>11. CASE ~Wins
  <2>1. d = ready
    BY <1>0, <1>2, <1>11 DEF Wins, Column
  <2>2. PICK s \in Peers : IsSelected(ready[s])
    <3>1. PICK r \in Peers : Before(ready, t, p, r) /\ ready[r] # "COMPLETED"
      BY <1>11 DEF Wins, NothingOpenAfter
    <3>2. CASE ready[r] \in {"BEST", "REQUESTED"}
      BY <3>2 DEF IsSelected
    <3>3. CASE ready[r] = "READY"
      <4>1. r # p
        BY <1>7, <3>1, <3>3
      <4> QED
        BY <1>6, <3>3, <4>1 DEF IsSelected
    <3> QED
      BY <1>7, <3>1, <3>2, <3>3
  <2>3. \A q \in Peers : ready[q] = "READY" =>
          \E r \in Peers : ready[r] = "REQUESTED" \/ (ready[r] = "BEST" /\ Priority[t][r] > Priority[t][q])
    <3> TAKE q \in Peers
    <3> HAVE ready[q] = "READY"
    <3>1. CASE q # p
      BY <1>6, <3>1
    <3>2. CASE q = p /\ ready[s] = "REQUESTED"
      BY <3>2
    <3>3. CASE q = p /\ ready[s] = "BEST"
      <4>1. s # p
        BY <1>1, <3>3
      <4>2. CASE Adjacent(ready, t, p, s)
        <5>1. Priority[t][p] <= Priority[t][s]
          BY <4>2, <3>3, <1>11 DEF Wins
        <5>2. Priority[t][p] # Priority[t][s]
          BY <4>1, TrackerAssumption
        <5> QED
          BY <5>1, <5>2, <3>3
      <4>3. CASE ~Adjacent(ready, t, p, s)
        <5>1. PICK r \in Peers : ready[r] = "READY" /\ Priority[t][r] > Priority[t][p]
          BY <1>8, <3>3, <4>3
        <5>2. r # p
          BY <5>1
        <5>3. PICK u \in Peers : ready[u] = "REQUESTED" \/ (ready[u] = "BEST" /\ Priority[t][u] > Priority[t][r])
          BY <1>6, <5>1, <5>2
        <5> QED
          BY <5>1, <5>3, <3>3
      <4> QED
        BY <4>2, <4>3
    <3> QED
      BY <2>2, <3>1, <3>2, <3>3 DEF IsSelected
  <2>4. Used(ready[p])
    BY <1>1 DEF Used
  <2> QED
    BY <1>2, <1>5, <2>1, <2>3, <2>4 DEF ColumnSane, d
<1> QED
  BY <1>9, <1>10, <1>11 DEF Wins

-----------------------------------------------------------------------------
(* The inductive invariant *)

TypeOK ==
  /\ state \in [Txs -> Column]
  /\ time \in [Txs -> [Peers -> Int]]
  /\ \/ pc = "idle" /\ call = NoCall
     \/ pc \in {"forward", "backward"} /\ call \in [peer : Peers, now : Int]

\* The first loop leaves nothing that is due, and the second adds nothing.
NothingDue == pc = "backward" => \A t \in Txs, p \in Peers : ~Due(t, p)

UnusedTimesZero == \A t \in Txs, p \in Peers : ~Used(state[t][p]) => time[t][p] = 0

IInv == TypeOK /\ IndexSane /\ NothingDue /\ UnusedTimesZero

\* A change of one column needs to be looked at in that column only.
LEMMA ChangeKeeps ==
  ASSUME TypeOK, IndexSane, UnusedTimesZero, NEW t \in Txs, NEW c \in Column, ColumnSane(c, t),
         NEW times \in [Peers -> Int], Change(t, c, times)
  PROVE  /\ state' \in [Txs -> Column] /\ time' \in [Txs -> [Peers -> Int]]
         /\ IndexSane' /\ UnusedTimesZero'
         /\ state'[t] = c /\ \A p \in Peers : time'[t][p] = IF Used(c[p]) THEN times[p] ELSE 0
         /\ \A u \in Txs \ {t} : state'[u] = state[u] /\ time'[u] = time[u]
<1>1. state' \in [Txs -> Column]
  BY DEF Change, TypeOK
<1>2. time' \in [Txs -> [Peers -> Int]]
  <2>1. [p \in Peers |-> IF Used(c[p]) THEN times[p] ELSE 0] \in [Peers -> Int]
    OBVIOUS
  <2> QED
    BY <2>1 DEF Change, TypeOK
<1>3. state'[t] = c /\ \A p \in Peers : time'[t][p] = IF Used(c[p]) THEN times[p] ELSE 0
  BY DEF Change, TypeOK
<1>4. \A u \in Txs \ {t} : state'[u] = state[u] /\ time'[u] = time[u]
  BY DEF Change, TypeOK
<1>5. IndexSane'
  BY <1>3, <1>4 DEF IndexSane
<1>6. UnusedTimesZero'
  BY <1>3, <1>4 DEF UnusedTimesZero
<1> QED
  BY <1>1, <1>2, <1>3, <1>4, <1>5, <1>6

LEMMA InitOK == Init => IInv
<1> SUFFICES ASSUME Init PROVE IInv
  OBVIOUS
<1>1. NoAnnouncements \in Column /\ \A t \in Txs : ColumnSane(NoAnnouncements, t)
  BY DEF NoAnnouncements, Column, States, ColumnSane, IsSelected
<1> QED
  BY <1>1 DEF Init, IInv, TypeOK, IndexSane, NothingDue, UnusedTimesZero

LEMMA NextOK == IInv /\ [Next]_vars => IInv'
<1> SUFFICES ASSUME IInv, [Next]_vars PROVE IInv'
  OBVIOUS
<1> USE DEF IInv
<1>0. \A t \in Txs : /\ state[t] \in Column /\ time[t] \in [Peers -> Int] /\ ColumnSane(state[t], t)
                     /\ \A p \in Peers : state[t][p] \in States
  BY DEF TypeOK, IndexSane, Column
<1>1. ASSUME NEW t \in Txs, NEW p \in Announcers[t], NEW when \in Times, ReceivedInv(p, t, when)
      PROVE  IInv'
  <2>0. p \in Peers /\ when \in Int
    BY TrackerAssumption
  <2>1. CASE state[t][p] = "none"
    <3> DEFINE c == [state[t] EXCEPT ![p] = "DELAYED"]
    <3>1. c \in Column /\ c[p] = "DELAYED" /\ \A q \in Peers \ {p} : c[q] = state[t][q]
      BY <1>0, <2>0 DEF Column, States
    <3>2. Change(t, c, [time[t] EXCEPT ![p] = when]) /\ pc = "idle" /\ UNCHANGED <<pc, call>>
      BY <1>1, <2>1 DEF ReceivedInv, Operation
    <3> HIDE DEF c
    <3>3. ColumnSane(c, t)
      <4>1. ColumnSane(state[t], t)
        BY <1>0
      <4>2. \A q, r \in Peers : IsSelected(c[q]) /\ IsSelected(c[r]) => q = r
        BY <3>1, <4>1 DEF ColumnSane, IsSelected
      <4>3. \A q \in Peers : c[q] = "READY" =>
              \E r \in Peers : c[r] = "REQUESTED" \/ (c[r] = "BEST" /\ Priority[t][r] > Priority[t][q])
        BY <2>0, <2>1, <3>1, <4>1 DEF ColumnSane
      <4>4. Used(c[p])
        BY <3>1 DEF Used
      <4> QED
        BY <2>0, <4>2, <4>3, <4>4 DEF ColumnSane
    <3>4. [time[t] EXCEPT ![p] = when] \in [Peers -> Int]
      BY <1>0, <2>0
    <3> QED
      BY <3>1, <3>2, <3>3, <3>4, ChangeKeeps, Zenon DEF TypeOK, NothingDue
  <2>2. CASE state[t][p] # "none"
    BY <1>1, <2>2 DEF ReceivedInv, Operation, TypeOK, IndexSane, NothingDue, UnusedTimesZero
  <2> QED
    BY <2>1, <2>2
<1>2. ASSUME NEW t \in Txs, NEW p \in Peers, NEW when \in Times, RequestedTx(p, t, when)
      PROVE  IInv'
  <2>1. CASE state[t][p] \in {"BEST", "DELAYED", "READY"}
    <3>1. Requested(state[t], p) \in Column /\ ColumnSane(Requested(state[t], p), t)
      BY <1>0, <2>1, RequestedOK
    <3>2. [time[t] EXCEPT ![p] = when] \in [Peers -> Int]
      BY <1>0, TrackerAssumption
    <3>3. /\ Change(t, Requested(state[t], p), [time[t] EXCEPT ![p] = when])
          /\ pc = "idle" /\ UNCHANGED <<pc, call>>
      BY <1>2, <2>1 DEF RequestedTx, Operation
    <3> QED
      BY <3>1, <3>2, <3>3, ChangeKeeps, Zenon DEF TypeOK, NothingDue
  <2>2. CASE state[t][p] \notin {"BEST", "DELAYED", "READY"}
    BY <1>2, <2>2 DEF RequestedTx, Operation, TypeOK, IndexSane, NothingDue, UnusedTimesZero
  <2> QED
    BY <2>1, <2>2
<1>3. ASSUME NEW t \in Txs, ForgetTxHash(t)
      PROVE  IInv'
  <2>1. NoAnnouncements \in Column /\ ColumnSane(NoAnnouncements, t)
    BY DEF NoAnnouncements, Column, States, ColumnSane, IsSelected
  <2> QED
    BY <1>0, <1>3, <2>1, ChangeKeeps DEF ForgetTxHash, Operation, TypeOK, NothingDue
<1>4. ASSUME NEW p \in Peers, DisconnectedPeer(p)
      PROVE  IInv'
  <2>1. /\ pc = "idle" /\ UNCHANGED <<pc, call>>
        /\ state' = [t \in Txs |-> Disconnected(state[t], t, p)]
        /\ time' = [t \in Txs |-> [time[t] EXCEPT ![p] = 0]]
    BY <1>4 DEF DisconnectedPeer, Operation
  <2>2. \A t \in Txs : state'[t] \in Column /\ ColumnSane(state'[t], t)
    BY <1>0, <2>1, DisconnectedOK
  <2>3. \A t \in Txs : time'[t] \in [Peers -> Int]
    BY <1>0, <2>1
  <2>4. TypeOK'
    BY <2>1, <2>2, <2>3 DEF TypeOK
  <2>5. UnusedTimesZero'
    <3> SUFFICES ASSUME NEW t \in Txs, NEW q \in Peers, q # p, ~Used(state'[t][q])
                 PROVE  time[t][q] = 0
      BY <1>0, <2>1 DEF UnusedTimesZero
    <3>1. state'[t] = Disconnected(state[t], t, p)
      BY <2>1
    <3>2. ~Used(state[t][q])
      <4>1. CASE state[t][p] = "none"
        BY <3>1, <4>1 DEF Disconnected
      <4>2. CASE state[t][p] = "COMPLETED"
        BY <1>0, <3>1, <4>2 DEF Disconnected, MakeCompleted, Column
      <4>3. CASE Used(state[t][p]) /\ Alone(state[t], p)
        BY <4>3 DEF Alone
      <4>4. CASE Used(state[t][p]) /\ ~Alone(state[t], p)
        <5> DEFINE m == ChangeAndReselect(state[t], t, p, "COMPLETED")
        <5>1. MakeCompleted(state[t], t, p) = m
          BY <1>0, <4>4, AloneMeansOnly DEF MakeCompleted, Used
        <5>2. m[q] = state[t][q] \/ (state[t][q] = "READY" /\ m[q] = "BEST")
          BY DEF ChangeAndReselect
        <5>3. m \in Column
          BY <1>0, ReselectType DEF States
        <5> HIDE DEF m
        <5>4. state'[t][q] = m[q]
          BY <3>1, <4>4, <5>1, <5>3 DEF Disconnected, Used, Column
        <5> QED
          BY <5>2, <5>4 DEF Used
      <4> QED
        BY <4>1, <4>2, <4>3, <4>4 DEF Used
    <3> QED
      BY <3>2 DEF UnusedTimesZero
  <2> QED
    BY <2>1, <2>2, <2>4, <2>5 DEF IndexSane, NothingDue
<1>5. ASSUME NEW p \in Peers, NEW t \in Txs, ReceivedResponse(p, t)
      PROVE  IInv'
  <2>1. CASE state[t][p] = "none"
    BY <1>5, <2>1 DEF ReceivedResponse, Operation, TypeOK, IndexSane, NothingDue, UnusedTimesZero
  <2>2. CASE state[t][p] # "none"
    <3>1. MakeCompleted(state[t], t, p) \in Column /\ ColumnSane(MakeCompleted(state[t], t, p), t)
      BY <1>0, <2>2, CompletedOK
    <3> QED
      BY <1>0, <1>5, <2>2, <3>1, ChangeKeeps DEF ReceivedResponse, Operation, TypeOK, NothingDue
  <2> QED
    BY <2>1, <2>2
<1>6. ASSUME NEW p \in Peers, NEW t \in Txs, Forward(p, t)
      PROVE  IInv'
  <2> DEFINE c == IF state[t][p] = "DELAYED" THEN PromoteCandidateReady(state[t], t, p)
                  ELSE MakeCompleted(state[t], t, p)
  <2>1. c \in Column /\ ColumnSane(c, t)
    BY <1>0, <1>6, PromotedOK, CompletedOK, Zenon DEF Forward, Due, IsWaiting
  <2>2. Change(t, c, time[t]) /\ pc = "forward" /\ UNCHANGED <<pc, call>>
    BY <1>6 DEF Forward
  <2> HIDE DEF c
  <2> QED
    BY <1>0, <2>1, <2>2, ChangeKeeps DEF TypeOK, NothingDue
<1>7. ASSUME NEW p \in Peers, NEW t \in Txs, Backward(p, t)
      PROVE  IInv'
  <2> DEFINE c == ChangeAndReselect(state[t], t, p, "DELAYED")
  <2>1. c \in Column /\ ColumnSane(c, t)
    <3>1. Used(state[t][p])
      BY <1>7 DEF Backward, Early, IsSelectable, Used
    <3> QED
      BY <1>0, <3>1, ReselectSane, ReselectType, Zenon DEF States
  <2>2. /\ Change(t, c, time[t]) /\ pc = "backward" /\ UNCHANGED <<pc, call>>
        /\ Early(t, p)
    BY <1>7 DEF Backward
  <2>3. c[p] = "DELAYED" /\ \A q \in Peers \ {p} : IsWaiting(c[q]) => c[q] = state[t][q]
    BY DEF ChangeAndReselect, IsWaiting
  <2> HIDE DEF c
  <2>4. /\ state' \in [Txs -> Column] /\ time' \in [Txs -> [Peers -> Int]]
        /\ IndexSane' /\ UnusedTimesZero'
        /\ state'[t] = c /\ \A q \in Peers : time'[t][q] = IF Used(c[q]) THEN time[t][q] ELSE 0
        /\ \A u \in Txs \ {t} : state'[u] = state[u] /\ time'[u] = time[u]
    BY <1>0, <2>1, <2>2, ChangeKeeps
  <2>5. NothingDue'
    <3> SUFFICES ASSUME NEW u \in Txs, NEW q \in Peers, IsWaiting(state'[u][q])
                 PROVE  ~(time'[u][q] <= call.now)
      BY <2>2 DEF NothingDue, Due
    <3>0. call.now \in Int /\ time[u][q] \in Int /\ time[t][p] \in Int
      BY <1>0, <2>2 DEF TypeOK
    <3>1. CASE u # t
      BY <2>2, <2>4, <3>1 DEF NothingDue, Due
    <3>2. CASE u = t /\ q = p
      BY <2>2, <2>3, <2>4, <3>0, <3>2 DEF Early, Used
    <3>3. CASE u = t /\ q # p
      <4>1. IsWaiting(state[t][q]) /\ time'[t][q] = time[t][q]
        BY <2>3, <2>4, <3>3 DEF IsWaiting, Used
      <4> QED
        BY <2>2, <3>3, <4>1 DEF NothingDue, Due
    <3> QED
      BY <3>1, <3>2, <3>3
  <2> QED
    BY <2>2, <2>4, <2>5 DEF TypeOK
<1>8. ASSUME NEW p \in Peers, NEW now \in Times, GetRequestable(p, now)
      PROVE  IInv'
  <2>1. now \in Int
    BY TrackerAssumption
  <2> QED
    BY <1>8, <2>1 DEF GetRequestable, TypeOK, IndexSane, NothingDue, UnusedTimesZero
<1>9. CASE EndForward
  BY <1>9 DEF EndForward, TypeOK, IndexSane, NothingDue, UnusedTimesZero, Due
<1>10. CASE EndBackward
  BY <1>10 DEF EndBackward, TypeOK, IndexSane, NothingDue, UnusedTimesZero
<1>11. CASE UNCHANGED vars
  BY <1>11 DEF vars, TypeOK, IndexSane, NothingDue, UnusedTimesZero, Due
<1> QED
  BY <1>1, <1>2, <1>3, <1>4, <1>5, <1>6, <1>7, <1>8, <1>9, <1>10, <1>11 DEF Next

LEMMA InvariantHolds == Spec => []IInv
BY InitOK, NextOK, PTL DEF Spec

\* SanityCheck never fails: whatever the calls and the times, a txhash has one selected
\* announcement at most, the best one that is available, and is forgotten in time.
THEOREM IndexAlwaysSane == Spec => []IndexSane
BY InvariantHolds, PTL DEF IInv

-----------------------------------------------------------------------------
(* Refinement *)

StatusColumn(c) == [p \in Peers |-> Status(c[p])]

LEMMA StatusKeepsUse ==
  ASSUME NEW s \in States
  PROVE  /\ Used(s) <=> Rules!Live(Status(s))
         /\ s = "none" <=> Status(s) = "none"
         /\ s = "COMPLETED" <=> Status(s) = "completed"
         /\ s = "REQUESTED" <=> Status(s) = "requested"
         /\ s \in {"DELAYED", "READY", "BEST"} <=> Status(s) = "candidate"
BY DEF States, Status, Used, Rules!Live

LEMMA ChangeMaps ==
  ASSUME TypeOK, NEW t \in Txs, NEW c \in Column, NEW times, Change(t, c, times)
  PROVE  Rules!Change(t, StatusColumn(c), times)
<1>1. \A p \in Peers : Used(c[p]) <=> Rules!Live(StatusColumn(c)[p])
  BY StatusKeepsUse DEF Column, StatusColumn
<1>2. time' = [time EXCEPT ![t] = [p \in Peers |-> IF Rules!Live(StatusColumn(c)[p]) THEN times[p] ELSE 0]]
  <2>1. [p \in Peers |-> IF Used(c[p]) THEN times[p] ELSE 0]
          = [p \in Peers |-> IF Rules!Live(StatusColumn(c)[p]) THEN times[p] ELSE 0]
    BY <1>1
  <2> QED
    BY <2>1, Zenon DEF Change
<1>3. [u \in Txs |-> [p \in Peers |-> Status(state[u][p])]]'
        = [[u \in Txs |-> [p \in Peers |-> Status(state[u][p])]] EXCEPT ![t] = StatusColumn(c)]
  BY Zenon DEF Change, TypeOK, StatusColumn
<1> QED
  BY <1>2, <1>3 DEF Rules!Change

\* Between them, MakeCompleted's two ways are: completed, and purged if that was the last.
LEMMA CompletedMaps ==
  ASSUME NEW t \in Txs, NEW c \in Column, NEW p \in Peers, Used(c[p])
  PROVE  StatusColumn(MakeCompleted(c, t, p))
           = Rules!Purged([StatusColumn(c) EXCEPT ![p] = "completed"])
<1> DEFINE s == [StatusColumn(c) EXCEPT ![p] = "completed"]
<1>0. \A q \in Peers : c[q] \in States
  BY DEF Column
<1>1. s[p] = "completed" /\ \A q \in Peers \ {p} : s[q] = Status(c[q])
  BY Zenon DEF StatusColumn
<1>2. (\E q \in Peers : Rules!Live(s[q])) <=> ~Alone(c, p)
  BY <1>0, <1>1, StatusKeepsUse DEF Alone, Rules!Live
<1>3. CASE Alone(c, p)
  <2>1. MakeCompleted(c, t, p) = NoAnnouncements
    BY <1>3, AloneMeansOnly DEF MakeCompleted, Used
  <2>2. StatusColumn(NoAnnouncements) = Rules!Forgotten
    BY DEF StatusColumn, NoAnnouncements, Status, Rules!Forgotten
  <2> QED
    BY <1>2, <1>3, <2>1, <2>2 DEF Rules!Purged
<1>4. CASE ~Alone(c, p)
  <2>1. MakeCompleted(c, t, p) = ChangeAndReselect(c, t, p, "COMPLETED")
    BY <1>4, AloneMeansOnly DEF MakeCompleted, Used
  <2>2. \A q \in Peers : Status(ChangeAndReselect(c, t, p, "COMPLETED")[q]) = s[q]
    BY <1>1, Zenon DEF ChangeAndReselect, Status
  <2>3. StatusColumn(ChangeAndReselect(c, t, p, "COMPLETED")) = s
    BY <2>2, Zenon DEF StatusColumn
  <2> QED
    BY <1>2, <1>4, <2>1, <2>3 DEF Rules!Purged
<1> QED
  BY <1>3, <1>4

LEMMA DisconnectedMaps ==
  ASSUME NEW t \in Txs, NEW c \in Column, ColumnSane(c, t), NEW p \in Peers
  PROVE  StatusColumn(Disconnected(c, t, p)) = Rules!Purged([StatusColumn(c) EXCEPT ![p] = "none"])
<1> DEFINE s == [StatusColumn(c) EXCEPT ![p] = "none"]
           d == Disconnected(c, t, p)
<1>0. \A q \in Peers : c[q] \in States
  BY DEF Column
<1>1. s[p] = "none" /\ \A q \in Peers \ {p} : s[q] = Status(c[q])
  BY Zenon DEF StatusColumn
<1>2. (\E q \in Peers : Rules!Live(s[q])) <=> ~Alone(c, p)
  BY <1>0, <1>1, StatusKeepsUse DEF Alone, Rules!Live
<1>3. d \in Column
  BY DisconnectedOK
<1> HIDE DEF d
<1>4. CASE Used(c[p]) /\ Alone(c, p)
  <2>1. d = [NoAnnouncements EXCEPT ![p] = "none"]
    BY <1>4, AloneMeansOnly DEF d, Disconnected, MakeCompleted, Used
  <2>2. StatusColumn(d) = Rules!Forgotten
    BY <2>1 DEF StatusColumn, NoAnnouncements, Status, Rules!Forgotten
  <2> QED
    BY <1>2, <1>4, <2>2 DEF Rules!Purged, d
<1>5. CASE ~Used(c[p]) /\ Alone(c, p)
  <2>1. \A q \in Peers : c[q] = "none"
    BY <1>5, Zenon DEF Alone, ColumnSane
  <2>2. d = c
    BY <2>1 DEF d, Disconnected
  <2>3. StatusColumn(c) = Rules!Forgotten
    BY <2>1 DEF StatusColumn, Status, Rules!Forgotten
  <2> QED
    BY <1>2, <1>5, <2>2, <2>3 DEF Rules!Purged, d
<1>6. CASE ~Alone(c, p)
  <2>1. d[p] = "none" /\ \A q \in Peers \ {p} : Status(d[q]) = Status(c[q])
    <3>1. CASE c[p] = "none"
      BY <3>1 DEF d, Disconnected
    <3>2. CASE c[p] = "COMPLETED"
      BY <3>2 DEF d, Disconnected, MakeCompleted, Column
    <3>3. CASE Used(c[p])
      <4> DEFINE m == ChangeAndReselect(c, t, p, "COMPLETED")
      <4>1. d = [m EXCEPT ![p] = "none"]
        BY <1>6, <3>3, AloneMeansOnly DEF d, Disconnected, MakeCompleted, Used
      <4>2. \A q \in Peers \ {p} : Status(m[q]) = Status(c[q])
        BY DEF ChangeAndReselect, Status
      <4>3. m \in Column
        BY ReselectType DEF States
      <4> HIDE DEF m
      <4> QED
        BY <4>1, <4>2, <4>3 DEF Column
    <3> QED
      BY <3>1, <3>2, <3>3 DEF Used
  <2>2. \A q \in Peers : Status(d[q]) = s[q]
    BY <1>1, <2>1, ZenonT(40) DEF Status
  <2>3. StatusColumn(d) = s
    BY <2>2, Zenon DEF StatusColumn
  <2> QED
    BY <1>2, <1>6, <2>3 DEF Rules!Purged, d
<1> QED
  BY <1>4, <1>5, <1>6

\* Once time has been settled, the BEST announcements of a peer are those to be chosen.
LEMMA BestMeansChosen ==
  ASSUME IInv, pc = "backward", ~(\E t \in Txs, p \in Peers : Early(t, p)), NEW t \in Txs
  PROVE  state[t][call.peer] = "BEST" <=> Rules!Chosen(call.peer, t, call.now)
<1> DEFINE c == state[t]
           me == call.peer
<1>1. /\ me \in Peers /\ call.now \in Int /\ time[t] \in [Peers -> Int]
      /\ c \in Column /\ ColumnSane(c, t) /\ Priority[t] \in [Peers -> Int]
      /\ \A q \in Peers : c[q] \in States
  BY TrackerAssumption DEF IInv, TypeOK, IndexSane, Column
<1>2. \A q \in Peers : /\ IsWaiting(c[q]) => time[t][q] > call.now
                       /\ IsSelectable(c[q]) => time[t][q] <= call.now
  <2> TAKE q \in Peers
  <2>1. time[t][q] \in Int /\ call.now \in Int
    BY <1>1
  <2> QED
    BY <2>1 DEF IInv, NothingDue, Due, Early
<1>3. \A q \in Peers : Rules!MayAsk(q, t, call.now) <=> c[q] \in {"READY", "BEST"}
  <2> TAKE q \in Peers
  <2>1. Rules!MayAsk(q, t, call.now) <=> c[q] \in {"DELAYED", "READY", "BEST"} /\ time[t][q] <= call.now
    BY <1>1, StatusKeepsUse DEF Rules!MayAsk
  <2> QED
    BY <1>1, <1>2, <2>1 DEF IsWaiting, IsSelectable
<1>4. Rules!Chosen(me, t, call.now) <=>
        /\ c[me] \in {"READY", "BEST"}
        /\ \A q \in Peers : /\ c[q] # "REQUESTED"
                            /\ c[q] \in {"READY", "BEST"} => Priority[t][q] <= Priority[t][me]
  BY <1>1, <1>3, StatusKeepsUse DEF Rules!Chosen
<1> HIDE DEF c, me
<1>5. ASSUME c[me] = "BEST" PROVE Rules!Chosen(me, t, call.now)
  <2> SUFFICES ASSUME NEW q \in Peers
               PROVE  /\ c[q] # "REQUESTED"
                      /\ c[q] \in {"READY", "BEST"} => Priority[t][q] <= Priority[t][me]
    BY <1>4, <1>5
  <2>1. \A r \in Peers : IsSelected(c[r]) => r = me
    BY <1>1, <1>5 DEF ColumnSane, IsSelected
  <2>2. c[q] = "READY" => Priority[t][me] > Priority[t][q]
    BY <1>1, <1>5, <2>1 DEF ColumnSane, IsSelected
  <2> QED
    BY <1>1, <1>5, <2>1, <2>2 DEF IsSelected
<1>6. ASSUME Rules!Chosen(me, t, call.now) PROVE c[me] = "BEST"
  <2> SUFFICES ASSUME c[me] = "READY" PROVE FALSE
    BY <1>4, <1>6
  <2>1. PICK q \in Peers : c[q] = "REQUESTED" \/ (c[q] = "BEST" /\ Priority[t][q] > Priority[t][me])
    BY <1>1 DEF ColumnSane
  <2> QED
    BY <1>1, <1>4, <1>6, <2>1
<1> QED
  BY <1>5, <1>6 DEF c, me

LEMMA StepMaps == IInv /\ [Next]_vars => [Rules!Next]_(Rules!vars)
<1> SUFFICES ASSUME IInv, [Next]_vars PROVE Rules!Next \/ UNCHANGED Rules!vars
  OBVIOUS
<1> USE DEF IInv
<1>0. \A t \in Txs : /\ state[t] \in Column /\ time[t] \in [Peers -> Int] /\ ColumnSane(state[t], t)
                     /\ \A p \in Peers : state[t][p] \in States
  BY DEF TypeOK, IndexSane, Column
<1>a. pc = "idle" <=> call = NoCall
  BY TrackerAssumption DEF TypeOK
<1> DEFINE st == [u \in Txs |-> [q \in Peers |-> Status(state[u][q])]]
<1>b. \A u \in Txs : st[u] = StatusColumn(state[u])
  BY DEF StatusColumn
<1>c. ASSUME pc = "idle", ret' = NoCall, UNCHANGED <<state, time, call>>
      PROVE  Rules!Next
  BY <1>a, <1>c DEF Rules!Next, Rules!Ignored
<1>1. ASSUME NEW t \in Txs, NEW p \in Announcers[t], NEW when \in Times, ReceivedInv(p, t, when)
      PROVE  Rules!Next
  <2>0. p \in Peers
    BY TrackerAssumption
  <2>1. CASE state[t][p] = "none"
    <3> DEFINE c == [state[t] EXCEPT ![p] = "DELAYED"]
    <3>1. c \in Column
      BY <1>0, <2>0 DEF Column, States
    <3>2. Rules!Change(t, StatusColumn(c), [time[t] EXCEPT ![p] = when])
      BY <1>1, <2>1, <3>1, ChangeMaps, Zenon DEF ReceivedInv
    <3>3. StatusColumn(c) = [st[t] EXCEPT ![p] = "candidate"]
      BY <1>0, Zenon DEF StatusColumn, Status, Column
    <3>4. st[t][p] = "none"
      BY <2>0, <2>1 DEF Status
    <3>5. Rules!ReceivedInv(p, t, when)
      BY <1>1, <1>a, <3>2, <3>3, <3>4 DEF Rules!ReceivedInv, ReceivedInv, Operation
    <3> QED
      BY <2>0, <3>5 DEF Rules!Next
  <2>2. CASE state[t][p] # "none"
    BY <1>1, <1>c, <2>2 DEF ReceivedInv, Operation
  <2> QED
    BY <2>1, <2>2
<1>2. ASSUME NEW t \in Txs, NEW p \in Peers, NEW when \in Times, RequestedTx(p, t, when)
      PROVE  Rules!Next
  <2>1. CASE state[t][p] \in {"BEST", "DELAYED", "READY"}
    <3> DEFINE c == Requested(state[t], p)
               s == [q \in Peers |-> IF q = p THEN "requested"
                                     ELSE IF st[t][q] = "requested" THEN "completed"
                                     ELSE st[t][q]]
    <3>1. c \in Column /\ \A q \in Peers \ {p} : ~IsSelected(c[q])
      BY <1>0, <2>1, RequestedOK
    <3>2. Rules!Change(t, StatusColumn(c), [time[t] EXCEPT ![p] = when])
      BY <1>2, <2>1, <3>1, ChangeMaps DEF RequestedTx
    <3>3. \A q \in Peers : Status(c[q]) = s[q]
      <4> TAKE q \in Peers
      <4>1. CASE q = p
        BY <4>1 DEF Requested, Status
      <4>2. CASE q # p
        <5>1. c[q] \in {state[t][q], "READY", "COMPLETED"}
          BY <4>2 DEF Requested
        <5>2. /\ state[t][q] = "REQUESTED" => c[q] = "COMPLETED"
              /\ state[t][q] = "BEST" => c[q] = "READY"
              /\ ~IsSelected(state[t][q]) => c[q] = state[t][q]
          BY <3>1, <4>2, Zenon DEF Requested, IsSelected
        <5> QED
          BY <1>0, <4>2, <5>2 DEF Status, IsSelected, States
      <4> QED
        BY <4>1, <4>2
    <3>4. StatusColumn(c) = s
      BY <3>3 DEF StatusColumn
    <3>5. st[t][p] = "candidate"
      BY <2>1 DEF Status
    <3>6. Rules!RequestedTx(p, t, when)
      BY <1>2, <1>a, <3>2, <3>4, <3>5 DEF Rules!RequestedTx, RequestedTx, Operation
    <3> QED
      BY <3>6 DEF Rules!Next
  <2>2. CASE state[t][p] \notin {"BEST", "DELAYED", "READY"}
    BY <1>2, <1>c, <2>2 DEF RequestedTx, Operation
  <2> QED
    BY <2>1, <2>2
<1>3. ASSUME NEW t \in Txs, ForgetTxHash(t)
      PROVE  Rules!Next
  <2>1. NoAnnouncements \in Column /\ StatusColumn(NoAnnouncements) = Rules!Forgotten
    BY DEF NoAnnouncements, Column, States, StatusColumn, Status, Rules!Forgotten
  <2>2. Rules!Change(t, Rules!Forgotten, time[t])
    BY <1>3, <2>1, ChangeMaps DEF ForgetTxHash
  <2> QED
    BY <1>3, <1>a, <2>2 DEF ForgetTxHash, Operation, Rules!ForgetTxHash, Rules!Next
<1>4. ASSUME NEW p \in Peers, DisconnectedPeer(p)
      PROVE  Rules!Next
  <2>1. st' = [t \in Txs |-> Rules!Purged([st[t] EXCEPT ![p] = "none"])]
    <3>1. \A t \in Txs : st'[t] = StatusColumn(Disconnected(state[t], t, p))
      BY <1>4 DEF DisconnectedPeer, StatusColumn
    <3>2. \A t \in Txs : st'[t] = Rules!Purged([st[t] EXCEPT ![p] = "none"])
      <4> TAKE t \in Txs
      <4>1. StatusColumn(Disconnected(state[t], t, p))
              = Rules!Purged([StatusColumn(state[t]) EXCEPT ![p] = "none"])
        BY <1>0, DisconnectedMaps
      <4>2. st[t] = StatusColumn(state[t])
        BY <1>b
      <4> HIDE DEF st
      <4> QED
        BY <3>1, <4>1, <4>2
    <3> QED
      BY <3>2
  <2> QED
    BY <1>4, <1>a, <2>1, Zenon DEF DisconnectedPeer, Operation, Rules!DisconnectedPeer, Rules!Next
<1>5. ASSUME NEW p \in Peers, NEW t \in Txs, ReceivedResponse(p, t)
      PROVE  Rules!Next
  <2>1. CASE state[t][p] = "none"
    BY <1>5, <1>c, <2>1 DEF ReceivedResponse, Operation
  <2>2. CASE state[t][p] = "COMPLETED"
    <3>1. Change(t, state[t], time[t])
      BY <1>5, <2>2 DEF ReceivedResponse, MakeCompleted
    <3>2. UNCHANGED <<state, time>>
      <4>1. [q \in Peers |-> IF Used(state[t][q]) THEN time[t][q] ELSE 0] = time[t]
        BY <1>0 DEF UnusedTimesZero
      <4> QED
        BY <3>1, <4>1 DEF Change, TypeOK
    <3> QED
      BY <1>5, <1>c, <3>2 DEF ReceivedResponse, Operation
  <2>3. CASE Used(state[t][p])
    <3>1. MakeCompleted(state[t], t, p) \in Column
      BY <1>0, <2>3, CompletedOK DEF Used
    <3>2. Rules!Change(t, StatusColumn(MakeCompleted(state[t], t, p)), time[t])
      BY <1>5, <2>3, <3>1, ChangeMaps DEF ReceivedResponse, Used
    <3>3. Rules!Change(t, Rules!Purged([st[t] EXCEPT ![p] = "completed"]), time[t])
      <4>1. StatusColumn(MakeCompleted(state[t], t, p))
              = Rules!Purged([StatusColumn(state[t]) EXCEPT ![p] = "completed"])
        BY <1>0, <2>3, CompletedMaps
      <4>2. st[t] = StatusColumn(state[t])
        BY <1>b
      <4> HIDE DEF st
      <4> QED
        BY <3>2, <4>1, <4>2
    <3>4. Rules!Live(st[t][p])
      BY <1>0, <2>3, StatusKeepsUse
    <3>5. Rules!ReceivedResponse(p, t)
      BY <1>5, <1>a, <3>3, <3>4, Zenon DEF ReceivedResponse, Operation, Rules!ReceivedResponse
    <3> QED
      BY <3>5 DEF Rules!Next
  <2> QED
    BY <2>1, <2>2, <2>3 DEF Used
<1>6. ASSUME NEW p \in Peers, NEW t \in Txs, Forward(p, t)
      PROVE  Rules!Next \/ UNCHANGED Rules!vars
  <2>0. UNCHANGED <<call, ret>> /\ call # NoCall
    BY <1>6, <1>a DEF Forward
  <2>1. CASE state[t][p] = "DELAYED"
    <3> DEFINE c == PromoteCandidateReady(state[t], t, p)
    <3>1. c \in Column
      BY <1>0, <2>1, PromotedOK
    <3>2. \A q \in Peers : c[q] = state[t][q] \/ {c[q], state[t][q]} \subseteq {"DELAYED", "READY", "BEST"}
      BY <1>0, <2>1, Zenon DEF PromoteCandidateReady, Column
    <3> HIDE DEF c
    <3>3. StatusColumn(c) = st[t]
      BY <3>2 DEF StatusColumn, Status
    <3>4. \A q \in Peers : Used(c[q]) <=> Used(state[t][q])
      BY <3>2 DEF Used
    <3>5. Change(t, c, time[t])
      BY <1>6, <2>1 DEF Forward, c
    <3>6. UNCHANGED time
      <4>1. [q \in Peers |-> IF Used(c[q]) THEN time[t][q] ELSE 0] = time[t]
        BY <1>0, <3>4 DEF UnusedTimesZero
      <4> QED
        BY <3>5, <4>1 DEF Change, TypeOK
    <3>7. Rules!Change(t, StatusColumn(c), time[t])
      BY <3>1, <3>5, ChangeMaps
    <3>8. st' = st
      BY <3>3, <3>7, Zenon DEF Rules!Change
    <3> QED
      BY <2>0, <3>6, <3>8 DEF Rules!vars
  <2>2. CASE state[t][p] = "REQUESTED"
    <3>0. Used(state[t][p])
      BY <2>2 DEF Used
    <3>1. MakeCompleted(state[t], t, p) \in Column
      BY <1>0, <2>2, CompletedOK
    <3>2. Rules!Change(t, StatusColumn(MakeCompleted(state[t], t, p)), time[t])
      BY <1>6, <2>2, <3>1, ChangeMaps, Zenon DEF Forward
    <3>3. Rules!Change(t, Rules!Purged([st[t] EXCEPT ![p] = "completed"]), time[t])
      <4>1. StatusColumn(MakeCompleted(state[t], t, p))
              = Rules!Purged([StatusColumn(state[t]) EXCEPT ![p] = "completed"])
        BY <1>0, <3>0, CompletedMaps
      <4>2. st[t] = StatusColumn(state[t])
        BY <1>b
      <4> HIDE DEF st
      <4> QED
        BY <3>2, <4>1, <4>2
    <3>4. st[t][p] = "requested" /\ time[t][p] <= call.now
      BY <1>6, <2>2 DEF Status, Forward, Due
    <3>5. Rules!Expire(p, t)
      BY <2>0, <3>3, <3>4 DEF Rules!Expire
    <3> QED
      BY <3>5 DEF Rules!Next
  <2> QED
    BY <1>6, <2>1, <2>2 DEF Forward, Due, IsWaiting
<1>7. ASSUME NEW p \in Peers, NEW t \in Txs, Backward(p, t)
      PROVE  UNCHANGED Rules!vars
  <2> DEFINE c == ChangeAndReselect(state[t], t, p, "DELAYED")
  <2>0. UNCHANGED <<call, ret>> /\ Change(t, c, time[t]) /\ state[t][p] \in {"READY", "BEST"}
    BY <1>7 DEF Backward, Early, IsSelectable
  <2>1. c \in Column
    BY <1>0, ReselectType DEF States
  <2>2. \A q \in Peers : c[q] = state[t][q] \/ {c[q], state[t][q]} \subseteq {"DELAYED", "READY", "BEST"}
    BY <2>0, Zenon DEF ChangeAndReselect
  <2> HIDE DEF c
  <2>3. StatusColumn(c) = st[t]
    BY <2>2 DEF StatusColumn, Status
  <2>4. \A q \in Peers : Used(c[q]) <=> Used(state[t][q])
    BY <2>2 DEF Used
  <2>5. UNCHANGED time
    <3>1. [q \in Peers |-> IF Used(c[q]) THEN time[t][q] ELSE 0] = time[t]
      BY <1>0, <2>4 DEF UnusedTimesZero
    <3> QED
      BY <2>0, <3>1 DEF Change, TypeOK
  <2>6. Rules!Change(t, StatusColumn(c), time[t])
    BY <2>0, <2>1, ChangeMaps, Zenon
  <2>7. st' = st
    BY <2>3, <2>6, Zenon DEF Rules!Change
  <2> QED
    BY <2>0, <2>5, <2>7, Zenon DEF Rules!vars
<1>8. ASSUME NEW p \in Peers, NEW now \in Times, GetRequestable(p, now)
      PROVE  Rules!Next
  <2>1. Rules!BeginGetRequestable(p, now)
    BY <1>8, <1>a DEF GetRequestable, Rules!BeginGetRequestable
  <2> QED
    BY <2>1 DEF Rules!Next
<1>9. ASSUME EndForward
      PROVE  UNCHANGED Rules!vars
  BY <1>9 DEF EndForward, Rules!vars
<1>10. ASSUME EndBackward
       PROVE  Rules!Next
  <2>1. /\ pc = "backward" /\ ~(\E t \in Txs, p \in Peers : Early(t, p))
        /\ ret' = {t \in Txs : state[t][call.peer] = "BEST"}
        /\ call' = NoCall /\ UNCHANGED <<state, time>>
    BY <1>10 DEF EndBackward
  <2>2. ret' = {t \in Txs : Rules!Chosen(call.peer, t, call.now)}
    BY <2>1, BestMeansChosen
  <2>3. \A t \in Txs, p \in Peers : st[t][p] = "requested" => time[t][p] > call.now
    <3> SUFFICES ASSUME NEW t \in Txs, NEW p \in Peers, st[t][p] = "requested"
                 PROVE  time[t][p] > call.now
      OBVIOUS
    <3>1. IsWaiting(state[t][p])
      BY <1>0, StatusKeepsUse DEF IsWaiting
    <3>2. time[t][p] \in Int /\ call.now \in Int
      BY <1>0, <2>1 DEF TypeOK
    <3> QED
      BY <2>1, <3>1, <3>2 DEF NothingDue, Due
  <2>4. Rules!EndGetRequestable
    BY <1>a, <2>1, <2>2, <2>3 DEF Rules!EndGetRequestable
  <2> QED
    BY <2>4 DEF Rules!Next
<1>11. ASSUME UNCHANGED vars
       PROVE  UNCHANGED Rules!vars
  BY <1>11 DEF vars, Rules!vars
<1> QED
  BY <1>1, <1>2, <1>3, <1>4, <1>5, <1>6, <1>7, <1>8, <1>9, <1>10, <1>11, Zenon DEF Next

\* The tracker implements the rules of txrequest.h, for any peers, transactions, priorities
\* and times: its incremental choice is the one a search of all announcements would make.
THEOREM TrackerFollowsRules == Spec => ImplementsRules
<1>1. Init => Rules!Init
  BY DEF Init, Rules!Init, NoAnnouncements, Status, Rules!Forgotten
<1> QED
  BY <1>1, InvariantHolds, StepMaps, PTL DEF Spec, ImplementsRules, Rules!Spec
=============================================================================
