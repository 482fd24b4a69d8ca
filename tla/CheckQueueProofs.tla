-------------------------- MODULE CheckQueueProofs --------------------------
(***************************************************************************)
(* What Complete returns and leaves behind, for any number of workers,     *)
(* blocks and checks.                                                      *)
(***************************************************************************)
EXTENDS CheckQueue, FiniteSetTheorems, WellFoundedInduction, TLAPS

-----------------------------------------------------------------------------
(* Numbers and sequences *)

LEMMA LeastNat ==
  ASSUME NEW S \in SUBSET Nat, S # {}
  PROVE  \E n \in S : \A m \in S : n <= m
<1> DEFINE R == {ss \in Nat \X Nat : ss[1] < ss[2]}
<1>1. IsWellFoundedOn(R, Nat)
  BY NatLessThanWellFounded DEF OpToRel
<1>2. \E n \in S : \A m \in S : ~(<<m, n>> \in R)
  <2> HIDE DEF R
  <2> QED BY <1>1, WFMin, Zenon
<1>3. PICK n \in S : \A m \in S : ~(<<m, n>> \in R)
  BY <1>2
<1>4. ASSUME NEW m \in S PROVE n <= m
  <2>1. m \in Nat /\ n \in Nat
    OBVIOUS
  <2>2. ~(m < n)
    BY <1>3, <2>1, Zenon
  <2> QED BY <2>1, <2>2
<1> QED BY <1>4

LEMMA MinOfTwo ==
  ASSUME NEW a \in Int, NEW b \in Int
  PROVE  Min({a, b}) \in {a, b} /\ Min({a, b}) <= a /\ Min({a, b}) <= b
<1>1. \E x \in {a, b} : \A y \in {a, b} : x <= y
  OBVIOUS
<1> QED BY <1>1 DEF Min

LEMMA MaxOfTwo ==
  ASSUME NEW a \in Int, NEW b \in Int
  PROVE  Max({a, b}) \in {a, b} /\ Max({a, b}) >= a /\ Max({a, b}) >= b
<1>1. \E x \in {a, b} : \A y \in {a, b} : x >= y
  OBVIOUS
<1> QED BY <1>1 DEF Max

\* A batch is never empty and never longer than the queue.
LEMMA BatchFits ==
  ASSUME queue \in Seq(Nat), queue # <<>>, NEW total \in Nat, NEW idle \in Nat
  PROVE  BatchLength(total, idle) \in 1 .. Len(queue)
<1> DEFINE d == total + idle + 1
           q == Len(queue) \div d
           m == Min({BatchSize, q})
<1>1. Len(queue) \in Nat /\ Len(queue) >= 1 /\ d \in Nat /\ d >= 1
  OBVIOUS
<1>2. q \in Nat /\ q <= Len(queue)
  <2> HIDE DEF d
  <2> QED BY <1>1
<1>3. m \in Nat /\ m <= q
  <2>1. BatchSize \in Nat
    BY PoolAssumption
  <2> HIDE DEF q
  <2>2. BatchSize \in Int /\ q \in Int
    BY <1>2, <2>1
  <2>3. Min({BatchSize, q}) \in {BatchSize, q} /\ Min({BatchSize, q}) <= q
    BY <2>2, MinOfTwo, Zenon
  <2> QED BY <1>2, <2>1, <2>3
<1>4. Max({1, m}) \in 1 .. Len(queue)
  <2> HIDE DEF m, q
  <2>1. 1 \in Int /\ m \in Int
    BY <1>3
  <2>2. Max({1, m}) \in {1, m} /\ Max({1, m}) >= 1
    BY <2>1, MaxOfTwo, Zenon
  <2> QED BY <1>1, <1>2, <1>3, <2>2
<1> QED BY <1>4 DEF BatchLength

\* FirstError is 0 when all checks pass, and otherwise the error of one of them.
LEMMA FirstErrorIs ==
  ASSUME NEW c \in Seq(Nat)
  PROVE  \/ (\A i \in DOMAIN c : c[i] = 0) /\ FirstError(c) = 0
         \/ \E i \in DOMAIN c : c[i] # 0 /\ FirstError(c) = c[i]
<1>1. CASE \A i \in DOMAIN c : c[i] = 0
  BY <1>1 DEF FirstError
<1>2. CASE ~(\A i \in DOMAIN c : c[i] = 0)
  <2> DEFINE E == {i \in DOMAIN c : c[i] # 0}
  <2>1. E \in SUBSET Nat /\ E # {}
    BY <1>2
  <2>2. \E n \in E : \A m \in E : n <= m
    BY <2>1, LeastNat, Zenon
  <2>3. Min(E) \in E
    BY <2>2 DEF Min
  <2>4. FirstError(c) = c[Min(E)]
    BY <1>2 DEF FirstError
  <2> QED BY <2>3, <2>4, Zenon
<1> QED BY <1>1, <1>2

-----------------------------------------------------------------------------
(* The inductive invariant *)

States == {"add", "notify_one", "notify_all", "loop", "wait", "woken", "work",
           "returned", "stop", "join", "exited"}

Types ==
  /\ queue \in Seq(Nat) /\ added \in Seq(Nat)
  /\ nTodo \in Nat /\ nIdle \in Nat /\ nTotal \in Nat
  /\ result \in Nat /\ ret \in Nat /\ round \in Nat \ {0} /\ stop \in BOOLEAN
  /\ pc \in [Threads -> States]
  /\ vChecks \in [Threads -> Seq(Nat)]
  /\ local \in [Threads -> Nat]
  /\ doWork \in [Threads -> BOOLEAN]

\* Where the threads are, and that the pool is empty when it is stopped
Phases ==
  /\ \A w \in Workers : pc[w] \in {"loop", "wait", "woken", "work", "exited"}
  /\ \A t \in Threads : pc[t] = "work" => vChecks[t] # <<>>
  /\ stop => round > Rounds
  /\ round > Rounds => nTodo = 0 /\ pc[Master] \notin {"loop", "wait", "woken", "work", "returned"}

\* The block fails: one of the checks added for it does.
BlockFails == \E i \in DOMAIN added : added[i] # 0

Holds(t) == pc[t] \in {"work", "loop"}

\* Errors in the queue, in a batch and in the result are errors of this block.
OfThisBlock ==
  /\ \A i \in DOMAIN queue : queue[i] # 0 => queue[i] = round /\ BlockFails
  /\ \A t \in Threads : Holds(t) =>
       \A i \in DOMAIN vChecks[t] : vChecks[t][i] # 0 => vChecks[t][i] = round /\ BlockFails
  /\ result # 0 => result = round /\ BlockFails

\* A batch that is back has left its first error in local; one that is skipped is skipped
\* because an error is known.
BatchesJudged ==
  \A t \in Threads : Holds(t) /\ vChecks[t] # <<>> =>
    IF doWork[t] THEN pc[t] = "loop" => local[t] = FirstError(vChecks[t])
    ELSE result # 0

\* Until Complete returns an error of the block is in the result, in the queue or in a batch.
ErrorNotLost ==
  BlockFails /\ pc[Master] # "returned" =>
    \/ result # 0
    \/ \E i \in DOMAIN queue : queue[i] # 0
    \/ \E t \in Threads : Holds(t) /\ \E i \in DOMAIN vChecks[t] : vChecks[t][i] # 0

Returned ==
  pc[Master] = "returned" => nTodo = 0 /\ result = 0 /\ ret = IF BlockFails THEN round ELSE 0

IInv == Types /\ Phases /\ CountsExact /\ OfThisBlock /\ BatchesJudged /\ ErrorNotLost /\ Returned

-----------------------------------------------------------------------------
(* Counting *)

Cells(h, T) == UNION {{t} \X (1 .. h[t]) : t \in T}

LEMMA ThreadsFinite == IsFiniteSet(Threads) /\ Master \in Threads
BY PoolAssumption, FS_AddElement DEF Threads

LEMMA CellsFinite ==
  ASSUME NEW T, IsFiniteSet(T), NEW h, \A t \in T : h[t] \in Nat
  PROVE  IsFiniteSet(Cells(h, T))
<1> DEFINE F == [t \in T |-> {t} \X (1 .. h[t])]
           C == {F[t] : t \in T}
<1>1. IsFiniteSet(C)
  <2>1. F \in Surjection(T, C)
    BY Zenon DEF Surjection
  <2> QED BY <2>1, FS_Surjection, Zenon
<1>2. ASSUME NEW t \in T PROVE IsFiniteSet(F[t])
  <2>1. 1 \in Int /\ h[t] \in Int
    OBVIOUS
  <2>2. IsFiniteSet({t}) /\ IsFiniteSet(1 .. h[t])
    BY <2>1, FS_Singleton, FS_Interval, Zenon
  <2>3. IsFiniteSet({t} \X (1 .. h[t]))
    BY <2>2, FS_Product, Zenon
  <2> QED BY <2>3
<1>3. \A x \in C : IsFiniteSet(x)
  BY <1>2
<1>4. Cells(h, T) = UNION C
  BY DEF Cells
<1> QED BY <1>1, <1>3, <1>4, FS_UNION, Zenon

\* One thread's batch counts with its length.
LEMMA CellsSplit ==
  ASSUME NEW T, IsFiniteSet(T), NEW h, \A u \in T : h[u] \in Nat, NEW t \in T
  PROVE  /\ Cardinality(Cells(h, T)) = Cardinality(Cells(h, T \ {t})) + h[t]
         /\ Cardinality(Cells(h, T \ {t})) \in Nat
<1> DEFINE A == Cells(h, T \ {t})
           B == {t} \X (1 .. h[t])
<1>1. IsFiniteSet(T \ {t})
  BY FS_RemoveElement
<1>2. IsFiniteSet(A) /\ Cardinality(A) \in Nat
  BY <1>1, CellsFinite, FS_CardinalityType
<1>3. IsFiniteSet(B) /\ Cardinality(B) = h[t]
  <2>1. IsFiniteSet({t}) /\ Cardinality({t}) = 1
    BY FS_Singleton, Zenon
  <2>2. IsFiniteSet(1 .. h[t]) /\ Cardinality(1 .. h[t]) = h[t]
    <3>1. h[t] \in Nat
      OBVIOUS
    <3>2. 1 \in Int /\ h[t] \in Int
      BY <3>1
    <3>3. IsFiniteSet(1 .. h[t])
        /\ Cardinality(1 .. h[t]) = IF 1 > h[t] THEN 0 ELSE h[t] - 1 + 1
      BY <3>2, FS_Interval, Zenon
    <3> QED BY <3>1, <3>3
  <2>3. IsFiniteSet(B) /\ Cardinality(B) = 1 * h[t]
    BY <2>1, <2>2, FS_Product, ZenonT(40)
  <2> QED BY <2>3
<1>4. Cells(h, T) = A \cup B
  BY DEF Cells
<1>5. A \cap B = {}
  BY DEF Cells
<1>6. Cardinality(A \cup B) = Cardinality(A) + Cardinality(B) - Cardinality(A \cap B)
  BY <1>2, <1>3, FS_Union, Zenon
<1>7. Cardinality(A \cap B) = 0
  BY <1>5, FS_EmptySet, Zenon
<1> QED BY <1>2, <1>3, <1>4, <1>6, <1>7

HeldBy == [t \in Threads |-> Held(t)]

LEMMA HeldFacts ==
  Types => /\ HeldBy \in [Threads -> Nat]
           /\ HeldChecks = Cells(HeldBy, Threads)
<1> SUFFICES ASSUME Types PROVE HeldBy \in [Threads -> Nat] /\ HeldChecks = Cells(HeldBy, Threads)
  OBVIOUS
<1>1. \A t \in Threads : Held(t) \in Nat
  BY DEF Types, Held
<1> QED BY <1>1 DEF HeldBy, HeldChecks, Cells

LEMMA CardWith ==
  ASSUME NEW S, IsFiniteSet(S), NEW t
  PROVE  /\ Cardinality(S \cup {t}) = Cardinality(S \ {t}) + 1
         /\ Cardinality(S \ {t}) \in Nat
         /\ t \in S => Cardinality(S) = Cardinality(S \ {t}) + 1
         /\ t \notin S => Cardinality(S) = Cardinality(S \ {t})
<1>1. IsFiniteSet(S \ {t}) /\ Cardinality(S \ {t}) \in Nat
  BY FS_RemoveElement, FS_CardinalityType
<1>2. S \cup {t} = (S \ {t}) \cup {t}
  OBVIOUS
<1>3. Cardinality((S \ {t}) \cup {t}) = Cardinality(S \ {t}) + 1
  BY <1>1, FS_AddElement, Zenon
<1>4. t \in S => (S \ {t}) \cup {t} = S
  OBVIOUS
<1>5. t \notin S => S \ {t} = S
  OBVIOUS
<1> QED BY <1>1, <1>2, <1>3, <1>4, <1>5

-----------------------------------------------------------------------------
(* One pass through the critical section of Loop *)

\* What holds of the values with which thread t reaches the inner while loop: t holds nothing
\* and is awake, so that the counts are those of the other threads.
AfterCleanUp(t, todo, res, total, idle, p) ==
  /\ pc[t] \in {"loop", "woken"}
  /\ p \in [Threads -> States] /\ p[t] = pc[t]
  /\ \A u \in Threads : p[u] = pc[u] \/ (pc[u] = "wait" /\ p[u] = "woken")
  /\ todo = Len(queue) + Cardinality(Cells(HeldBy, Threads \ {t}))
  /\ total = Cardinality(InLoop \ {t}) + 1
  /\ idle = Cardinality(Asleep \ {t})
  /\ res \in Nat /\ (result # 0 => res # 0) /\ (res # 0 => res = round /\ BlockFails)
  /\ BlockFails /\ pc[Master] # "returned" =>
       \/ res # 0
       \/ \E i \in DOMAIN queue : queue[i] # 0
       \/ \E u \in Threads \ {t} : Holds(u) /\ \E i \in DOMAIN vChecks[u] : vChecks[u][i] # 0
  /\ round > Rounds \/ pc[Master] = "returned" => todo = 0
  /\ pc[Master] = "returned" => res = 0

\* The part of the step that Decide leaves to its callers
Rest(t, todo) ==
  /\ nTodo' = todo
  /\ local' \in [Threads -> Nat] /\ \A u \in Threads \ {t} : local'[u] = local[u]
  /\ UNCHANGED <<stop, round, added>>

LEMMA EmptyCells ==
  ASSUME NEW T, IsFiniteSet(T), NEW h, \A u \in T : h[u] \in Nat, Cardinality(Cells(h, T)) = 0
  PROVE  \A u \in T : h[u] = 0
<1>1. Cells(h, T) = {}
  BY CellsFinite, FS_EmptySet
<1>2. ASSUME NEW u \in T, h[u] # 0 PROVE FALSE
  <2>1. 1 \in 1 .. h[u]
    BY <1>2
  <2>2. <<u, 1>> \in Cells(h, T)
    BY <2>1 DEF Cells
  <2> QED BY <1>1, <2>2
<1> QED BY <1>2

\* The other threads are where p says and keep their batches.
OthersKeep(t, p) == \A u \in Threads \ {t} : pc'[u] = p[u] /\ vChecks'[u] = vChecks[u]

\* The counts after a step in which only thread t takes or gives back checks
LEMMA CountsAfter ==
  ASSUME Types, Types', NEW t \in Threads, NEW todo, NEW res, NEW total, NEW idle, NEW p,
         AfterCleanUp(t, todo, res, total, idle, p), OthersKeep(t, p)
  PROVE  /\ Cardinality(HeldChecks') = Cardinality(Cells(HeldBy, Threads \ {t})) + Held(t)'
         /\ Cardinality(Cells(HeldBy, Threads \ {t})) \in Nat
         /\ Cardinality(Asleep') = IF pc'[t] \in {"wait", "woken"} THEN idle + 1 ELSE idle
         /\ Cardinality(InLoop') = IF t \in InLoop' THEN total ELSE total - 1
         /\ idle \in Nat /\ total - 1 \in Nat
<1>0. pc \in [Threads -> States] /\ p \in [Threads -> States] /\ IsFiniteSet(Threads)
  BY ThreadsFinite, Zenon DEF Types, AfterCleanUp
<1>1. \A u \in Threads \ {t} : pc'[u] = p[u] /\ vChecks'[u] = vChecks[u]
  BY DEF OthersKeep
<1>3. \A u \in Threads : p[u] = pc[u] \/ (pc[u] = "wait" /\ p[u] = "woken")
  BY DEF AfterCleanUp
<1>4. \A u \in Threads \ {t} : Held(u)' = Held(u)
  BY <1>1, <1>3 DEF Held
<1>5. /\ Cardinality(HeldChecks') = Cardinality(Cells(HeldBy, Threads \ {t})) + Held(t)'
      /\ Cardinality(Cells(HeldBy, Threads \ {t})) \in Nat
  <2>1. HeldBy' \in [Threads -> Nat] /\ HeldChecks' = Cells(HeldBy', Threads)
    <3>1. \A u \in Threads : Held(u)' \in Nat
      BY DEF Types, Held
    <3> QED BY <3>1 DEF HeldBy, HeldChecks, Cells
  <2>2. /\ Cardinality(Cells(HeldBy', Threads)) = Cardinality(Cells(HeldBy', Threads \ {t})) + HeldBy'[t]
        /\ Cardinality(Cells(HeldBy', Threads \ {t})) \in Nat
    <3>1. \A u \in Threads : HeldBy'[u] \in Nat
      BY <2>1
    <3> QED BY <1>0, <3>1, CellsSplit, Zenon
  <2>3. Cells(HeldBy', Threads \ {t}) = Cells(HeldBy, Threads \ {t})
    <3>1. \A u \in Threads \ {t} : HeldBy'[u] = HeldBy[u]
      BY <1>4 DEF HeldBy
    <3> QED BY <3>1 DEF Cells
  <2>4. HeldBy'[t] = Held(t)'
    BY DEF HeldBy
  <2> QED BY <2>1, <2>2, <2>3, <2>4
<1>6. Asleep' \ {t} = Asleep \ {t} /\ IsFiniteSet(Asleep') /\ (t \in Asleep' <=> pc'[t] \in {"wait", "woken"})
  <2>1. Asleep' \subseteq Threads
    BY DEF Asleep
  <2>2. IsFiniteSet(Asleep')
    BY <1>0, <2>1, FS_Subset
  <2> QED BY <1>1, <1>3, <2>2 DEF Asleep
<1>7. InLoop' \ {t} = InLoop \ {t} /\ IsFiniteSet(InLoop')
  <2>1. InLoop' \subseteq Threads
    BY DEF InLoop
  <2>2. IsFiniteSet(InLoop')
    BY <1>0, <2>1, FS_Subset
  <2>3. ASSUME NEW u \in Threads \ {t} PROVE u \in InLoop' <=> u \in InLoop
    BY <1>1, <1>3 DEF InLoop
  <2>4. InLoop \subseteq Threads
    BY DEF InLoop
  <2> QED BY <2>1, <2>2, <2>3, <2>4
<1>8. /\ Cardinality(Asleep' \ {t}) \in Nat
      /\ t \in Asleep' => Cardinality(Asleep') = Cardinality(Asleep' \ {t}) + 1
      /\ t \notin Asleep' => Cardinality(Asleep') = Cardinality(Asleep' \ {t})
  BY <1>6, CardWith, Zenon
<1>9. /\ Cardinality(InLoop' \ {t}) \in Nat
      /\ t \in InLoop' => Cardinality(InLoop') = Cardinality(InLoop' \ {t}) + 1
      /\ t \notin InLoop' => Cardinality(InLoop') = Cardinality(InLoop' \ {t})
  BY <1>7, CardWith, Zenon
<1>10. idle = Cardinality(Asleep \ {t}) /\ total = Cardinality(InLoop \ {t}) + 1
  BY DEF AfterCleanUp
<1>11. Cardinality(Asleep') = (IF pc'[t] \in {"wait", "woken"} THEN idle + 1 ELSE idle) /\ idle \in Nat
  BY <1>6, <1>8, <1>10
<1>12. Cardinality(InLoop') = (IF t \in InLoop' THEN total ELSE total - 1) /\ total - 1 \in Nat
  <2>1. Cardinality(InLoop' \ {t}) = Cardinality(InLoop \ {t})
    BY <1>7
  <2> QED BY <1>9, <1>10, <2>1
<1> QED BY <1>5, <1>11, <1>12

\* Thread t leaves the critical section without a batch: it waits, exits or returns.
LEMMA DecideLetsGo ==
  ASSUME IInv, NEW t \in Threads, NEW todo, NEW res, NEW total, NEW idle, NEW p,
         AfterCleanUp(t, todo, res, total, idle, p), Rest(t, todo),
         NEW s \in {"wait", "returned", "exited"}, pc' = [p EXCEPT ![t] = s],
         queue' = queue, doWork' = doWork,
         vChecks' \in [Threads -> Seq(Nat)], \A u \in Threads \ {t} : vChecks'[u] = vChecks[u],
         nTotal' = IF s = "returned" THEN total - 1 ELSE total,
         nIdle' = IF s = "wait" THEN idle + 1 ELSE idle,
         result' = IF s = "returned" THEN 0 ELSE res,
         ret' = IF s = "returned" THEN res ELSE ret,
         s = "returned" => t = Master /\ todo = 0 /\ queue = <<>>,
         s = "wait" => ~stop,
         s = "exited" => stop
  PROVE  IInv'
<1> USE DEF IInv
<1>0. Types /\ p \in [Threads -> States] /\ p[t] = pc[t] /\ pc[t] \in {"loop", "woken"}
  BY DEF AfterCleanUp
<1>1. \A u \in Threads : p[u] = pc[u] \/ (pc[u] = "wait" /\ p[u] = "woken")
  BY DEF AfterCleanUp
<1>2. pc' \in [Threads -> States] /\ pc'[t] = s /\ \A u \in Threads \ {t} : pc'[u] = p[u]
  BY <1>0, Zenon DEF States
<1>3. stop => t # Master
  BY <1>0, ThreadsFinite, Zenon DEF Phases
<1>4. Cardinality(Cells(HeldBy, Threads \ {t})) \in Nat
  <2>1. HeldBy \in [Threads -> Nat] /\ IsFiniteSet(Threads)
    BY <1>0, HeldFacts, ThreadsFinite
  <2>2. \A u \in Threads : HeldBy[u] \in Nat
    BY <2>1
  <2> QED BY <2>1, <2>2, CellsSplit, Zenon
<1>5. todo \in Nat
  <2>1. todo = Len(queue) + Cardinality(Cells(HeldBy, Threads \ {t}))
    BY Zenon DEF AfterCleanUp
  <2>2. queue \in Seq(Nat)
    BY <1>0, Zenon DEF Types
  <2>3. Len(queue) \in Nat
    BY <2>2
  <2> QED BY <1>4, <2>1, <2>3
<1>6. idle \in Nat /\ total - 1 \in Nat /\ total \in Nat
  <2>1. IsFiniteSet(Asleep) /\ IsFiniteSet(InLoop)
    <3>1. Asleep \subseteq Threads /\ InLoop \subseteq Threads
      BY DEF Asleep, InLoop
    <3> QED BY <3>1, ThreadsFinite, FS_Subset
  <2>2. Cardinality(Asleep \ {t}) \in Nat /\ Cardinality(InLoop \ {t}) \in Nat
    BY <2>1, CardWith, Zenon
  <2> QED BY <2>2, SMTT(30) DEF AfterCleanUp
<1>7. Types'
  <2>1. queue' \in Seq(Nat) /\ added' \in Seq(Nat) /\ round' \in Nat \ {0} /\ stop' \in BOOLEAN
    BY <1>0 DEF Types, Rest
  <2>2. nTodo' \in Nat /\ nIdle' \in Nat /\ nTotal' \in Nat
    BY <1>5, <1>6 DEF Rest
  <2>3. result' \in Nat /\ ret' \in Nat
    BY <1>0, Zenon DEF Types, AfterCleanUp
  <2>4. local' \in [Threads -> Nat] /\ doWork' \in [Threads -> BOOLEAN]
    BY <1>0, Zenon DEF Types, Rest
  <2> QED BY <1>2, <2>1, <2>2, <2>3, <2>4, Zenon DEF Types
<1>8. CountsExact'
  <2>1. OthersKeep(t, p)
    BY <1>2 DEF OthersKeep
  <2>2. /\ Cardinality(HeldChecks') = Cardinality(Cells(HeldBy, Threads \ {t})) + Held(t)'
        /\ Cardinality(Asleep') = IF pc'[t] \in {"wait", "woken"} THEN idle + 1 ELSE idle
        /\ Cardinality(InLoop') = IF t \in InLoop' THEN total ELSE total - 1
    BY <1>0, <1>7, <2>1, CountsAfter, Zenon
  <2>3. Held(t)' = 0
    BY <1>2, Zenon DEF Held
  <2>4. t \in InLoop' <=> s # "returned"
    BY <1>2, <1>3 DEF InLoop
  <2>5. nTodo' = Len(queue') + Cardinality(HeldChecks')
    BY <1>4, <2>2, <2>3, SMTT(30) DEF Rest, AfterCleanUp
  <2>6. nIdle' = Cardinality(Asleep')
    BY <1>2, <2>2
  <2>7. nTotal' = Cardinality(InLoop')
    BY <2>2, <2>4
  <2> QED BY <2>5, <2>6, <2>7 DEF CountsExact
<1>9. Phases'
  <2>1. \A w \in Workers : pc'[w] \in {"loop", "wait", "woken", "work", "exited"}
    <3>1. Workers \subseteq Threads /\ Master \notin Workers
      BY PoolAssumption DEF Threads
    <3> QED BY <1>1, <1>2, <3>1, ZenonT(40) DEF Phases
  <2>2. \A u \in Threads : pc'[u] = "work" => vChecks'[u] # <<>>
    BY <1>1, <1>2, ZenonT(40) DEF Phases
  <2>3. stop' => round' > Rounds
    BY Zenon DEF Phases, Rest
  <2>4. round' > Rounds =>
          nTodo' = 0 /\ pc'[Master] \notin {"loop", "wait", "woken", "work", "returned"}
    <3>1. Master \in Threads
      BY ThreadsFinite
    <3> QED BY <1>0, <1>1, <1>2, <3>1, Zenon DEF Phases, Rest, AfterCleanUp
  <2> QED BY <2>1, <2>2, <2>3, <2>4, Zenon DEF Phases
<1>10. \A u \in Threads : Holds(u)' => u # t /\ Holds(u) /\ pc'[u] = pc[u] /\ vChecks'[u] = vChecks[u]
                                       /\ doWork'[u] = doWork[u] /\ local'[u] = local[u]
  BY <1>1, <1>2, Zenon DEF Holds, Rest
<1>11. \A u \in Threads \ {t} : Holds(u) => Holds(u)' /\ vChecks'[u] = vChecks[u]
  BY <1>1, <1>2, Zenon DEF Holds
<1>12. BlockFails' <=> BlockFails
  BY Zenon DEF BlockFails, Rest
<1>13. s = "returned" => \A u \in Threads \ {t} : Holds(u) => vChecks[u] = <<>>
  <2> SUFFICES ASSUME s = "returned", NEW u \in Threads \ {t}, Holds(u) PROVE vChecks[u] = <<>>
    OBVIOUS
  <2>1. Cardinality(Cells(HeldBy, Threads \ {t})) = 0
    BY <1>0, <1>4, SMTT(30) DEF AfterCleanUp, Types
  <2>2. HeldBy \in [Threads -> Nat] /\ IsFiniteSet(Threads \ {t})
    BY <1>0, HeldFacts, ThreadsFinite, FS_RemoveElement, Zenon
  <2>3. HeldBy[u] = 0
    <3>1. \A x \in Threads \ {t} : HeldBy[x] \in Nat
      BY <2>2
    <3>2. \A x \in Threads \ {t} : HeldBy[x] = 0
      <4> HIDE DEF IInv
      <4> QED BY <2>1, <2>2, <3>1, EmptyCells, Zenon
    <3> QED BY <3>2
  <2>4. Len(vChecks[u]) = 0
    BY <2>3 DEF HeldBy, Held, Holds
  <2> QED BY <1>0, <2>4, SMTT(30) DEF Types
<1>14. OfThisBlock'
  <2>1. result' # 0 => result' = round' /\ BlockFails'
    BY <1>12, Zenon DEF AfterCleanUp, Rest
  <2>2. \A i \in DOMAIN queue' : queue'[i] # 0 => queue'[i] = round' /\ BlockFails'
    BY <1>12, Zenon DEF OfThisBlock, Rest
  <2>3. ASSUME NEW u \in Threads, Holds(u)', NEW i \in DOMAIN vChecks'[u], vChecks'[u][i] # 0
        PROVE  vChecks'[u][i] = round' /\ BlockFails'
    <3>1. Holds(u) /\ vChecks'[u] = vChecks[u]
      BY <1>10, <2>3, Zenon
    <3>2. vChecks[u][i] = round /\ BlockFails
      BY <2>3, <3>1, Zenon DEF OfThisBlock
    <3> QED BY <1>12, <3>1, <3>2, Zenon DEF Rest
  <2> QED BY <2>1, <2>2, <2>3, Zenon DEF OfThisBlock
<1>15. BatchesJudged'
  <2> SUFFICES ASSUME NEW u \in Threads, Holds(u)', vChecks'[u] # <<>>
               PROVE  IF doWork'[u] THEN pc'[u] = "loop" => local'[u] = FirstError(vChecks'[u])
                      ELSE result' # 0
    BY Zenon DEF BatchesJudged, FirstError
  <2>1. u # t /\ Holds(u) /\ pc'[u] = pc[u] /\ vChecks'[u] = vChecks[u]
        /\ doWork'[u] = doWork[u] /\ local'[u] = local[u]
    BY <1>10, Zenon
  <2>2. s # "returned"
    BY <1>13, <2>1, Zenon
  <2>3. IF doWork[u] THEN pc[u] = "loop" => local[u] = FirstError(vChecks[u]) ELSE result # 0
    BY <2>1, Zenon DEF BatchesJudged
  <2>4. result # 0 => result' # 0
    BY <2>2, Zenon DEF AfterCleanUp
  <2> QED BY <2>1, <2>3, <2>4, Zenon
<1>16. ErrorNotLost'
  <2> SUFFICES ASSUME BlockFails, pc'[Master] # "returned"
               PROVE  \/ result' # 0
                      \/ \E i \in DOMAIN queue' : queue'[i] # 0
                      \/ \E u \in Threads : Holds(u)' /\ \E i \in DOMAIN vChecks'[u] : vChecks'[u][i] # 0
    BY <1>12, Zenon DEF ErrorNotLost
  <2>1. pc[Master] # "returned" /\ s # "returned"
    BY <1>0, <1>1, <1>2, ThreadsFinite, Zenon
  <2>2. \/ res # 0
        \/ \E i \in DOMAIN queue : queue[i] # 0
        \/ \E u \in Threads \ {t} : Holds(u) /\ \E i \in DOMAIN vChecks[u] : vChecks[u][i] # 0
    BY <2>1, Zenon DEF AfterCleanUp
  <2> QED BY <1>11, <2>1, <2>2, Zenon
<1>17. Returned'
  <2> SUFFICES ASSUME pc'[Master] = "returned"
               PROVE  nTodo' = 0 /\ result' = 0 /\ ret' = IF BlockFails THEN round' ELSE 0
    BY <1>12 DEF Returned
  <2>1. CASE s = "returned"
    <3>1. BlockFails => res # 0
      <4> SUFFICES ASSUME BlockFails, res = 0 PROVE FALSE
        OBVIOUS
      <4>1. pc[Master] # "returned"
        BY <1>0, <2>1, Zenon
      <4>2. \/ \E i \in DOMAIN queue : queue[i] # 0
            \/ \E u \in Threads \ {t} : Holds(u) /\ \E i \in DOMAIN vChecks[u] : vChecks[u][i] # 0
        BY <4>1, Zenon DEF AfterCleanUp
      <4> QED BY <1>13, <2>1, <4>2, SMTT(30)
    <3> QED BY <2>1, <3>1, Zenon DEF AfterCleanUp, Rest
  <2>2. CASE s # "returned"
    <3>1. pc[Master] = "returned" /\ t # Master
      BY <1>1, <1>2, <2>2, ThreadsFinite, Zenon
    <3> QED BY <2>2, <3>1, Zenon DEF AfterCleanUp, Rest, Returned
  <2> QED BY <2>1, <2>2
<1> QED BY <1>7, <1>8, <1>9, <1>14, <1>15, <1>16, <1>17

\* A batch and what it leaves in the queue
LEMMA SplitBack ==
  ASSUME NEW q \in Seq(Nat), NEW n \in 1 .. Len(q)
  PROVE  /\ SubSeq(q, 1, Len(q) - n) \in Seq(Nat)
         /\ Len(SubSeq(q, 1, Len(q) - n)) = Len(q) - n
         /\ \A i \in 1 .. Len(q) - n : SubSeq(q, 1, Len(q) - n)[i] = q[i]
         /\ SubSeq(q, Len(q) - n + 1, Len(q)) \in Seq(Nat)
         /\ Len(SubSeq(q, Len(q) - n + 1, Len(q))) = n
         /\ \A i \in 1 .. n : SubSeq(q, Len(q) - n + 1, Len(q))[i] = q[Len(q) - n + i]
<1>1. Len(q) \in Nat /\ n \in Nat
  OBVIOUS
<1>2. \A i \in 1 .. Len(q) : q[i] \in Nat
  OBVIOUS
<1> QED BY <1>1, <1>2

\* Thread t leaves with a batch.
LEMMA DecideTakes ==
  ASSUME IInv, NEW t \in Threads, NEW todo, NEW res, NEW total, NEW idle, NEW p,
         AfterCleanUp(t, todo, res, total, idle, p), Rest(t, todo),
         pc' = [p EXCEPT ![t] = "work"], queue # <<>>, ~stop,
         Take(t, total, idle, res), nTotal' = total, result' = res, nIdle' = idle, ret' = ret
  PROVE  IInv'
<1> USE DEF IInv
<1>0. Types /\ p \in [Threads -> States] /\ p[t] = pc[t] /\ pc[t] \in {"loop", "woken"}
  BY Zenon DEF AfterCleanUp
<1>1. \A u \in Threads : p[u] = pc[u] \/ (pc[u] = "wait" /\ p[u] = "woken")
  BY Zenon DEF AfterCleanUp
<1>2. pc' \in [Threads -> States] /\ pc'[t] = "work" /\ \A u \in Threads \ {t} : pc'[u] = p[u]
  BY <1>0 DEF States
<1>4. Cardinality(Cells(HeldBy, Threads \ {t})) \in Nat
  <2>1. HeldBy \in [Threads -> Nat] /\ IsFiniteSet(Threads)
    BY <1>0, HeldFacts, ThreadsFinite
  <2>2. \A u \in Threads : HeldBy[u] \in Nat
    BY <2>1
  <2> QED BY <2>1, <2>2, CellsSplit, Zenon
<1>5. todo \in Nat /\ todo # 0
  <2>1. Len(queue) \in Nat /\ Len(queue) # 0
    BY <1>0, SMTT(30) DEF Types
  <2>2. todo = Len(queue) + Cardinality(Cells(HeldBy, Threads \ {t}))
    BY Zenon DEF AfterCleanUp
  <2> QED BY <1>4, <2>1, <2>2
<1>6. idle \in Nat /\ total \in Nat
  <2>1. IsFiniteSet(Asleep) /\ IsFiniteSet(InLoop)
    <3>1. Asleep \subseteq Threads /\ InLoop \subseteq Threads
      BY Zenon DEF Asleep, InLoop
    <3> QED BY <3>1, ThreadsFinite, FS_Subset
  <2>2. Cardinality(Asleep \ {t}) \in Nat /\ Cardinality(InLoop \ {t}) \in Nat
    BY <2>1, CardWith, Zenon
  <2> QED BY <2>2, SMTT(30) DEF AfterCleanUp
<1> DEFINE n == BatchLength(total, idle)
           B == SubSeq(queue, Len(queue) - n + 1, Len(queue))
<1>7. n \in 1 .. Len(queue)
  BY <1>0, <1>6, BatchFits, Zenon DEF Types
<1>8. /\ vChecks' = [vChecks EXCEPT ![t] = B]
      /\ queue' = SubSeq(queue, 1, Len(queue) - n)
      /\ doWork' = [doWork EXCEPT ![t] = res = 0]
  BY DEF Take
<1> HIDE DEF n
<1>9. queue \in Seq(Nat)
  BY <1>0, Zenon DEF Types
<1>10. /\ queue' \in Seq(Nat) /\ Len(queue') = Len(queue) - n
       /\ \A i \in 1 .. Len(queue) - n : queue'[i] = queue[i]
       /\ B \in Seq(Nat) /\ Len(B) = n
       /\ \A i \in 1 .. n : B[i] = queue[Len(queue) - n + i]
  BY <1>7, <1>8, <1>9, SplitBack, Zenon
<1> HIDE DEF B
<1>11. /\ vChecks' \in [Threads -> Seq(Nat)] /\ vChecks'[t] = B
       /\ \A u \in Threads \ {t} : vChecks'[u] = vChecks[u]
       /\ doWork' \in [Threads -> BOOLEAN] /\ doWork'[t] = (res = 0)
       /\ \A u \in Threads \ {t} : doWork'[u] = doWork[u]
  BY <1>0, <1>8, <1>10, Zenon DEF Types
<1>12. Types'
  <2>1. added' \in Seq(Nat) /\ round' \in Nat \ {0} /\ stop' \in BOOLEAN
    BY <1>0, Zenon DEF Types, Rest
  <2>2. nTodo' \in Nat /\ nIdle' \in Nat /\ nTotal' \in Nat
    BY <1>5, <1>6 DEF Rest
  <2>3. result' \in Nat /\ ret' \in Nat
    BY <1>0, Zenon DEF Types, AfterCleanUp
  <2>4. local' \in [Threads -> Nat]
    BY DEF Rest
  <2> QED BY <1>2, <1>10, <1>11, <2>1, <2>2, <2>3, <2>4, Zenon DEF Types
<1>13. CountsExact'
  <2>1. OthersKeep(t, p)
    BY <1>2, <1>11, Zenon DEF OthersKeep
  <2>2. /\ Cardinality(HeldChecks') = Cardinality(Cells(HeldBy, Threads \ {t})) + Held(t)'
        /\ Cardinality(Asleep') = IF pc'[t] \in {"wait", "woken"} THEN idle + 1 ELSE idle
        /\ Cardinality(InLoop') = IF t \in InLoop' THEN total ELSE total - 1
    BY <1>0, <1>12, <2>1, CountsAfter, Zenon
  <2>3. Held(t)' = n
    BY <1>2, <1>10, <1>11, Zenon DEF Held
  <2>4. t \in InLoop'
    BY <1>2, Zenon DEF InLoop
  <2>5. nTodo' = Len(queue') + Cardinality(HeldChecks')
    <3>1. nTodo' = Len(queue) + Cardinality(Cells(HeldBy, Threads \ {t}))
      BY Zenon DEF Rest, AfterCleanUp
    <3>2. Len(queue) \in Nat /\ n \in Nat
      BY <1>7, <1>9
    <3> QED BY <1>4, <1>10, <2>2, <2>3, <3>1, <3>2, SMTT(30)
  <2>6. nIdle' = Cardinality(Asleep')
    BY <1>2, <2>2, Zenon
  <2>7. nTotal' = Cardinality(InLoop')
    BY <2>2, <2>4
  <2> QED BY <2>5, <2>6, <2>7 DEF CountsExact
<1>14. Phases'
  <2>1. \A w \in Workers : pc'[w] \in {"loop", "wait", "woken", "work", "exited"}
    <3>1. Workers \subseteq Threads /\ Master \notin Workers
      BY PoolAssumption DEF Threads
    <3> QED BY <1>1, <1>2, <3>1, Zenon DEF Phases
  <2>2. B # <<>>
    BY <1>7, <1>10
  <2>3. \A u \in Threads : pc'[u] = "work" => vChecks'[u] # <<>>
    <3>1. ASSUME NEW u \in Threads, u # t, pc'[u] = "work" PROVE vChecks'[u] # <<>>
      <4>1. pc[u] = "work"
        BY <1>1, <1>2, <3>1
      <4> QED BY <1>11, <3>1, <4>1, Zenon DEF Phases
    <3> QED BY <1>11, <2>2, <3>1, Zenon
  <2>4. stop' => round' > Rounds
    BY Zenon DEF Phases, Rest
  <2>5. ~(round' > Rounds)
    BY <1>5, Zenon DEF Rest, AfterCleanUp
  <2> QED BY <2>1, <2>3, <2>4, <2>5, Zenon DEF Phases
<1>15. \A u \in Threads \ {t} : /\ Holds(u)' <=> Holds(u)
                                /\ pc'[u] = "loop" <=> pc[u] = "loop"
                                /\ local'[u] = local[u]
  BY <1>1, <1>2, Zenon DEF Holds, Rest
<1>16. Holds(t)'
  BY <1>2, Zenon DEF Holds
<1>17. (BlockFails' <=> BlockFails) /\ round' = round
  BY DEF BlockFails, Rest
<1>18. \A i \in 1 .. Len(queue) : queue[i] # 0 => queue[i] = round /\ BlockFails
  BY <1>9, SMTT(30) DEF OfThisBlock
<1>19. OfThisBlock'
  <2>1. result' # 0 => result' = round' /\ BlockFails'
    BY <1>17, Zenon DEF AfterCleanUp
  <2>2. ASSUME NEW i \in DOMAIN queue', queue'[i] # 0 PROVE queue'[i] = round' /\ BlockFails'
    <3>1. i \in 1 .. Len(queue) - n /\ Len(queue) \in Nat /\ n \in Nat
      <4>1. Len(queue) \in Nat /\ DOMAIN queue' = 1 .. Len(queue')
        BY <1>9, <1>10
      <4>2. i \in 1 .. Len(queue) - n
        BY <1>10, <2>2, <4>1, Zenon
      <4> QED BY <1>7, <4>1, <4>2
    <3>2. i \in 1 .. Len(queue) /\ queue'[i] = queue[i]
      BY <1>10, <3>1, SMTT(30)
    <3> QED BY <1>17, <1>18, <2>2, <3>2
  <2>3. ASSUME NEW i \in DOMAIN B, B[i] # 0 PROVE B[i] = round' /\ BlockFails'
    <3>1. i \in 1 .. n /\ Len(queue) \in Nat /\ n \in Nat /\ n <= Len(queue)
      BY <1>7, <1>9, <1>10, <2>3, SMTT(30)
    <3>2. Len(queue) - n + i \in 1 .. Len(queue) /\ B[i] = queue[Len(queue) - n + i]
      BY <1>10, <3>1, SMTT(30)
    <3> QED BY <1>17, <1>18, <2>3, <3>2
  <2>4. ASSUME NEW u \in Threads, Holds(u)', NEW i \in DOMAIN vChecks'[u], vChecks'[u][i] # 0
        PROVE  vChecks'[u][i] = round' /\ BlockFails'
    <3>1. CASE u = t
      BY <1>11, <2>3, <2>4, <3>1, Zenon
    <3>2. CASE u # t
      <4>1. Holds(u) /\ vChecks'[u] = vChecks[u]
        BY <1>11, <1>15, <2>4, <3>2, Zenon
      <4>2. vChecks[u][i] = round /\ BlockFails
        BY <2>4, <4>1, Zenon DEF OfThisBlock
      <4> QED BY <1>17, <4>1, <4>2, Zenon
    <3> QED BY <3>1, <3>2
  <2> QED BY <2>1, <2>2, <2>4, Zenon DEF OfThisBlock
<1>20. result # 0 => result' # 0
  BY Zenon DEF AfterCleanUp
<1>21. BatchesJudged'
  <2> SUFFICES ASSUME NEW u \in Threads, Holds(u)', vChecks'[u] # <<>>
               PROVE  IF doWork'[u] THEN pc'[u] = "loop" => local'[u] = FirstError(vChecks'[u])
                      ELSE result' # 0
    BY Zenon DEF BatchesJudged, FirstError
  <2>1. CASE u = t
    BY <1>2, <1>11, <2>1, Zenon
  <2>2. CASE u # t
    <3>1. Holds(u) /\ vChecks'[u] = vChecks[u] /\ doWork'[u] = doWork[u]
          /\ local'[u] = local[u] /\ (pc'[u] = "loop" <=> pc[u] = "loop")
      BY <1>11, <1>15, <2>2, Zenon
    <3>2. IF doWork[u] THEN pc[u] = "loop" => local[u] = FirstError(vChecks[u]) ELSE result # 0
      BY <3>1, Zenon DEF BatchesJudged
    <3> QED BY <1>20, <3>1, <3>2, Zenon
  <2> QED BY <2>1, <2>2, Zenon
<1>22. ErrorNotLost'
  <2> SUFFICES ASSUME BlockFails, pc'[Master] # "returned"
               PROVE  \/ result' # 0
                      \/ \E i \in DOMAIN queue' : queue'[i] # 0
                      \/ \E u \in Threads : Holds(u)' /\ \E i \in DOMAIN vChecks'[u] : vChecks'[u][i] # 0
    BY <1>17, Zenon DEF ErrorNotLost
  <2>1. pc[Master] # "returned"
    BY <1>0, <1>1, <1>2, ThreadsFinite, Zenon
  <2>2. CASE res # 0
    BY <2>2, Zenon
  <2>3. CASE \E i \in DOMAIN queue : queue[i] # 0
    <3>1. PICK i \in 1 .. Len(queue) : queue[i] # 0
      BY <1>9, <2>3
    <3>2. Len(queue) \in Nat /\ n \in Nat /\ n <= Len(queue) /\ i \in Nat
      BY <1>7, <1>9
    <3>3. CASE i <= Len(queue) - n
      <4>1. i \in DOMAIN queue' /\ queue'[i] = queue[i]
        BY <1>10, <3>2, <3>3, SMTT(30)
      <4> QED BY <3>1, <4>1, Zenon
    <3>4. CASE ~(i <= Len(queue) - n)
      <4> DEFINE j == i - (Len(queue) - n)
      <4>1. j \in 1 .. n /\ Len(queue) - n + j = i
        BY <3>2, <3>4
      <4> HIDE DEF j
      <4>2. j \in DOMAIN B /\ B[j] = queue[i]
        BY <1>10, <4>1, SMTT(30)
      <4>3. j \in DOMAIN vChecks'[t] /\ vChecks'[t][j] # 0
        BY <1>11, <3>1, <4>2, Zenon
      <4> QED BY <1>16, <4>3, Zenon
    <3> QED BY <3>3, <3>4, Zenon
  <2>4. CASE \E u \in Threads \ {t} : Holds(u) /\ \E i \in DOMAIN vChecks[u] : vChecks[u][i] # 0
    <3>1. PICK u \in Threads \ {t} : Holds(u) /\ \E i \in DOMAIN vChecks[u] : vChecks[u][i] # 0
      BY <2>4, Zenon
    <3>2. Holds(u)' /\ vChecks'[u] = vChecks[u]
      BY <1>11, <1>15, <3>1, Zenon
    <3> QED BY <3>1, <3>2, Zenon
  <2> QED BY <2>1, <2>2, <2>3, <2>4, Zenon DEF AfterCleanUp
<1>23. Returned'
  <2>1. pc'[Master] # "returned"
    BY <1>0, <1>1, <1>2, <1>5, ThreadsFinite, Zenon DEF AfterCleanUp
  <2> QED BY <2>1 DEF Returned
<1> QED BY <1>12, <1>13, <1>14, <1>19, <1>21, <1>22, <1>23, Zenon

LEMMA DecideKeeps ==
  ASSUME IInv, NEW t \in Threads, NEW todo, NEW res, NEW total, NEW idle, NEW p,
         AfterCleanUp(t, todo, res, total, idle, p), Rest(t, todo),
         Decide(t, todo, res, total, idle, p)
  PROVE  IInv'
<1>0. vChecks \in [Threads -> Seq(Nat)]
  BY DEF IInv, Types
<1>1. CASE /\ queue = <<>> /\ ~stop /\ MasterMayReturn(t, todo)
           /\ nTotal' = total - 1 /\ ret' = res /\ result' = 0 /\ nIdle' = idle
           /\ pc' = [p EXCEPT ![t] = "returned"]
           /\ UNCHANGED <<queue, vChecks, doWork>>
  BY <1>0, <1>1, DecideLetsGo, Zenon DEF MasterMayReturn
<1>2. CASE /\ queue = <<>> /\ ~stop /\ ~MasterMayReturn(t, todo)
           /\ nIdle' = idle + 1 /\ pc' = [p EXCEPT ![t] = "wait"]
           /\ nTotal' = total /\ result' = res
           /\ vChecks' = [vChecks EXCEPT ![t] = <<>>]
           /\ UNCHANGED <<queue, doWork, ret>>
  <2>1. <<>> \in Seq(Nat)
    OBVIOUS
  <2>2. vChecks' \in [Threads -> Seq(Nat)] /\ \A u \in Threads \ {t} : vChecks'[u] = vChecks[u]
    BY <1>0, <1>2, <2>1
  <2> QED BY <1>2, <2>2, DecideLetsGo, Zenon
<1>3. CASE /\ queue # <<>> /\ ~stop /\ Take(t, total, idle, res)
           /\ pc' = [p EXCEPT ![t] = "work"]
           /\ nTotal' = total /\ result' = res /\ nIdle' = idle /\ UNCHANGED ret
  BY <1>3, DecideTakes, Zenon
<1>4. CASE /\ stop /\ pc' = [p EXCEPT ![t] = "exited"]
           /\ nTotal' = total /\ result' = res /\ nIdle' = idle
           /\ UNCHANGED <<queue, vChecks, doWork, ret>>
  BY <1>0, <1>4, DecideLetsGo, Zenon
<1> QED BY <1>1, <1>2, <1>3, <1>4, Zenon DEF Decide

-----------------------------------------------------------------------------
(* The steps of Loop *)

LEMMA NatCounts ==
  ASSUME IInv, NEW t \in Threads
  PROVE  /\ Cardinality(HeldChecks) = Cardinality(Cells(HeldBy, Threads \ {t})) + Held(t)
         /\ Cardinality(Cells(HeldBy, Threads \ {t})) \in Nat /\ Held(t) \in Nat
         /\ Cardinality(Asleep \ {t}) \in Nat /\ Cardinality(InLoop \ {t}) \in Nat
         /\ Cardinality(Asleep) = Cardinality(Asleep \ {t}) + (IF t \in Asleep THEN 1 ELSE 0)
         /\ Cardinality(InLoop) = Cardinality(InLoop \ {t}) + (IF t \in InLoop THEN 1 ELSE 0)
<1>1. HeldBy \in [Threads -> Nat] /\ HeldChecks = Cells(HeldBy, Threads) /\ IsFiniteSet(Threads)
  BY HeldFacts, ThreadsFinite DEF IInv
<1>2. /\ Cardinality(HeldChecks) = Cardinality(Cells(HeldBy, Threads \ {t})) + HeldBy[t]
      /\ Cardinality(Cells(HeldBy, Threads \ {t})) \in Nat
  <2>1. \A u \in Threads : HeldBy[u] \in Nat
    BY <1>1
  <2> QED BY <1>1, <2>1, CellsSplit, Zenon
<1>3. HeldBy[t] = Held(t) /\ Held(t) \in Nat
  BY <1>1 DEF HeldBy
<1>4. IsFiniteSet(Asleep) /\ IsFiniteSet(InLoop)
  <2>1. Asleep \subseteq Threads /\ InLoop \subseteq Threads
    BY Zenon DEF Asleep, InLoop
  <2> QED BY <1>1, <2>1, FS_Subset
<1>5. /\ Cardinality(Asleep \ {t}) \in Nat
      /\ t \in Asleep => Cardinality(Asleep) = Cardinality(Asleep \ {t}) + 1
      /\ t \notin Asleep => Cardinality(Asleep) = Cardinality(Asleep \ {t})
  BY <1>4, CardWith, Zenon
<1>6. /\ Cardinality(InLoop \ {t}) \in Nat
      /\ t \in InLoop => Cardinality(InLoop) = Cardinality(InLoop \ {t}) + 1
      /\ t \notin InLoop => Cardinality(InLoop) = Cardinality(InLoop \ {t})
  BY <1>4, CardWith, Zenon
<1> QED BY <1>2, <1>3, <1>5, <1>6, SMTT(30)

LEMMA FirstIterationKeeps ==
  ASSUME IInv, NEW t \in Threads, FirstIteration(t)
  PROVE  IInv'
<1>0. Types /\ pc[t] = "loop" /\ vChecks[t] = <<>>
  BY Zenon DEF IInv, FirstIteration
<1>1. Held(t) = 0 /\ t \notin Asleep /\ t \notin InLoop
  BY <1>0, Zenon DEF Held, Asleep, InLoop
<1>a. /\ Cardinality(HeldChecks) = Cardinality(Cells(HeldBy, Threads \ {t})) + Held(t)
      /\ Cardinality(Cells(HeldBy, Threads \ {t})) \in Nat /\ Held(t) \in Nat
      /\ Cardinality(Asleep \ {t}) \in Nat /\ Cardinality(InLoop \ {t}) \in Nat
      /\ Cardinality(Asleep) = Cardinality(Asleep \ {t}) + (IF t \in Asleep THEN 1 ELSE 0)
      /\ Cardinality(InLoop) = Cardinality(InLoop \ {t}) + (IF t \in InLoop THEN 1 ELSE 0)
  BY NatCounts, Zenon
<1>b. /\ nTodo = Len(queue) + Cardinality(HeldChecks) /\ Len(queue) \in Nat
      /\ nIdle = Cardinality(Asleep) /\ nTotal = Cardinality(InLoop)
  BY DEF IInv, CountsExact, Types
<1>2. /\ nTodo = Len(queue) + Cardinality(Cells(HeldBy, Threads \ {t}))
      /\ nTotal + 1 = Cardinality(InLoop \ {t}) + 1
      /\ nIdle = Cardinality(Asleep \ {t})
  BY <1>1, <1>a, <1>b, SMTT(30)
<1>3. AfterCleanUp(t, nTodo, result, nTotal + 1, nIdle, pc)
  <2>1. pc[t] \in {"loop", "woken"} /\ pc \in [Threads -> States]
    BY <1>0 DEF Types
  <2>2. result \in Nat /\ (result # 0 => result = round /\ BlockFails)
    BY Zenon DEF IInv, Types, OfThisBlock
  <2>3. BlockFails /\ pc[Master] # "returned" =>
          \/ result # 0
          \/ \E i \in DOMAIN queue : queue[i] # 0
          \/ \E u \in Threads \ {t} : Holds(u) /\ \E i \in DOMAIN vChecks[u] : vChecks[u][i] # 0
    BY <1>0, SMTT(30) DEF IInv, ErrorNotLost
  <2>4. /\ round > Rounds \/ pc[Master] = "returned" => nTodo = 0
        /\ pc[Master] = "returned" => result = 0
    BY SMTT(30) DEF IInv, Phases, Returned
  <2> QED BY <1>2, <2>1, <2>2, <2>3, <2>4, Zenon DEF AfterCleanUp
<1>4. Rest(t, nTodo)
  BY <1>0 DEF FirstIteration, Rest, Types
<1>5. Decide(t, nTodo, result, nTotal + 1, nIdle, pc)
  BY Zenon DEF FirstIteration
<1> QED BY <1>3, <1>4, <1>5, DecideKeeps, Zenon

LEMMA WokenKeeps ==
  ASSUME IInv, NEW t \in Threads, Woken(t)
  PROVE  IInv'
<1>0. Types /\ pc[t] = "woken"
  BY DEF IInv, Woken
<1>1. Held(t) = 0 /\ t \in Asleep /\ t \in InLoop
  BY <1>0, Zenon DEF Held, Asleep, InLoop
<1>a. /\ Cardinality(HeldChecks) = Cardinality(Cells(HeldBy, Threads \ {t})) + Held(t)
      /\ Cardinality(Cells(HeldBy, Threads \ {t})) \in Nat /\ Held(t) \in Nat
      /\ Cardinality(Asleep \ {t}) \in Nat /\ Cardinality(InLoop \ {t}) \in Nat
      /\ Cardinality(Asleep) = Cardinality(Asleep \ {t}) + (IF t \in Asleep THEN 1 ELSE 0)
      /\ Cardinality(InLoop) = Cardinality(InLoop \ {t}) + (IF t \in InLoop THEN 1 ELSE 0)
  BY NatCounts, Zenon
<1>b. /\ nTodo = Len(queue) + Cardinality(HeldChecks) /\ Len(queue) \in Nat
      /\ nIdle = Cardinality(Asleep) /\ nTotal = Cardinality(InLoop)
  BY DEF IInv, CountsExact, Types
<1>2. /\ nTodo = Len(queue) + Cardinality(Cells(HeldBy, Threads \ {t}))
      /\ nTotal = Cardinality(InLoop \ {t}) + 1
      /\ nIdle - 1 = Cardinality(Asleep \ {t})
  BY <1>1, <1>a, <1>b, SMTT(30)
<1>3. AfterCleanUp(t, nTodo, result, nTotal, nIdle - 1, pc)
  <2>1. pc[t] \in {"loop", "woken"} /\ pc \in [Threads -> States]
    BY <1>0 DEF Types
  <2>2. result \in Nat /\ (result # 0 => result = round /\ BlockFails)
    BY DEF IInv, Types, OfThisBlock
  <2>3. BlockFails /\ pc[Master] # "returned" =>
          \/ result # 0
          \/ \E i \in DOMAIN queue : queue[i] # 0
          \/ \E u \in Threads \ {t} : Holds(u) /\ \E i \in DOMAIN vChecks[u] : vChecks[u][i] # 0
    BY <1>0, Zenon DEF IInv, ErrorNotLost, Holds
  <2>4. /\ round > Rounds \/ pc[Master] = "returned" => nTodo = 0
        /\ pc[Master] = "returned" => result = 0
    BY DEF IInv, Phases, Returned
  <2> QED BY <1>2, <2>1, <2>2, <2>3, <2>4, Zenon DEF AfterCleanUp
<1>4. Rest(t, nTodo)
  BY <1>0 DEF Woken, Rest, Types
<1>5. Decide(t, nTodo, result, nTotal, nIdle - 1, pc)
  BY DEF Woken
<1> QED BY <1>3, <1>4, <1>5, DecideKeeps, Zenon

LEMMA NextIterationKeeps ==
  ASSUME IInv, NEW t \in Threads, NextIteration(t)
  PROVE  IInv'
<1> DEFINE todo == nTodo - Len(vChecks[t])
           res == ResultAfter(t)
           p == MasterTold(t, todo)
<1>0. Types /\ pc[t] = "loop" /\ vChecks[t] # <<>>
  BY Zenon DEF IInv, NextIteration
<1>1. Held(t) = Len(vChecks[t]) /\ t \notin Asleep /\ t \in InLoop
  BY <1>0 DEF Held, Asleep, InLoop
<1>2. Len(vChecks[t]) \in Nat \ {0} /\ Len(queue) \in Nat /\ local[t] \in Nat /\ vChecks[t] \in Seq(Nat)
  BY <1>0 DEF Types
<1>a. /\ Cardinality(HeldChecks) = Cardinality(Cells(HeldBy, Threads \ {t})) + Held(t)
      /\ Cardinality(Cells(HeldBy, Threads \ {t})) \in Nat /\ Held(t) \in Nat
      /\ Cardinality(Asleep \ {t}) \in Nat /\ Cardinality(InLoop \ {t}) \in Nat
      /\ Cardinality(Asleep) = Cardinality(Asleep \ {t}) + (IF t \in Asleep THEN 1 ELSE 0)
      /\ Cardinality(InLoop) = Cardinality(InLoop \ {t}) + (IF t \in InLoop THEN 1 ELSE 0)
  BY NatCounts, Zenon
<1>b. /\ nTodo = Len(queue) + Cardinality(HeldChecks) /\ Len(queue) \in Nat
      /\ nIdle = Cardinality(Asleep) /\ nTotal = Cardinality(InLoop)
  BY DEF IInv, CountsExact, Types
<1>3. nTodo = Len(queue) + Cardinality(Cells(HeldBy, Threads \ {t})) + Len(vChecks[t])
  BY <1>1, <1>2, <1>a, <1>b, SMTT(30)
<1>4. /\ todo = Len(queue) + Cardinality(Cells(HeldBy, Threads \ {t}))
      /\ nTotal = Cardinality(InLoop \ {t}) + 1
      /\ nIdle = Cardinality(Asleep \ {t})
      /\ nTodo # 0
  <2>1. Cardinality(Cells(HeldBy, Threads \ {t})) \in Nat
    BY <1>a, Zenon
  <2>2. todo = Len(queue) + Cardinality(Cells(HeldBy, Threads \ {t})) /\ nTodo # 0
    BY <1>2, <1>3, <2>1
  <2>3. nTotal = Cardinality(InLoop \ {t}) + 1
    BY <1>1, <1>a, <1>b, Zenon
  <2>4. nIdle = Cardinality(Asleep \ {t})
    <3>1. nIdle = Cardinality(Asleep \ {t}) + 0 /\ Cardinality(Asleep \ {t}) \in Nat
      BY <1>1, <1>a, <1>b, Zenon
    <3> QED BY <3>1
  <2> QED BY <2>2, <2>3, <2>4
<1>5. ~(round > Rounds) /\ pc[Master] # "returned"
  BY <1>4, Zenon DEF IInv, Phases, Returned
<1>6. /\ p \in [Threads -> States] /\ p[t] = pc[t]
      /\ \A u \in Threads : p[u] = pc[u] \/ (pc[u] = "wait" /\ p[u] = "woken")
  BY <1>0, ThreadsFinite, Zenon DEF MasterTold, Types, States
<1>7. /\ Holds(t)
      /\ doWork[t] => local[t] = FirstError(vChecks[t])
      /\ ~doWork[t] => result # 0
      /\ result # 0 => result = round /\ BlockFails
      /\ \A i \in DOMAIN vChecks[t] : vChecks[t][i] # 0 => vChecks[t][i] = round /\ BlockFails
      /\ result \in Nat /\ doWork[t] \in BOOLEAN
  BY <1>0, Zenon DEF IInv, BatchesJudged, OfThisBlock, Holds, Types
<1>8. res \in Nat /\ (result # 0 => res # 0) /\ (res # 0 => res = round /\ BlockFails)
  <2>1. CASE result # 0
    BY <1>7, <2>1, Zenon DEF ResultAfter
  <2>2. CASE result = 0
    <3>1. res = FirstError(vChecks[t])
      BY <1>7, <2>2, Zenon DEF ResultAfter
    <3> QED BY <1>2, <1>7, <2>2, <3>1, FirstErrorIs, Zenon DEF ResultAfter
  <2> QED BY <2>1, <2>2
<1>9. (\E i \in DOMAIN vChecks[t] : vChecks[t][i] # 0) => res # 0
  <2>1. CASE result # 0
    BY <2>1 DEF ResultAfter
  <2>2. CASE result = 0
    <3>1. res = FirstError(vChecks[t])
      BY <1>7, <2>2 DEF ResultAfter
    <3> QED BY <1>2, <3>1, FirstErrorIs, Zenon
  <2> QED BY <2>1, <2>2, Zenon
<1>10. AfterCleanUp(t, todo, res, nTotal, nIdle, p)
  <2>1. BlockFails =>
          \/ res # 0
          \/ \E i \in DOMAIN queue : queue[i] # 0
          \/ \E u \in Threads \ {t} : Holds(u) /\ \E i \in DOMAIN vChecks[u] : vChecks[u][i] # 0
    BY <1>5, <1>8, <1>9, Zenon DEF IInv, ErrorNotLost
  <2> HIDE DEF todo, res, p
  <2> QED BY <1>0, <1>4, <1>5, <1>6, <1>8, <2>1, Zenon DEF AfterCleanUp
<1>11. Rest(t, todo)
  BY <1>0, Zenon DEF NextIteration, Rest, Types
<1>12. Decide(t, todo, res, nTotal, nIdle, p)
  BY Zenon DEF NextIteration
<1> QED
  <2> HIDE DEF todo, res, p
  <2> QED BY <1>10, <1>11, <1>12, DecideKeeps, Zenon

-----------------------------------------------------------------------------
(* The other steps *)

\* Outside of Loop
Outside == {"add", "notify_one", "notify_all", "returned", "stop", "join", "exited"}

\* Threads are woken up, and the master moves outside of Loop; nothing else.
OnlyMoves ==
  /\ pc' \in [Threads -> States]
  /\ \A u \in Threads : \/ pc'[u] = pc[u]
                        \/ pc[u] = "wait" /\ pc'[u] = "woken"
                        \/ u = Master /\ pc[u] \in Outside /\ pc'[u] \in Outside
  /\ UNCHANGED <<queue, nTodo, nIdle, nTotal, result, vChecks, local, doWork, ret>>

LEMMA CountsKept ==
  ASSUME CountsExact, \A u \in Threads : Held(u)' = Held(u), Asleep' = Asleep, InLoop' = InLoop,
         UNCHANGED <<queue, nTodo, nIdle, nTotal>>
  PROVE  CountsExact'
<1>1. HeldChecks' = HeldChecks
  BY DEF HeldChecks
<1> QED BY <1>1 DEF CountsExact

LEMMA MovesKeep ==
  ASSUME IInv, OnlyMoves
  PROVE  /\ CountsExact'
         /\ \A u \in Threads : (Holds(u)' <=> Holds(u)) /\ (Holds(u) => pc'[u] = pc[u])
         /\ \A w \in Workers : pc'[w] \in {"loop", "wait", "woken", "work", "exited"}
         /\ \A u \in Threads : pc'[u] = "work" => vChecks'[u] # <<>>
<1>1. \A u \in Threads : (Holds(u)' <=> Holds(u)) /\ (Holds(u) => pc'[u] = pc[u])
  BY DEF OnlyMoves, Holds, Outside
<1>2. \A u \in Threads : Held(u)' = Held(u)
  BY <1>1 DEF OnlyMoves, Held, Holds
<1>3. Asleep' = Asleep
  BY DEF OnlyMoves, Asleep, Outside
<1>4. InLoop' = InLoop
  <2>1. ASSUME NEW u \in Threads PROVE u \in InLoop' <=> u \in InLoop
    BY <2>1, Zenon DEF OnlyMoves, InLoop, Outside
  <2> QED BY <2>1 DEF InLoop
<1>5. CountsExact'
  BY <1>2, <1>3, <1>4, CountsKept DEF IInv, OnlyMoves
<1>6. \A w \in Workers : pc'[w] \in {"loop", "wait", "woken", "work", "exited"}
  <2>1. Workers \subseteq Threads /\ Master \notin Workers
    BY PoolAssumption DEF Threads
  <2> QED BY <2>1, Zenon DEF OnlyMoves, IInv, Phases
<1>7. \A u \in Threads : pc'[u] = "work" => vChecks'[u] # <<>>
  BY Zenon DEF OnlyMoves, IInv, Phases, Outside
<1> QED BY <1>1, <1>5, <1>6, <1>7, Zenon

\* A move that keeps the block
LEMMA SameBlockKeeps ==
  ASSUME IInv, OnlyMoves, UNCHANGED <<round, added>>, stop' \in BOOLEAN,
         stop' => round > Rounds,
         pc'[Master] = "returned" <=> pc[Master] = "returned"
  PROVE  IInv'
<1>0. Master \in Threads
  BY ThreadsFinite
<1>1. /\ CountsExact'
      /\ \A u \in Threads : (Holds(u)' <=> Holds(u)) /\ (Holds(u) => pc'[u] = pc[u])
      /\ \A w \in Workers : pc'[w] \in {"loop", "wait", "woken", "work", "exited"}
      /\ \A u \in Threads : pc'[u] = "work" => vChecks'[u] # <<>>
  BY MovesKeep, Zenon
<1>2. UNCHANGED <<queue, nTodo, nIdle, nTotal, result, vChecks, local, doWork, ret>>
  BY DEF OnlyMoves
<1>3. BlockFails' <=> BlockFails
  BY DEF BlockFails
<1>4. Types'
  BY <1>2, Zenon DEF IInv, Types, OnlyMoves
<1>5. Phases'
  <2>1. round > Rounds => pc'[Master] \notin {"loop", "wait", "woken", "work", "returned"}
    BY <1>0, Zenon DEF IInv, Phases, OnlyMoves, Outside
  <2> QED BY <1>1, <1>2, <2>1, Zenon DEF IInv, Phases
<1>6. OfThisBlock'
  BY <1>1, <1>2, <1>3, Zenon DEF IInv, OfThisBlock
<1>7. BatchesJudged'
  BY <1>1, <1>2, Zenon DEF IInv, BatchesJudged, FirstError
<1>8. ErrorNotLost'
  BY <1>1, <1>2, <1>3, Zenon DEF IInv, ErrorNotLost
<1>9. Returned'
  BY <1>2, <1>3, Zenon DEF IInv, Returned
<1> QED BY <1>1, <1>4, <1>5, <1>6, <1>7, <1>8, <1>9, Zenon DEF IInv

LEMMA NotifyAllMoves ==
  ASSUME IInv, pc[Master] \in Outside, NEW s \in Outside, NotifyAll([pc EXCEPT ![Master] = s]),
         UNCHANGED <<shared, locals, history>>
  PROVE  OnlyMoves /\ pc'[Master] = s
<1>0. pc \in [Threads -> States] /\ Master \in Threads /\ s \in States
  BY ThreadsFinite, Zenon DEF IInv, Types, Outside, States
<1>1. Master \notin WaitingWorkers
  BY PoolAssumption DEF WaitingWorkers
<1>2. pc' = [t \in Threads |-> IF t \in WaitingWorkers THEN "woken" ELSE [pc EXCEPT ![Master] = s][t]]
  BY DEF NotifyAll
<1>3. pc' \in [Threads -> States]
  BY <1>0, <1>2 DEF States
<1>4. \A u \in Threads : pc'[u] = IF u \in WaitingWorkers THEN "woken" ELSE IF u = Master THEN s ELSE pc[u]
  BY <1>0, <1>2
<1>5. \A u \in Threads : \/ pc'[u] = pc[u]
                         \/ pc[u] = "wait" /\ pc'[u] = "woken"
                         \/ u = Master /\ pc[u] \in Outside /\ pc'[u] \in Outside
  BY <1>4, Zenon DEF WaitingWorkers
<1> QED BY <1>0, <1>1, <1>3, <1>4, <1>5, Zenon DEF OnlyMoves, shared, locals, history

LEMMA NotifyOneMoves ==
  ASSUME IInv, pc[Master] \in Outside, NEW s \in Outside, NotifyOne([pc EXCEPT ![Master] = s]),
         UNCHANGED <<shared, locals, history>>
  PROVE  OnlyMoves /\ pc'[Master] = s
<1>0. pc \in [Threads -> States] /\ Master \in Threads /\ s \in States
  BY ThreadsFinite DEF IInv, Types, Outside, States
<1> DEFINE p == [pc EXCEPT ![Master] = s]
<1>1. p \in [Threads -> States] /\ \A u \in Threads : p[u] = IF u = Master THEN s ELSE pc[u]
  BY <1>0
<1>2. \/ pc' = p
      \/ \E w \in WaitingWorkers : pc' = [p EXCEPT ![w] = "woken"]
  BY DEF NotifyOne
<1> HIDE DEF p
<1>3. CASE pc' = p
  BY <1>0, <1>1, <1>3, Zenon DEF OnlyMoves, shared, locals, history
<1>4. CASE \E w \in WaitingWorkers : pc' = [p EXCEPT ![w] = "woken"]
  <2>1. PICK w \in WaitingWorkers : pc' = [p EXCEPT ![w] = "woken"]
    BY <1>4, Zenon
  <2>2. w \in Threads /\ w # Master /\ pc[w] = "wait"
    BY PoolAssumption DEF WaitingWorkers, Threads
  <2>3. pc' \in [Threads -> States]
    BY <1>1, <2>1, <2>2 DEF States
  <2>4. \A u \in Threads : pc'[u] = IF u = w THEN "woken" ELSE IF u = Master THEN s ELSE pc[u]
    BY <1>1, <2>1, <2>2
  <2>5. \A u \in Threads : \/ pc'[u] = pc[u]
                           \/ pc[u] = "wait" /\ pc'[u] = "woken"
                           \/ u = Master /\ pc[u] \in Outside /\ pc'[u] \in Outside
    BY <2>2, <2>4, SMTT(30)
  <2> QED BY <1>0, <2>2, <2>3, <2>4, <2>5, Zenon DEF OnlyMoves, shared, locals, history
<1> QED BY <1>2, <1>3, <1>4

LEMMA AddNotifiesKeeps ==
  ASSUME IInv, AddNotifies PROVE IInv'
<1>1. OnlyMoves /\ pc'[Master] = "add"
  <2>1. "add" \in Outside /\ pc[Master] \in Outside /\ UNCHANGED <<shared, locals, history>>
    BY DEF AddNotifies, Outside
  <2>2. CASE pc[Master] = "notify_one"
    BY <2>1, <2>2, NotifyOneMoves, Zenon DEF AddNotifies
  <2>3. CASE pc[Master] # "notify_one"
    BY <2>1, <2>3, NotifyAllMoves, Zenon DEF AddNotifies
  <2> QED BY <2>2, <2>3
<1>2. pc[Master] # "returned" /\ UNCHANGED <<round, added, stop>>
  BY DEF AddNotifies, shared, history
<1> QED BY <1>1, <1>2, SameBlockKeeps, Zenon DEF IInv, Types, Phases

LEMMA StopNotifiesKeeps ==
  ASSUME IInv, StopNotifies PROVE IInv'
<1>1. OnlyMoves /\ pc'[Master] = "join"
  <2>1. "join" \in Outside /\ pc[Master] \in Outside /\ UNCHANGED <<shared, locals, history>>
    BY DEF StopNotifies, Outside
  <2> QED BY <2>1, NotifyAllMoves DEF StopNotifies
<1>2. pc[Master] # "returned" /\ UNCHANGED <<round, added, stop>>
  BY DEF StopNotifies, shared, history
<1> QED BY <1>1, <1>2, SameBlockKeeps, Zenon DEF IInv, Types, Phases

LEMMA SmallMovesKeep ==
  ASSUME IInv, RequestStop \/ Joined \/ \E t \in Threads : SpuriousWakeup(t) PROVE IInv'
<1>0. pc \in [Threads -> States] /\ Master \in Threads
  BY ThreadsFinite DEF IInv, Types
<1>1. CASE RequestStop
  <2>1. OnlyMoves /\ pc'[Master] = "stop" /\ pc[Master] # "returned"
    BY <1>0, <1>1, Zenon DEF RequestStop, OnlyMoves, locals, history, Outside, States
  <2> QED BY <1>1, <2>1, SameBlockKeeps, Zenon DEF RequestStop, history
<1>2. CASE Joined
  <2>1. OnlyMoves /\ pc'[Master] = "exited" /\ pc[Master] # "returned"
    BY <1>0, <1>2, Zenon DEF Joined, OnlyMoves, shared, locals, history, Outside, States
  <2>2. UNCHANGED <<round, added, stop>>
    BY <1>2 DEF Joined, shared, history
  <2> QED BY <2>1, <2>2, SameBlockKeeps, Zenon DEF IInv, Types, Phases
<1>3. ASSUME NEW t \in Threads, SpuriousWakeup(t) PROVE IInv'
  <2>1. OnlyMoves /\ (pc'[Master] = "returned" <=> pc[Master] = "returned")
    BY <1>0, <1>3, Zenon DEF SpuriousWakeup, OnlyMoves, shared, locals, history, Outside, States
  <2>2. UNCHANGED <<round, added, stop>>
    BY <1>3 DEF SpuriousWakeup, shared, history
  <2> QED BY <2>1, <2>2, SameBlockKeeps, Zenon DEF IInv, Types, Phases
<1> QED BY <1>1, <1>2, <1>3

\* With nothing to do the queue is empty and no thread has a batch.
LEMMA PoolEmpty ==
  ASSUME IInv, nTodo = 0
  PROVE  queue = <<>> /\ \A u \in Threads : Holds(u) => vChecks[u] = <<>>
<1>1. HeldBy \in [Threads -> Nat] /\ HeldChecks = Cells(HeldBy, Threads) /\ IsFiniteSet(Threads)
  BY HeldFacts, ThreadsFinite DEF IInv
<1>2. \A u \in Threads : HeldBy[u] \in Nat
  BY <1>1
<1>3. Cardinality(HeldChecks) \in Nat
  <2>1. IsFiniteSet(HeldChecks)
    BY <1>1, <1>2, CellsFinite, Zenon
  <2> QED BY <2>1, FS_CardinalityType
<1>4. Len(queue) = 0 /\ Cardinality(HeldChecks) = 0
  BY <1>3, SMTT(30) DEF IInv, Types, CountsExact
<1>5. queue = <<>>
  BY <1>4 DEF IInv, Types
<1>6. \A u \in Threads : HeldBy[u] = 0
  BY <1>1, <1>2, <1>4, EmptyCells, Zenon
<1>7. ASSUME NEW u \in Threads, Holds(u) PROVE vChecks[u] = <<>>
  <2>1. Len(vChecks[u]) = 0
    BY <1>6, <1>7 DEF HeldBy, Held, Holds
  <2> QED BY <2>1 DEF IInv, Types
<1> QED BY <1>5, <1>7

LEMMA NextBlockKeeps ==
  ASSUME IInv, NextBlock PROVE IInv'
<1>0. pc \in [Threads -> States] /\ Master \in Threads
  BY ThreadsFinite, Zenon DEF IInv, Types
<1>1. OnlyMoves /\ pc'[Master] = "add"
  BY <1>0, Zenon DEF NextBlock, OnlyMoves, shared, locals, Outside, States
<1>2. /\ CountsExact'
      /\ \A u \in Threads : (Holds(u)' <=> Holds(u)) /\ (Holds(u) => pc'[u] = pc[u])
      /\ \A w \in Workers : pc'[w] \in {"loop", "wait", "woken", "work", "exited"}
      /\ \A u \in Threads : pc'[u] = "work" => vChecks'[u] # <<>>
  BY <1>1, MovesKeep, Zenon
<1>3. UNCHANGED <<queue, nTodo, nIdle, nTotal, result, stop, vChecks, local, doWork, ret>>
  BY DEF NextBlock, shared, locals
<1>4. nTodo = 0 /\ result = 0 /\ ~stop
  BY Zenon DEF IInv, Phases, Returned, NextBlock
<1>5. queue = <<>> /\ \A u \in Threads : Holds(u) => vChecks[u] = <<>>
  BY <1>4, PoolEmpty, Zenon
<1>6. Types'
  BY <1>1, <1>3, SMTT(30) DEF IInv, Types, OnlyMoves, NextBlock
<1>7. Phases'
  BY <1>1, <1>2, <1>3, <1>4, Zenon DEF Phases
<1> DEFINE none == DOMAIN <<>>
<1>e. none = {}
  OBVIOUS
<1>8. OfThisBlock'
  <2>1. DOMAIN queue' = none /\ result' = 0
    BY <1>3, <1>4, <1>5, Zenon
  <2>2. \A u \in Threads : Holds(u)' => DOMAIN (vChecks'[u]) = none
    BY <1>2, <1>3, <1>5, Zenon
  <2> HIDE DEF none
  <2> QED BY <1>e, <2>1, <2>2, Zenon DEF OfThisBlock
<1>9. BatchesJudged'
  BY <1>2, <1>3, <1>5, Zenon DEF BatchesJudged
<1>10. ErrorNotLost'
  <2>1. DOMAIN added' = none
    BY Zenon DEF NextBlock
  <2> HIDE DEF none
  <2> QED BY <1>e, <2>1, Zenon DEF ErrorNotLost, BlockFails
<1>11. Returned'
  BY <1>1 DEF Returned
<1> QED BY <1>2, <1>6, <1>7, <1>8, <1>9, <1>10, <1>11, Zenon DEF IInv

LEMMA CompleteKeeps ==
  ASSUME IInv, Complete PROVE IInv'
<1>0. pc \in [Threads -> States] /\ Master \in Threads /\ vChecks \in [Threads -> Seq(Nat)]
      /\ local \in [Threads -> Nat] /\ pc[Master] = "add" /\ Master \notin Workers
  BY ThreadsFinite, PoolAssumption, Zenon DEF IInv, Types, Complete
<1>1. /\ pc' \in [Threads -> States] /\ pc'[Master] = "loop"
      /\ \A u \in Threads \ {Master} : pc'[u] = pc[u]
  BY <1>0 DEF Complete, States
<1>2. /\ vChecks' \in [Threads -> Seq(Nat)] /\ vChecks'[Master] = <<>>
      /\ \A u \in Threads \ {Master} : vChecks'[u] = vChecks[u]
  BY <1>0 DEF Complete
<1>3. local' \in [Threads -> Nat] /\ \A u \in Threads \ {Master} : local'[u] = local[u]
  BY <1>0 DEF Complete
<1>4. UNCHANGED <<queue, nTodo, nIdle, nTotal, result, stop, doWork, round, added, ret>>
  BY DEF Complete, shared, history
<1>5. \A u \in Threads : Held(u)' = Held(u)
  <2>1. Held(Master)' = 0 /\ Held(Master) = 0
    BY <1>0, <1>1, <1>2, Zenon DEF Held
  <2>2. ASSUME NEW u \in Threads \ {Master} PROVE Held(u)' = Held(u)
    BY <1>1, <1>2, Zenon DEF Held
  <2> QED BY <2>1, <2>2
<1>6. Asleep' = Asleep
  BY <1>0, <1>1 DEF Asleep
<1>7. InLoop' = InLoop
  <2>1. ASSUME NEW u \in Threads PROVE u \in InLoop' <=> u \in InLoop
    BY <1>0, <1>1, <1>2, Zenon DEF InLoop
  <2> QED BY <2>1, Zenon DEF InLoop
<1>8. CountsExact'
  BY <1>4, <1>5, <1>6, <1>7, CountsKept DEF IInv
<1>9. Types'
  BY <1>1, <1>2, <1>3, <1>4, Zenon DEF IInv, Types
<1>10. BlockFails' <=> BlockFails
  BY <1>4 DEF BlockFails
<1>11. Phases'
  <2>1. round <= Rounds /\ Workers \subseteq Threads /\ round \in Nat /\ Rounds \in Nat
    BY PoolAssumption, SMTT(30) DEF Complete, IInv, Types, Threads, Rounds
  <2>2. ~(round' > Rounds)
    BY <1>4, <2>1
  <2>3. \A w \in Workers : pc'[w] \in {"loop", "wait", "woken", "work", "exited"}
    BY <1>0, <1>1, <2>1, Zenon DEF IInv, Phases
  <2>4. \A u \in Threads : pc'[u] = "work" => vChecks'[u] # <<>>
    BY <1>1, <1>2, Zenon DEF IInv, Phases
  <2> QED BY <1>4, <2>2, <2>3, <2>4, Zenon DEF IInv, Phases
<1>12. \A u \in Threads : u = Master \/ /\ Holds(u)' <=> Holds(u)
                                        /\ pc'[u] = pc[u] /\ vChecks'[u] = vChecks[u]
                                        /\ local'[u] = local[u] /\ doWork'[u] = doWork[u]
  BY <1>1, <1>2, <1>3, <1>4, Zenon DEF Holds
<1>13. OfThisBlock'
  <2>1. ASSUME NEW u \in Threads, Holds(u)', NEW i \in DOMAIN vChecks'[u], vChecks'[u][i] # 0
        PROVE  vChecks'[u][i] = round' /\ BlockFails'
    <3>1. Holds(u) /\ vChecks'[u] = vChecks[u]
      BY <1>2, <1>12, <2>1, SMTT(30)
    <3>2. vChecks[u][i] = round /\ BlockFails
      BY <2>1, <3>1, Zenon DEF IInv, OfThisBlock
    <3> QED BY <1>4, <1>10, <3>1, <3>2, Zenon
  <2>2. /\ \A i \in DOMAIN queue' : queue'[i] # 0 => queue'[i] = round' /\ BlockFails'
        /\ result' # 0 => result' = round' /\ BlockFails'
    BY <1>4, <1>10, Zenon DEF IInv, OfThisBlock
  <2> QED BY <2>1, <2>2, Zenon DEF OfThisBlock
<1>14. BatchesJudged'
  <2> SUFFICES ASSUME NEW u \in Threads, Holds(u)', vChecks'[u] # <<>>
               PROVE  IF doWork'[u] THEN pc'[u] = "loop" => local'[u] = FirstError(vChecks'[u])
                      ELSE result' # 0
    BY Zenon DEF BatchesJudged, FirstError
  <2>1. /\ Holds(u) /\ pc'[u] = pc[u] /\ vChecks'[u] = vChecks[u]
        /\ local'[u] = local[u] /\ doWork'[u] = doWork[u]
    BY <1>2, <1>12, Zenon
  <2>2. IF doWork[u] THEN pc[u] = "loop" => local[u] = FirstError(vChecks[u]) ELSE result # 0
    BY <2>1, Zenon DEF IInv, BatchesJudged
  <2> QED BY <1>4, <2>1, <2>2, Zenon
<1>15. ErrorNotLost'
  <2>1. ~Holds(Master)
    BY <1>0 DEF Holds
  <2>2. BlockFails =>
          \/ result # 0
          \/ \E i \in DOMAIN queue : queue[i] # 0
          \/ \E u \in Threads : Holds(u) /\ \E i \in DOMAIN vChecks[u] : vChecks[u][i] # 0
    BY <1>0 DEF IInv, ErrorNotLost
  <2>3. ASSUME NEW u \in Threads, Holds(u) PROVE Holds(u)' /\ vChecks'[u] = vChecks[u]
    BY <1>12, <2>1, <2>3, Zenon
  <2> QED BY <1>4, <1>10, <2>2, <2>3, Zenon DEF ErrorNotLost
<1>16. Returned'
  BY <1>1, Zenon DEF Returned
<1> QED BY <1>8, <1>9, <1>11, <1>13, <1>14, <1>15, <1>16 DEF IInv

LEMMA WorkKeeps ==
  ASSUME IInv, NEW t \in Threads, Work(t) PROVE IInv'
<1>0. pc \in [Threads -> States] /\ local \in [Threads -> Nat] /\ vChecks[t] \in Seq(Nat)
      /\ pc[t] = "work" /\ vChecks[t] # <<>>
  BY Zenon DEF IInv, Types, Phases, Work
<1>1. pc' \in [Threads -> States] /\ pc'[t] = "loop" /\ \A u \in Threads \ {t} : pc'[u] = pc[u]
  BY <1>0, Zenon DEF Work, States
<1>2. /\ local' \in [Threads -> Nat] /\ (doWork[t] => local'[t] = FirstError(vChecks[t]))
      /\ \A u \in Threads \ {t} : local'[u] = local[u]
  <2>1. FirstError(vChecks[t]) \in Nat
    BY <1>0, FirstErrorIs, SMTT(30)
  <2> QED BY <1>0, <2>1, Zenon DEF Work
<1>3. UNCHANGED <<queue, nTodo, nIdle, nTotal, result, stop, vChecks, doWork, round, added, ret>>
  BY Zenon DEF Work, shared, history
<1>4. \A u \in Threads : Held(u)' = Held(u)
  BY <1>0, <1>1, <1>3, Zenon DEF Held
<1>5. Asleep' = Asleep
  BY <1>0, <1>1, Zenon DEF Asleep
<1>6. InLoop' = InLoop
  <2>1. ASSUME NEW u \in Threads PROVE u \in InLoop' <=> u \in InLoop
    BY <1>0, <1>1, <1>3, Zenon DEF InLoop
  <2> QED BY <2>1, Zenon DEF InLoop
<1>7. CountsExact'
  BY <1>3, <1>4, <1>5, <1>6, CountsKept, Zenon DEF IInv
<1>8. Types'
  BY <1>1, <1>2, <1>3, Zenon DEF IInv, Types
<1>9. BlockFails' <=> BlockFails
  BY <1>3 DEF BlockFails
<1>10. Phases'
  <2>1. Workers \subseteq Threads /\ Master \in Threads
    BY DEF Threads
  <2> QED BY <1>0, <1>1, <1>3, <2>1, Zenon DEF IInv, Phases
<1>11. \A u \in Threads : Holds(u)' <=> Holds(u)
  BY <1>0, <1>1, Zenon DEF Holds
<1>12. OfThisBlock'
  BY <1>3, <1>9, <1>11, Zenon DEF IInv, OfThisBlock
<1>13. BatchesJudged'
  <2> SUFFICES ASSUME NEW u \in Threads, Holds(u), vChecks[u] # <<>>
               PROVE  IF doWork[u] THEN pc'[u] = "loop" => local'[u] = FirstError(vChecks[u])
                      ELSE result # 0
    BY <1>3, <1>11, Zenon DEF BatchesJudged, FirstError
  <2>1. IF doWork[u] THEN pc[u] = "loop" => local[u] = FirstError(vChecks[u]) ELSE result # 0
    BY Zenon DEF IInv, BatchesJudged
  <2> QED BY <1>1, <1>2, <2>1, Zenon
<1>14. ErrorNotLost'
  <2>1. pc'[Master] = "returned" <=> pc[Master] = "returned"
    BY <1>0, <1>1, ThreadsFinite, Zenon
  <2> QED BY <1>3, <1>9, <1>11, <2>1, Zenon DEF IInv, ErrorNotLost
<1>15. Returned'
  <2>1. pc'[Master] = "returned" <=> pc[Master] = "returned"
    BY <1>0, <1>1, ThreadsFinite
  <2> QED BY <1>3, <1>9, <2>1, Zenon DEF IInv, Returned
<1> QED BY <1>7, <1>8, <1>10, <1>12, <1>13, <1>14, <1>15 DEF IInv

LEMMA AddKeeps ==
  ASSUME IInv, NEW checks \in Checks, Add(checks) PROVE IInv'
<1>0. pc \in [Threads -> States] /\ Master \in Threads /\ round \in Nat \ {0}
      /\ queue \in Seq(Nat) /\ added \in Seq(Nat) /\ pc[Master] = "add" /\ Master \notin Workers
  BY ThreadsFinite, PoolAssumption, Zenon DEF IInv, Types, Add
<1>1. /\ checks \in Seq(Nat) /\ Len(checks) \in Nat
      /\ \A i \in DOMAIN checks : checks[i] # 0 => checks[i] = round
  <2>1. PICK n \in AddSizes : checks \in [1 .. n -> {0, round}]
    BY DEF Checks
  <2>2. n \in Nat
    BY PoolAssumption
  <2> QED BY <1>0, <2>1, <2>2
<1>2. /\ queue' = queue \o checks /\ added' = added \o checks /\ nTodo' = nTodo + Len(checks)
      /\ UNCHANGED <<nIdle, nTotal, result, stop, vChecks, local, doWork, round, ret>>
  BY Zenon DEF Add, locals
<1>3. /\ queue' \in Seq(Nat) /\ Len(queue') = Len(queue) + Len(checks)
      /\ DOMAIN queue' = 1 .. Len(queue) + Len(checks)
      /\ \A i \in DOMAIN queue' : queue'[i] = IF i <= Len(queue) THEN queue[i] ELSE checks[i - Len(queue)]
  BY <1>0, <1>1, <1>2, SMTT(30)
<1>4. /\ added' \in Seq(Nat) /\ DOMAIN added' = 1 .. Len(added) + Len(checks)
      /\ \A i \in DOMAIN added' : added'[i] = IF i <= Len(added) THEN added[i] ELSE checks[i - Len(added)]
  BY <1>0, <1>1, <1>2, SMTT(30)
<1>5. /\ pc' \in [Threads -> States] /\ pc'[Master] \in {"notify_one", "notify_all"}
      /\ \A u \in Threads \ {Master} : pc'[u] = pc[u]
  BY <1>0, Zenon DEF Add, States
<1>6. \A u \in Threads : /\ Held(u)' = Held(u) /\ (Holds(u)' <=> Holds(u))
                         /\ Holds(u) => pc'[u] = pc[u]
  BY <1>0, <1>2, <1>5, Zenon DEF Held, Holds
<1>7. CountsExact'
  <2>1. Asleep' = Asleep
    BY <1>0, <1>5, Zenon DEF Asleep
  <2>2. InLoop' = InLoop
    <3>1. ASSUME NEW u \in Threads PROVE u \in InLoop' <=> u \in InLoop
      BY <1>0, <1>2, <1>5, Zenon DEF InLoop
    <3> QED BY <3>1, Zenon DEF InLoop
  <2>3. HeldChecks' = HeldChecks
    BY <1>6, Zenon DEF HeldChecks
  <2>4. Cardinality(HeldChecks) \in Nat
    <3>1. /\ Cardinality(HeldChecks) = Cardinality(Cells(HeldBy, Threads \ {Master})) + Held(Master)
          /\ Cardinality(Cells(HeldBy, Threads \ {Master})) \in Nat /\ Held(Master) \in Nat
      BY <1>0, NatCounts, Zenon
    <3> QED BY <3>1
  <2>5. Len(queue) \in Nat /\ nTodo = Len(queue) + Cardinality(HeldChecks)
    BY <1>0 DEF IInv, CountsExact
  <2>6. nTodo' = Len(queue') + Cardinality(HeldChecks')
    BY <1>1, <1>2, <1>3, <2>3, <2>4, <2>5, SMTT(30)
  <2> QED BY <1>2, <2>1, <2>2, <2>6, Zenon DEF IInv, CountsExact
<1>8. Types'
  BY <1>1, <1>2, <1>3, <1>4, <1>5, SMTT(30) DEF IInv, Types
<1>9. BlockFails => BlockFails'
  <2> SUFFICES ASSUME NEW i \in DOMAIN added, added[i] # 0 PROVE BlockFails'
    BY DEF BlockFails
  <2>1. i \in DOMAIN added' /\ added'[i] = added[i]
    BY <1>0, <1>1, <1>4, SMTT(30)
  <2> QED BY <2>1 DEF BlockFails
<1>10. (\E i \in DOMAIN checks : checks[i] # 0) => BlockFails'
  <2> SUFFICES ASSUME NEW i \in DOMAIN checks, checks[i] # 0 PROVE BlockFails'
    OBVIOUS
  <2> DEFINE j == Len(added) + i
  <2>0. i \in 1 .. Len(checks) /\ Len(added) \in Nat
    BY <1>0, <1>1
  <2>1. j \in 1 .. Len(added) + Len(checks) /\ ~(j <= Len(added)) /\ j - Len(added) = i
    BY <1>1, <2>0, SMTT(30)
  <2> HIDE DEF j
  <2>2. j \in DOMAIN added' /\ added'[j] = checks[i]
    BY <1>4, <2>1, Zenon
  <2> QED BY <2>2 DEF BlockFails
<1>11. BlockFails' => BlockFails \/ \E i \in DOMAIN checks : checks[i] # 0
  <2> SUFFICES ASSUME NEW i \in DOMAIN added', added'[i] # 0
               PROVE  BlockFails \/ \E k \in DOMAIN checks : checks[k] # 0
    BY Zenon DEF BlockFails
  <2>1. CASE i <= Len(added)
    <3>1. i \in DOMAIN added /\ added[i] # 0
      BY <1>0, <1>1, <1>4, <2>1, SMTT(30)
    <3> QED BY <3>1, Zenon DEF BlockFails
  <2>2. CASE ~(i <= Len(added))
    <3>1. i - Len(added) \in DOMAIN checks /\ checks[i - Len(added)] # 0
      BY <1>0, <1>1, <1>4, <2>2, SMTT(30)
    <3> QED BY <3>1
  <2> QED BY <2>1, <2>2
<1>12. Phases'
  <2>1. round <= Rounds /\ Workers \subseteq Threads /\ Rounds \in Nat
    BY PoolAssumption, SMTT(30) DEF Add, Threads, Rounds
  <2>2. ~(round' > Rounds)
    BY <1>0, <1>2, <2>1
  <2>3. \A w \in Workers : pc'[w] \in {"loop", "wait", "woken", "work", "exited"}
    BY <1>0, <1>5, <2>1, Zenon DEF IInv, Phases
  <2>4. \A u \in Threads : pc'[u] = "work" => vChecks'[u] # <<>>
    BY <1>2, <1>5, Zenon DEF IInv, Phases
  <2> QED BY <1>2, <2>2, <2>3, <2>4, Zenon DEF IInv, Phases
<1>13. OfThisBlock'
  <2>1. ASSUME NEW i \in DOMAIN queue', queue'[i] # 0 PROVE queue'[i] = round' /\ BlockFails'
    <3>1. CASE i <= Len(queue)
      <4>1. i \in DOMAIN queue /\ queue'[i] = queue[i]
        BY <1>0, <1>1, <1>3, <3>1, SMTT(30)
      <4> QED BY <1>2, <1>9, <2>1, <4>1, Zenon DEF IInv, OfThisBlock
    <3>2. CASE ~(i <= Len(queue))
      <4>1. i - Len(queue) \in DOMAIN checks /\ queue'[i] = checks[i - Len(queue)]
        BY <1>0, <1>1, <1>3, <3>2, SMTT(30)
      <4> QED BY <1>1, <1>2, <1>10, <2>1, <4>1, Zenon
    <3> QED BY <3>1, <3>2, Zenon
  <2>2. \A u \in Threads : Holds(u)' =>
          \A i \in DOMAIN vChecks'[u] : vChecks'[u][i] # 0 => vChecks'[u][i] = round' /\ BlockFails'
    BY <1>2, <1>6, <1>9, Zenon DEF IInv, OfThisBlock
  <2>3. result' # 0 => result' = round' /\ BlockFails'
    BY <1>2, <1>9, Zenon DEF IInv, OfThisBlock
  <2> QED BY <2>1, <2>2, <2>3, Zenon DEF OfThisBlock
<1>14. BatchesJudged'
  BY <1>2, <1>6, Zenon DEF IInv, BatchesJudged, FirstError
<1>15. ErrorNotLost'
  <2> SUFFICES ASSUME BlockFails'
               PROVE  \/ result' # 0
                      \/ \E i \in DOMAIN queue' : queue'[i] # 0
                      \/ \E u \in Threads : Holds(u)' /\ \E i \in DOMAIN vChecks'[u] : vChecks'[u][i] # 0
    BY Zenon DEF ErrorNotLost
  <2>1. CASE \E i \in DOMAIN checks : checks[i] # 0
    <3>1. PICK i \in DOMAIN checks : checks[i] # 0
      BY <2>1
    <3> DEFINE j == Len(queue) + i
    <3>2. i \in 1 .. Len(checks) /\ Len(queue) \in Nat
      BY <1>0, <1>1, SMTT(30)
    <3>3. j \in 1 .. Len(queue) + Len(checks) /\ ~(j <= Len(queue)) /\ j - Len(queue) = i
      BY <1>1, <3>2, SMTT(30)
    <3> HIDE DEF j
    <3>4. j \in DOMAIN queue' /\ queue'[j] = checks[i]
      BY <1>3, <3>3, Zenon
    <3> QED BY <3>1, <3>4, Zenon
  <2>2. CASE BlockFails
    <3>1. CASE \E i \in DOMAIN queue : queue[i] # 0
      <4>1. PICK i \in DOMAIN queue : queue[i] # 0
        BY <3>1
      <4>2. i \in DOMAIN queue' /\ queue'[i] = queue[i]
        BY <1>0, <1>1, <1>3, SMTT(30)
      <4> QED BY <4>1, <4>2, Zenon
    <3>2. CASE result # 0
      BY <1>2, <3>2, Zenon
    <3>3. CASE \E u \in Threads : Holds(u) /\ \E i \in DOMAIN vChecks[u] : vChecks[u][i] # 0
      BY <1>2, <1>6, <3>3, Zenon
    <3> QED BY <1>0, <2>2, <3>1, <3>2, <3>3, Zenon DEF IInv, ErrorNotLost
  <2> QED BY <1>11, <2>1, <2>2, Zenon
<1>16. Returned'
  BY <1>5, Zenon DEF Returned
<1> QED BY <1>7, <1>8, <1>12, <1>13, <1>14, <1>15, <1>16 DEF IInv

-----------------------------------------------------------------------------
(* The theorems *)

LEMMA InitIInv == Init => IInv
<1> SUFFICES ASSUME Init PROVE IInv
  OBVIOUS
<1>1. /\ queue = <<>> /\ nTodo = 0 /\ nIdle = 0 /\ nTotal = 0 /\ result = 0 /\ stop = FALSE
      /\ \A t \in Threads : vChecks[t] = <<>>
      /\ round = 1 /\ added = <<>> /\ ret = 0
      /\ \A w \in Workers : pc[w] = "loop"
      /\ pc[Master] = "add" /\ Master \in Threads
  BY PoolAssumption, ThreadsFinite, Zenon DEF Init, Threads
<1>2. Types
  <2>1. pc \in [Threads -> States]
    BY DEF Init, States
  <2>2. <<>> \in Seq(Nat)
    OBVIOUS
  <2>3. vChecks \in [Threads -> Seq(Nat)] /\ local \in [Threads -> Nat] /\ doWork \in [Threads -> BOOLEAN]
    BY <2>2, Zenon DEF Init
  <2>4. queue \in Seq(Nat) /\ added \in Seq(Nat)
    BY <1>1, <2>2, Zenon
  <2>5. nTodo \in Nat /\ nIdle \in Nat /\ nTotal \in Nat /\ result \in Nat /\ ret \in Nat
        /\ round \in Nat \ {0}
    BY <1>1, SMTT(30)
  <2>6. stop \in BOOLEAN
    BY <1>1, Zenon
  <2> QED BY <2>1, <2>3, <2>4, <2>5, <2>6, Zenon DEF Types
<1>3. Phases
  BY <1>1, Zenon DEF Phases, Threads
<1>4. CountsExact
  <2>1. \A t \in Threads : Held(t) = 0
    BY <1>1, SMTT(30) DEF Held
  <2>2. HeldChecks = {}
    BY <2>1 DEF HeldChecks
  <2>3. Asleep = {} /\ InLoop = {}
    BY <1>1, Zenon DEF Asleep, InLoop, Threads
  <2> QED BY <1>1, <2>2, <2>3, FS_EmptySet, SMTT(30) DEF CountsExact
<1>5. OfThisBlock /\ BatchesJudged /\ ErrorNotLost /\ Returned
  BY <1>1, SMTT(30) DEF OfThisBlock, BatchesJudged, ErrorNotLost, Returned, BlockFails
<1> QED BY <1>2, <1>3, <1>4, <1>5 DEF IInv

LEMMA NextIInv == IInv /\ [Next]_vars => IInv'
<1> SUFFICES ASSUME IInv, [Next]_vars PROVE IInv'
  OBVIOUS
<1>1. ASSUME NEW checks \in Checks, Add(checks) PROVE IInv'
  BY <1>1, AddKeeps
<1>2. CASE AddNotifies
  BY <1>2, AddNotifiesKeeps
<1>3. CASE Complete
  BY <1>3, CompleteKeeps
<1>4. CASE NextBlock
  BY <1>4, NextBlockKeeps
<1>5. CASE StopNotifies
  BY <1>5, StopNotifiesKeeps
<1>6. CASE RequestStop \/ Joined
  BY <1>6, SmallMovesKeep
<1>7. ASSUME NEW t \in Threads, LoopStep(t) \/ SpuriousWakeup(t) PROVE IInv'
  BY <1>7, FirstIterationKeeps, NextIterationKeeps, WokenKeeps, WorkKeeps, SmallMovesKeep
  DEF LoopStep
<1>8. CASE UNCHANGED vars
  BY <1>8, ZenonT(40) DEF vars, shared, locals, history, IInv, Types, Phases, CountsExact, HeldChecks, Held,
     Asleep, InLoop, OfThisBlock, BatchesJudged, FirstError, ErrorNotLost, Returned, BlockFails, Holds
<1> QED BY <1>1, <1>2, <1>3, <1>4, <1>5, <1>6, <1>7, <1>8 DEF Next, MasterStep

LEMMA InvariantHolds == Spec => []IInv
BY InitIInv, NextIInv, PTL DEF Spec

\* nTodo, nIdle and nTotal, which Add, Loop and the waits update in many places, always count
\* what they stand for: with any number of workers none of the unsigned counters wraps around.
THEOREM CountsAlwaysExact == Spec => []CountsExact
<1>1. IInv => CountsExact
  BY DEF IInv
<1> QED BY <1>1, InvariantHolds, PTL

\* Complete reports an error exactly if one of this block's checks fails, whatever the workers
\* did before: any number of them, of blocks and of checks, and every interleaving.
THEOREM ResultIsOfThisBlock == Spec => []ResultOfThisBlock
<1>1. IInv => ResultOfThisBlock
  BY DEF IInv, Returned, ResultOfThisBlock, BlockFails
<1> QED BY <1>1, InvariantHolds, PTL

\* When Complete returns, no worker is still at work on the block's checks, nothing is queued
\* and the shared result is clear for the next block.
THEOREM NothingIsLeftBehind == Spec => []NothingLeftBehind
<1>1. IInv => NothingLeftBehind
  <2> SUFFICES ASSUME IInv, pc[Master] = "returned"
               PROVE  queue = <<>> /\ nTodo = 0 /\ result = 0 /\ \A w \in Workers : pc[w] # "work"
    BY DEF NothingLeftBehind
  <2>1. nTodo = 0 /\ result = 0
    BY DEF IInv, Returned
  <2>2. queue = <<>> /\ \A u \in Threads : Holds(u) => vChecks[u] = <<>>
    BY <2>1, PoolEmpty
  <2>3. \A w \in Workers : pc[w] # "work"
    BY <2>2, Zenon DEF IInv, Phases, Holds, Threads
  <2> QED BY <2>1, <2>2, <2>3
<1> QED BY <1>1, InvariantHolds, PTL
=============================================================================
