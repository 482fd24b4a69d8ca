--------------------------- MODULE CoinsFlushProofs ---------------------------
(***************************************************************************)
(* Theorems about CoinsFlush, for every tree of blocks, all transactions   *)
(* that the consensus rules allow and any bounds: what a flush leaves on   *)
(* disk, and what ReplayBlocks makes of it after a crash, is exact.        *)
(*                                                                         *)
(* A block gives the coins it touches their value after it, whatever they  *)
(* were (RollforwardResult), and undone their value before it              *)
(* (DisconnectResult).  So a replay brings a database in which each coin   *)
(* has the old tip's or the new tip's value to the new tip (ReplayResult). *)
(* The invariant says that every database that a restart may find is such  *)
(* a mix, or exact; that CoinsTip stands at the end of the transition the  *)
(* database names; and, without pruning, that the index on disk has each   *)
(* block such a database needs.                                            *)
(***************************************************************************)
EXTENDS CoinsFlush, WellFoundedInduction, TLAPS

-----------------------------------------------------------------------------
(* Recursion: along the parents of a block, and over a loop's passes *)

\* A set of numbers has a least one.
LEMMA LeastNat ==
  ASSUME NEW S \in SUBSET Nat, S # {}
  PROVE  \E n \in S : \A m \in S : n <= m
<1> DEFINE R == {ss \in Nat \X Nat : ss[1] < ss[2]}
<1>1. IsWellFoundedOn(R, Nat)
  BY NatLessThanWellFounded, Zenon DEF OpToRel
<1>2. PICK n \in S : \A m \in S : ~(<<m, n>> \in R)
  <2> HIDE DEF R
  <2> QED BY <1>1, WFMin, Zenon
<1>3. ASSUME NEW m \in S PROVE n <= m
  <2>1. m \in Nat /\ n \in Nat
    BY Zenon
  <2>2. ~(m < n)
    BY <1>2, <2>1, Zenon
  <2> QED BY <2>1, <2>2
<1> QED BY <1>3, Zenon

\* What TreeAssumption says of the blocks
LEMMA ParentIsBlock == Genesis \in Blocks /\ NoBlock \notin Blocks /\ \A b \in Blocks \ {Genesis} : Parent[b] \in Blocks
BY TreeAssumption, Zenon

\* A set that has the parents of its members
Closed(S) == \A y \in S \ {Genesis} : Parent[y] \in S

\* The least set of blocks that has b and the parents of its members
Below(b) == {x \in Blocks : \A S \in SUBSET Blocks : b \in S /\ Closed(S) => x \in S}

\* The set of the blocks below b is that of its parent, and b.
LEMMA BelowUnfolds ==
  ASSUME NEW b \in Blocks
  PROVE  /\ b \in Below(b) /\ Closed(Below(b)) /\ Below(b) \subseteq Blocks
         /\ b = Genesis => Below(b) = {Genesis}
         /\ b # Genesis => Below(b) = {b} \cup Below(Parent[b])
<1>0. b \in Below(b) /\ Below(b) \subseteq Blocks
  BY Zenon DEF Below
<1>1. Closed(Below(b))
  BY ParentIsBlock, Zenon DEF Below, Closed
<1>2. CASE b = Genesis
  <2>1. Closed({Genesis}) /\ {Genesis} \in SUBSET Blocks
    BY ParentIsBlock, Zenon DEF Closed
  <2> QED BY <1>0, <1>1, <1>2, <2>1, Zenon DEF Below
<1>3. CASE b # Genesis
  <2>0. Parent[b] \in Blocks
    BY <1>3, ParentIsBlock, Zenon
  <2>1. Below(b) \subseteq {b} \cup Below(Parent[b])
    <3> SUFFICES ASSUME NEW x \in Below(b), x # b, NEW S \in SUBSET Blocks, Parent[b] \in S, Closed(S)
                 PROVE  x \in S
      BY Zenon DEF Below
    <3>1. S \cup {b} \in SUBSET Blocks /\ b \in S \cup {b} /\ Closed(S \cup {b})
      BY Zenon DEF Closed
    <3> QED BY <3>1, Zenon DEF Below
  <2>2. {b} \cup Below(Parent[b]) \subseteq Below(b)
    BY <1>3, <2>0, Zenon DEF Below, Closed
  <2> QED BY <1>0, <1>1, <1>3, <2>1, <2>2, Zenon
<1> QED BY <1>2, <1>3, Zenon

\* f is the recursion with values x0 and F[x] on the blocks below b.
Builds(X, x0, F, b, f) ==
  /\ f \in [Below(b) -> X]
  /\ \A x \in Below(b) : f[x] = IF x = Genesis THEN x0 ELSE F[x][f[Parent[x]]]

\* The recursion has a solution below every block...
LEMMA BuildsExist ==
  ASSUME NEW X, NEW x0 \in X, NEW F \in [Blocks \ {Genesis} -> [X -> X]]
  PROVE  \A b \in Blocks : \E f : Builds(X, x0, F, b, f)
<1> DEFINE S == {b \in Blocks : ~\E f : Builds(X, x0, F, b, f)}
<1>1. S = {}
  <2> SUFFICES ASSUME S # {} PROVE FALSE
    BY Zenon
  <2>1. PICK b \in S : b = Genesis \/ Parent[b] \notin S
    BY TreeAssumption, Zenon
  <2>3. b # Genesis
    <3> SUFFICES ASSUME b = Genesis PROVE FALSE
      BY Zenon
    <3>1. Builds(X, x0, F, b, [x \in {Genesis} |-> x0])
      BY BelowUnfolds, Zenon DEF Builds
    <3> QED BY <3>1, Zenon
  <2>4. Parent[b] \in Blocks /\ Below(b) = {b} \cup Below(Parent[b])
    BY <2>3, BelowUnfolds, ParentIsBlock, Zenon
  <2>5. PICK g : Builds(X, x0, F, Parent[b], g)
    BY <2>1, <2>3, <2>4, Zenon
  <2>6. b \notin Below(Parent[b])
    <3> SUFFICES ASSUME b \in Below(Parent[b]) PROVE FALSE
      BY Zenon
    <3>1. Below(b) = Below(Parent[b])
      BY <2>4, Zenon
    <3>2. PICK D : D = Below(b) /\ D = Below(Parent[b])
      BY <3>1, Zenon
    <3>3. g \in [D -> X] /\ \A x \in D : g[x] = IF x = Genesis THEN x0 ELSE F[x][g[Parent[x]]]
      BY <2>5, <3>2, Zenon DEF Builds
    <3>4. Builds(X, x0, F, b, g)
      BY <3>2, <3>3, Zenon DEF Builds
    <3> QED BY <3>4, Zenon
  <2> DEFINE f == [x \in Below(b) |-> IF x = b THEN F[b][g[Parent[b]]] ELSE g[x]]
  <2>7. Parent[b] \in Below(Parent[b]) /\ g[Parent[b]] \in X /\ F[b][g[Parent[b]]] \in X
    <3>1. Parent[b] \in Below(Parent[b])
      BY <2>4, BelowUnfolds, Zenon
    <3>2. g[Parent[b]] \in X
      BY <2>5, <3>1, Zenon DEF Builds
    <3>3. F[b] \in [X -> X]
      BY <2>3, Zenon
    <3> QED BY <3>1, <3>2, <3>3, Zenon
  <2>8. f \in [Below(b) -> X]
    BY <2>4, <2>5, <2>7, Zenon DEF Builds
  <2>9. f[b] = F[b][f[Parent[b]]]
    BY <2>4, <2>6, <2>7, Zenon
  <2>10. ASSUME NEW x \in Below(Parent[b])
        PROVE  f[x] = IF x = Genesis THEN x0 ELSE F[x][f[Parent[x]]]
    <3>1. f[x] = IF x = Genesis THEN x0 ELSE F[x][g[Parent[x]]]
      BY <2>4, <2>5, <2>6, Zenon DEF Builds
    <3>2. x # Genesis => Parent[x] \in Below(Parent[b])
      BY <2>4, BelowUnfolds, Zenon DEF Closed
    <3> QED BY <2>4, <2>6, <3>1, <3>2, Zenon
  <2>11. Builds(X, x0, F, b, f)
    <3> HIDE DEF f
    <3> QED BY <2>3, <2>4, <2>8, <2>9, <2>10, Zenon DEF Builds
  <2> QED BY <2>11, Zenon
<1> QED BY <1>1, Zenon

\* ... and only one.
LEMMA BuildsAgree ==
  ASSUME NEW X, NEW x0, NEW F
  PROVE  \A b, c \in Blocks : \A f, g : Builds(X, x0, F, b, f) /\ Builds(X, x0, F, c, g)
           => \A x \in Below(b) \cap Below(c) : f[x] = g[x]
<1> SUFFICES ASSUME NEW b \in Blocks, NEW c \in Blocks, NEW f, NEW g,
                    Builds(X, x0, F, b, f), Builds(X, x0, F, c, g), NEW x \in Below(b) \cap Below(c)
             PROVE  f[x] = g[x]
  OBVIOUS
<1> DEFINE S == {y \in Below(b) \cap Below(c) : f[y] # g[y]}
<1>1. S = {}
  <2> SUFFICES ASSUME S # {} PROVE FALSE
    BY Zenon
  <2>1. S \in SUBSET Blocks
    BY BelowUnfolds, Zenon
  <2>2. PICK y \in S : y = Genesis \/ Parent[y] \notin S
    BY <2>1, TreeAssumption, Zenon
  <2>3. y # Genesis => Parent[y] \in Below(b) \cap Below(c)
    BY BelowUnfolds, Zenon DEF Closed
  <2>4. y \in Below(b) /\ y \in Below(c) /\ f[y] # g[y]
    BY Zenon
  <2>5. /\ f[y] = IF y = Genesis THEN x0 ELSE F[y][f[Parent[y]]]
        /\ g[y] = IF y = Genesis THEN x0 ELSE F[y][g[Parent[y]]]
    BY <2>4, Zenon DEF Builds
  <2>6. y # Genesis => f[Parent[y]] = g[Parent[y]]
    BY <2>2, <2>3, Zenon
  <2>7. CASE y = Genesis
    BY <2>4, <2>5, <2>7, Zenon
  <2>8. CASE y # Genesis
    <3>1. f[y] = F[y][f[Parent[y]]] /\ g[y] = F[y][g[Parent[y]]]
      BY <2>5, <2>8, Zenon
    <3> QED BY <2>4, <2>6, <2>8, <3>1, Zenon
  <2> QED BY <2>7, <2>8, Zenon
<1> QED BY <1>1, Zenon

\* f is the function that starts with x0 and takes F[b] from the parent of b to b.
Solves(X, x0, F, f) ==
  f \in [Blocks -> X] /\ \A b \in Blocks : f[b] = IF b = Genesis THEN x0 ELSE F[b][f[Parent[b]]]

\* A recursion along the parents defines a function.
LEMMA TreeRecursion ==
  \A X, x0, F : x0 \in X /\ F \in [Blocks \ {Genesis} -> [X -> X]] => \E f : Solves(X, x0, F, f)
<1> SUFFICES ASSUME NEW X, NEW x0 \in X, NEW F \in [Blocks \ {Genesis} -> [X -> X]]
             PROVE  \E f : Solves(X, x0, F, f)
  BY Zenon
<1> DEFINE built(b) == CHOOSE f : Builds(X, x0, F, b, f)
           P == [b \in Blocks |-> built(b)[b]]
<1>1. \A b \in Blocks : Builds(X, x0, F, b, built(b))
  BY BuildsExist, Zenon
<1>2. ASSUME NEW b \in Blocks
      PROVE  P[b] \in X /\ P[b] = IF b = Genesis THEN x0 ELSE F[b][P[Parent[b]]]
  <2>1. b \in Below(b) /\ Builds(X, x0, F, b, built(b))
    BY <1>1, BelowUnfolds, Zenon
  <2>2. built(b)[b] \in X /\ built(b)[b] = IF b = Genesis THEN x0 ELSE F[b][built(b)[Parent[b]]]
    <3> HIDE DEF built
    <3> QED BY <2>1, Zenon DEF Builds
  <2>3. CASE b = Genesis
    BY <2>2, <2>3, Zenon
  <2>4. CASE b # Genesis
    <3>1. Parent[b] \in Blocks /\ Parent[b] \in Below(b) \cap Below(Parent[b])
      BY <2>4, BelowUnfolds, ParentIsBlock, Zenon
    <3>2. Builds(X, x0, F, Parent[b], built(Parent[b]))
      BY <1>1, <3>1, Zenon
    <3>3. built(b)[Parent[b]] = built(Parent[b])[Parent[b]]
      <4> HIDE DEF built
      <4>1. \A f, g : Builds(X, x0, F, b, f) /\ Builds(X, x0, F, Parent[b], g) => f[Parent[b]] = g[Parent[b]]
        <5> HIDE DEF P
        <5>1. \A a, c \in Blocks : \A f, g : Builds(X, x0, F, a, f) /\ Builds(X, x0, F, c, g)
                => \A x \in Below(a) \cap Below(c) : f[x] = g[x]
          BY BuildsAgree
        <5> QED BY <3>1, <5>1
      <4> QED BY <2>1, <3>2, <4>1, Zenon
    <3>4. P[b] = built(b)[b] /\ P[Parent[b]] = built(Parent[b])[Parent[b]]
      BY <3>1, Zenon
    <3> HIDE DEF built, P
    <3> QED BY <2>2, <2>4, <3>3, <3>4, Zenon
  <2> QED BY <2>3, <2>4, Zenon
<1>3. P \in [Blocks -> X]
  <2> HIDE DEF built
  <2> QED BY <1>2, Zenon
<1>4. Solves(X, x0, F, P)
  <2> HIDE DEF P
  <2> QED BY <1>2, <1>3, Zenon DEF Solves
<1> QED BY <1>4, Zenon

\* Coins c with those of W replaced by v's
Over(c, W, v) == [o \in Outpoints |-> IF o \in W THEN v[o] ELSE c[o]]

\* Coins put over coins are coins.
LEMMA OverIsCoins ==
  ASSUME NEW c \in Coins, NEW W, NEW v \in Coins
  PROVE  Over(c, W, v) \in Coins
BY Zenon DEF Over, Coins

\* f is a loop of n passes, the k-th of which replaces the coins of W[k].
Loops(f, n, c, W, V) ==
  /\ f \in [0 .. n -> Coins] /\ f[0] = c
  /\ \A k \in 1 .. n : f[k] = Over(f[k - 1], W[k], V[k])

\* Such a loop has a result.
LEMMA LoopExists ==
  ASSUME NEW n \in Nat, NEW c \in Coins, NEW W, NEW V \in [1 .. n -> Coins]
  PROVE  \E f : Loops(f, n, c, W, V)
<1> DEFINE S == {m \in Nat : m <= n /\ ~\E f : Loops(f, m, c, W, V)}
<1>1. S = {}
  <2> SUFFICES ASSUME S # {} PROVE FALSE
    BY Zenon
  <2>1. PICK m \in S : \A k \in S : m <= k
    <3>1. S \in SUBSET Nat
      BY Zenon
    <3> HIDE DEF S
    <3> QED BY <3>1, LeastNat, Zenon
  <2>2. m \in Nat /\ m <= n /\ ~\E f : Loops(f, m, c, W, V)
    BY Zenon
  <2>3. m # 0
    <3> SUFFICES ASSUME m = 0 PROVE FALSE
      BY Zenon
    <3>1. 0 .. 0 = {0} /\ 1 .. 0 = {}
      OBVIOUS
    <3>2. Loops([k \in {0} |-> c], 0, c, W, V)
      BY <3>1, Zenon DEF Loops
    <3> QED BY <2>2, <3>2, Zenon
  <2>4. m - 1 \in Nat /\ m - 1 <= n /\ ~(m <= m - 1)
    BY <2>2, <2>3
  <2>5. m - 1 \notin S
    <3> HIDE DEF S
    <3> QED BY <2>1, <2>4, Zenon
  <2>6. PICK g : Loops(g, m - 1, c, W, V)
    BY <2>4, <2>5, Zenon
  <2> DEFINE f == [k \in 0 .. m |-> IF k = m THEN Over(g[m - 1], W[m], V[m]) ELSE g[k]]
  <2>7. /\ 0 .. m = (0 .. m - 1) \cup {m} /\ m \notin 0 .. m - 1 /\ m - 1 \in 0 .. m - 1
        /\ 0 \in 0 .. m - 1 /\ 1 .. m = (1 .. m - 1) \cup {m} /\ m \in 1 .. n
        /\ \A k \in 1 .. m - 1 : k \in 0 .. m - 1 /\ k - 1 \in 0 .. m - 1
    BY <2>2, <2>3
  <2>8. Over(g[m - 1], W[m], V[m]) \in Coins
    BY <2>6, <2>7, OverIsCoins, Zenon DEF Loops
  <2>9. Loops(f, m, c, W, V)
    <3>1. f \in [0 .. m -> Coins] /\ f[0] = c
      BY <2>6, <2>7, <2>8, Zenon DEF Loops
    <3>2. f[m] = Over(f[m - 1], W[m], V[m])
      BY <2>6, <2>7, Zenon DEF Loops
    <3>3. ASSUME NEW k \in 1 .. m - 1 PROVE f[k] = Over(f[k - 1], W[k], V[k])
      <4>1. f[k] = g[k] /\ f[k - 1] = g[k - 1]
        BY <2>7, Zenon
      <4> HIDE DEF f
      <4> QED BY <2>6, <4>1, Zenon DEF Loops
    <3> HIDE DEF f
    <3> QED BY <2>7, <3>1, <3>2, <3>3, Zenon DEF Loops
  <2> QED BY <2>2, <2>9, Zenon
<1>2. n \in Nat /\ n <= n
  OBVIOUS
<1> QED BY <1>1, <1>2, Zenon

\* s is what the coins are before the first pass and after each: outside W[k] pass k changes none.
Tracks(s, n, W, V) ==
  \A k \in 1 .. n : \A o \in Outpoints : IF o \in W[k] THEN V[k][o] = s[k][o] ELSE s[k][o] = s[k - 1][o]

\* A coin that some pass names ends as s says; any other stays as it was, and s has it the same all along.
Reaches(f, n, c, W, s) ==
  \A o \in Outpoints :
    /\ (\E k \in 1 .. n : o \in W[k]) => f[n][o] = s[n][o]
    /\ (\A k \in 1 .. n : o \notin W[k]) => f[n][o] = c[o] /\ s[n][o] = s[0][o]

\* A loop that brings, pass by pass, the coins of W[k] from s[k - 1] to s[k], where only those
\* differ, brings all that it touches to s[n], whatever it starts from.
LEMMA LoopResult ==
  \A n \in Nat : \A c, W, V, s, f : Loops(f, n, c, W, V) /\ Tracks(s, n, W, V) => Reaches(f, n, c, W, s)
<1> SUFFICES ASSUME NEW n \in Nat, NEW c, NEW W, NEW V, NEW s, NEW f, Loops(f, n, c, W, V), Tracks(s, n, W, V),
                    NEW o \in Outpoints
             PROVE  /\ (\E k \in 1 .. n : o \in W[k]) => f[n][o] = s[n][o]
                    /\ (\A k \in 1 .. n : o \notin W[k]) => f[n][o] = c[o] /\ s[n][o] = s[0][o]
  BY DEF Reaches
<1> DEFINE Q(m) == /\ (\E k \in 1 .. m : o \in W[k]) => f[m][o] = s[m][o]
                   /\ (\A k \in 1 .. m : o \notin W[k]) => f[m][o] = c[o] /\ s[m][o] = s[0][o]
           S == {m \in Nat : m <= n /\ ~Q(m)}
<1>1. S = {}
  <2> SUFFICES ASSUME S # {} PROVE FALSE
    BY Zenon
  <2>1. PICK m \in S : \A k \in S : m <= k
    <3>1. S \in SUBSET Nat
      BY Zenon
    <3> HIDE DEF S
    <3> QED BY <3>1, LeastNat, Zenon
  <2>2. m \in Nat /\ m <= n /\ ~Q(m)
    BY Zenon
  <2>3. m # 0
    <3> SUFFICES ASSUME m = 0 PROVE FALSE
      BY Zenon
    <3>1. 1 .. 0 = {}
      OBVIOUS
    <3> QED BY <2>2, <3>1, Zenon DEF Loops
  <2>4. m - 1 \in Nat /\ m - 1 <= n /\ ~(m <= m - 1) /\ m \in 1 .. n /\ 1 .. m = (1 .. m - 1) \cup {m}
    BY <2>2, <2>3
  <2>5. Q(m - 1)
    <3>1. m - 1 \notin S
      <4> HIDE DEF S
      <4> QED BY <2>1, <2>4, Zenon
    <3> HIDE DEF Q
    <3> QED BY <2>4, <3>1, Zenon
  <2>6. f[m][o] = IF o \in W[m] THEN V[m][o] ELSE f[m - 1][o]
    <3>1. f[m] = Over(f[m - 1], W[m], V[m])
      BY <2>4, Zenon DEF Loops
    <3> QED BY <3>1, Zenon DEF Over
  <2>7. IF o \in W[m] THEN V[m][o] = s[m][o] ELSE s[m][o] = s[m - 1][o]
    BY <2>4, Zenon DEF Tracks
  <2>8. Q(m)
    BY <2>4, <2>5, <2>6, <2>7, Zenon
  <2> HIDE DEF Q
  <2> QED BY <2>2, <2>8, Zenon
<1>2. n \in Nat /\ n <= n
  OBVIOUS
<1>3. Q(n)
  <2> HIDE DEF Q
  <2> QED BY <1>1, <1>2, Zenon
<1> QED BY <1>3, Zenon

-----------------------------------------------------------------------------
(* Blocks and coins *)

\* So Path is what its definition says.
LEMMA PathUnfolds ==
  /\ Path \in [Blocks -> Seq(Blocks)]
  /\ Path[Genesis] = <<Genesis>>
  /\ \A b \in Blocks \ {Genesis} : Path[b] = Append(Path[Parent[b]], b)
<1> DEFINE B(p) == [b \in Blocks |-> IF b = Genesis THEN <<b>> ELSE Append(p[Parent[b]], b)]
           F == [b \in Blocks \ {Genesis} |-> [q \in Seq(Blocks) |-> Append(q, b)]]
<1>1. <<Genesis>> \in Seq(Blocks) /\ \A b \in Blocks : \A q \in Seq(Blocks) : Append(q, b) \in Seq(Blocks)
  BY ParentIsBlock
<1>2. F \in [Blocks \ {Genesis} -> [Seq(Blocks) -> Seq(Blocks)]]
  BY <1>1, Zenon
<1>3. PICK p \in [Blocks -> Seq(Blocks)] :
        \A b \in Blocks : p[b] = IF b = Genesis THEN <<Genesis>> ELSE F[b][p[Parent[b]]]
  <2> HIDE DEF F
  <2>1. PICK p : Solves(Seq(Blocks), <<Genesis>>, F, p)
    BY <1>1, <1>2, TreeRecursion, Zenon
  <2> QED BY <2>1, Zenon DEF Solves
<1>4. p = B(p)
  <2>1. \A b \in Blocks : p[b] = IF b = Genesis THEN <<b>> ELSE Append(p[Parent[b]], b)
    BY <1>3, ParentIsBlock, Zenon
  <2> QED BY <2>1, Zenon
<1>5. Path = B(Path)
  <2>1. Path = CHOOSE q : q = B(q)
    BY Zenon DEF Path
  <2> HIDE DEF B
  <2> QED BY <1>4, <2>1, Zenon
<1>6. \A b \in Blocks : Path[b] = IF b = Genesis THEN <<b>> ELSE Append(Path[Parent[b]], b)
  BY <1>5, Zenon
<1> DEFINE S == {b \in Blocks : Path[b] \notin Seq(Blocks)}
<1>7. S = {}
  <2> SUFFICES ASSUME S # {} PROVE FALSE
    BY Zenon
  <2>1. PICK b \in S : b = Genesis \/ Parent[b] \notin S
    BY TreeAssumption, Zenon
  <2> QED BY <1>1, <1>6, <2>1, ParentIsBlock, Zenon
<1>8. Path = [b \in Blocks |-> Path[b]]
  BY <1>5, Zenon
<1> QED BY <1>6, <1>7, <1>8, ParentIsBlock, Zenon

\* The ancestors of a block: the genesis block at height 0, each the parent of the next.
LEMMA PathBasics ==
  ASSUME NEW b \in Blocks
  PROVE  /\ Height[b] \in Nat /\ GetAncestor(b, 0) = Genesis /\ GetAncestor(b, Height[b]) = b
         /\ \A h \in 0 .. Height[b] : GetAncestor(b, h) \in Blocks
         /\ \A h \in 1 .. Height[b] : /\ GetAncestor(b, h) \in Blocks \ {Genesis}
                                      /\ Parent[GetAncestor(b, h)] = GetAncestor(b, h - 1)
<1> DEFINE Q(c) == /\ Len(Path[c]) \in Nat \ {0} /\ Path[c][1] = Genesis /\ Path[c][Len(Path[c])] = c
                   /\ \A i \in 2 .. Len(Path[c]) : /\ Path[c][i] \in Blocks \ {Genesis}
                                                   /\ Parent[Path[c][i]] = Path[c][i - 1]
           S == {c \in Blocks : ~Q(c)}
<1>1. S = {}
  <2> SUFFICES ASSUME S # {} PROVE FALSE
    BY Zenon
  <2>1. PICK c \in S : c = Genesis \/ Parent[c] \notin S
    BY TreeAssumption, Zenon
  <2>2. CASE c = Genesis
    <3>1. Path[c] = <<Genesis>>
      BY <2>2, PathUnfolds, Zenon
    <3>2. Len(Path[c]) = 1 /\ Path[c][1] = Genesis /\ 2 .. 1 = {}
      BY <3>1
    <3>3. Q(c)
      BY <2>2, <3>2
    <3> QED BY <3>3, Zenon
  <2>3. CASE c # Genesis
    <3>1. c \in Blocks \ {Genesis} /\ Parent[c] \in Blocks /\ Q(Parent[c])
      BY <2>1, <2>3, ParentIsBlock, Zenon
    <3>2. PICK p \in Seq(Blocks) : p = Path[Parent[c]]
      BY <3>1, PathUnfolds, Zenon
    <3>3. Path[c] = Append(p, c)
      BY <3>1, <3>2, PathUnfolds, Zenon
    <3>4. PICK n \in Nat \ {0} : n = Len(p)
      BY <3>1, <3>2, Zenon
    <3>5. /\ Len(Append(p, c)) = n + 1 /\ Append(p, c)[n + 1] = c
          /\ \A i \in 1 .. n : Append(p, c)[i] = p[i]
      BY <3>2, <3>4
    <3>6. Len(Path[c]) = n + 1 /\ Path[c][n + 1] = c /\ \A i \in 1 .. n : Path[c][i] = p[i]
      BY <3>3, <3>5, Zenon
    <3>7. p[1] = Genesis /\ p[n] = Parent[c] /\ \A i \in 2 .. n : p[i] \in Blocks \ {Genesis} /\ Parent[p[i]] = p[i - 1]
      BY <3>1, <3>2, <3>4, Zenon
    <3>8. /\ n + 1 \in Nat \ {0} /\ 1 \in 1 .. n /\ n \in 1 .. n
          /\ n + 1 - 1 = n /\ \A i \in 2 .. n + 1 : i = n + 1 \/ (i \in 2 .. n /\ i \in 1 .. n /\ i - 1 \in 1 .. n)
      BY <3>4
    <3>9. ASSUME NEW i \in 2 .. n + 1
          PROVE  Path[c][i] \in Blocks \ {Genesis} /\ Parent[Path[c][i]] = Path[c][i - 1]
      <4>1. CASE i = n + 1
        <5>1. Path[c][n + 1 - 1] = p[n] /\ Path[c][n + 1] = c
          BY <3>6, <3>8, Zenon
        <5>2. Path[c][i] = c /\ Path[c][i - 1] = Parent[c]
          BY <3>7, <4>1, <5>1
        <5> QED BY <3>1, <5>2, Zenon
      <4>2. CASE i \in 2 .. n /\ i \in 1 .. n /\ i - 1 \in 1 .. n
        <5>1. Path[c][i] = p[i] /\ Path[c][i - 1] = p[i - 1]
          BY <3>6, <4>2, Zenon
        <5>2. p[i] \in Blocks \ {Genesis} /\ Parent[p[i]] = p[i - 1]
          BY <3>7, <4>2, Zenon
        <5> QED BY <5>1, <5>2, Zenon
      <4> QED BY <3>8, <4>1, <4>2, Zenon
    <3>10. Q(c)
      BY <3>6, <3>7, <3>8, <3>9, Zenon
    <3> HIDE DEF Q
    <3> QED BY <3>10, Zenon
  <2> QED BY <2>2, <2>3, Zenon
<1>2. Q(b)
  <2> HIDE DEF Q
  <2> QED BY <1>1, Zenon
<1>3. PICK n \in Nat \ {0} : n = Len(Path[b])
  BY <1>2, Zenon
<1>4. Height[b] = n - 1
  BY <1>3, Zenon DEF Height
<1>5. /\ n - 1 \in Nat /\ 0 + 1 = 1 /\ n - 1 + 1 = n
      /\ \A h \in 1 .. n - 1 : h + 1 \in 2 .. n /\ h - 1 + 1 = h /\ h + 1 - 1 = h
      /\ \A h \in 0 .. n - 1 : h = 0 \/ h \in 1 .. n - 1
  BY <1>3
<1>6. ASSUME NEW h \in 1 .. Height[b]
      PROVE  GetAncestor(b, h) \in Blocks \ {Genesis} /\ Parent[GetAncestor(b, h)] = GetAncestor(b, h - 1)
  <2>1. h \in 1 .. n - 1
    BY <1>4, Zenon
  <2>2. h + 1 \in 2 .. n /\ h - 1 + 1 = h /\ h + 1 - 1 = h
    BY <1>5, <2>1, Zenon
  <2>3. Path[b][h + 1] \in Blocks \ {Genesis} /\ Parent[Path[b][h + 1]] = Path[b][h + 1 - 1]
    <3>1. \A i \in 2 .. n : Path[b][i] \in Blocks \ {Genesis} /\ Parent[Path[b][i]] = Path[b][i - 1]
      BY <1>2, <1>3, Zenon
    <3> QED BY <2>2, <3>1
  <2> QED BY <2>2, <2>3, Zenon DEF GetAncestor
<1>7. GetAncestor(b, 0) = Genesis /\ GetAncestor(b, Height[b]) = b
  BY <1>2, <1>3, <1>4, <1>5, Zenon DEF GetAncestor
<1>8. \A h \in 0 .. Height[b] : GetAncestor(b, h) \in Blocks
  BY <1>4, <1>5, <1>6, <1>7, ParentIsBlock, Zenon
<1> QED BY <1>4, <1>5, <1>6, <1>7, <1>8, Zenon

\* The heights that a coin may have
LEMMA HeightsHave ==
  /\ Spent \in Heights /\ \A b \in Blocks : Height[b] \in Heights
  /\ NoCoins \in Coins
<1>1. \A b \in Blocks : Height[b] \in Heights
  BY Zenon DEF Heights, Height, Range
<1>2. Height[Genesis] = 0
  <2>1. Path[Genesis] = <<Genesis>> /\ Height[Genesis] = Len(Path[Genesis]) - 1
    BY PathUnfolds, ParentIsBlock, Zenon DEF Height
  <2> QED BY <2>1
<1>3. Spent \in Heights
  BY <1>1, <1>2, ParentIsBlock, Zenon DEF Spent
<1> QED BY <1>1, <1>3, Zenon DEF NoCoins, Coins

\* A function that does these passes as long as it meets coins is such a loop.
LEMMA LoopIs ==
  ASSUME NEW n \in Nat, NEW c \in Coins, NEW W, NEW V \in [1 .. n -> Coins], NEW g,
         g = [k \in 0 .. n |-> g[k]], g[0] = c,
         \A k \in 1 .. n : g[k - 1] \in Coins => g[k] = Over(g[k - 1], W[k], V[k])
  PROVE  Loops(g, n, c, W, V)
<1> DEFINE S == {m \in Nat : m <= n /\ g[m] \notin Coins}
<1>3. S = {}
  <2> SUFFICES ASSUME S # {} PROVE FALSE
    BY Zenon
  <2>1. PICK m \in S : \A k \in S : m <= k
    <3>1. S \in SUBSET Nat
      BY Zenon
    <3> HIDE DEF S
    <3> QED BY <3>1, LeastNat, Zenon
  <2>2. m \in Nat /\ m <= n /\ g[m] \notin Coins /\ m # 0
    BY Zenon
  <2>3. m - 1 \in Nat /\ m - 1 <= n /\ ~(m <= m - 1) /\ m \in 1 .. n
    BY <2>2
  <2>4. m - 1 \notin S
    <3> HIDE DEF S
    <3> QED BY <2>1, <2>3, Zenon
  <2>5. g[m - 1] \in Coins
    BY <2>3, <2>4, Zenon
  <2>6. g[m] = Over(g[m - 1], W[m], V[m]) /\ V[m] \in Coins
    BY <2>3, <2>5, Zenon
  <2>7. Over(g[m - 1], W[m], V[m]) \in Coins
    BY <2>5, <2>6, OverIsCoins
  <2> QED BY <2>2, <2>6, <2>7, Zenon
<1>4. \A k \in 0 .. n : k \in Nat /\ k <= n
  OBVIOUS
<1>5. \A k \in 0 .. n : g[k] \in Coins
  BY <1>3, <1>4, Zenon
<1>6. \A k \in 1 .. n : k - 1 \in 0 .. n
  OBVIOUS
<1>7. g \in [0 .. n -> Coins]
  BY <1>5, Zenon
<1> QED BY <1>5, <1>6, <1>7, Zenon DEF Loops

\* The coins that a transaction names, and what it makes of them
Names(t) == t.in \cup t.out
Puts(h, t) == [o \in Outpoints |-> IF o \in t.out THEN h ELSE Spent]

\* What TxsAssumption says of a block's transactions
LEMMA TxsBasics ==
  ASSUME NEW b \in Blocks
  PROVE  /\ Len(Txs[b]) \in Nat /\ DOMAIN Txs[b] = 1 .. Len(Txs[b])
         /\ \A k \in 1 .. Len(Txs[b]) : Names(Txs[b][k]) \subseteq Outpoints
         /\ \A o : o \in Touched(b) <=> \E k \in 1 .. Len(Txs[b]) : o \in Names(Txs[b][k])
         /\ Touched(b) \subseteq Outpoints
<1>1. Txs[b] \in Seq([in : SUBSET Outpoints, out : SUBSET Outpoints])
  BY TxsAssumption, Zenon
<1>2. /\ Len(Txs[b]) \in Nat /\ DOMAIN Txs[b] = 1 .. Len(Txs[b])
      /\ \A k \in 1 .. Len(Txs[b]) : Txs[b][k] \in [in : SUBSET Outpoints, out : SUBSET Outpoints]
  <2>1. \A T : \A q \in Seq(T) : Len(q) \in Nat /\ DOMAIN q = 1 .. Len(q) /\ \A k \in 1 .. Len(q) : q[k] \in T
    OBVIOUS
  <2> QED BY <1>1, <2>1, Zenon
<1>3. \A t \in [in : SUBSET Outpoints, out : SUBSET Outpoints] : Names(t) \subseteq Outpoints
  BY DEF Names
<1>4. Touched(b) = UNION {Names(Txs[b][k]) : k \in 1 .. Len(Txs[b])}
  <2>1. Range(Txs[b]) = {Txs[b][k] : k \in 1 .. Len(Txs[b])}
    BY <1>2, Zenon DEF Range
  <2>2. {t.in \cup t.out : t \in Range(Txs[b])} = {Names(Txs[b][k]) : k \in 1 .. Len(Txs[b])}
    BY <2>1 DEF Names
  <2> QED BY <2>2, Zenon DEF Touched
<1> QED BY <1>2, <1>3, <1>4, Zenon

\* A transaction replaces the coins that it names.
LEMMA ApplyTxOver ==
  ASSUME NEW h, NEW c, NEW t
  PROVE  ApplyTx(h, c, t) = Over(c, Names(t), Puts(h, t))
BY DEF ApplyTx, Over, Names, Puts

\* So ApplyTxs is its loop.
LEMMA ApplyTxsLoops ==
  ASSUME NEW b \in Blocks, NEW c \in Coins
  PROVE  Loops([i \in 0 .. Len(Txs[b]) |-> ApplyTxs(b, c, i)], Len(Txs[b]), c,
               [k \in 1 .. Len(Txs[b]) |-> Names(Txs[b][k])],
               [k \in 1 .. Len(Txs[b]) |-> Puts(Height[b], Txs[b][k])])
<1> DEFINE n == Len(Txs[b])
           W == [k \in 1 .. n |-> Names(Txs[b][k])]
           V == [k \in 1 .. n |-> Puts(Height[b], Txs[b][k])]
           B(f) == [i \in 0 .. n |-> IF i = 0 THEN c ELSE ApplyTx(Height[b], f[i - 1], Txs[b][i])]
           g == CHOOSE f : f = B(f)
<1>1. n \in Nat /\ \A i \in 0 .. n : i # 0 => i \in 1 .. n
  BY TxsBasics
<1>2. V \in [1 .. n -> Coins]
  BY HeightsHave, Zenon DEF Puts, Coins
<1>3. ASSUME NEW f PROVE B(f) = [i \in 0 .. n |-> IF i = 0 THEN c ELSE Over(f[i - 1], W[i], V[i])]
  <2>1. ASSUME NEW i \in 1 .. n PROVE ApplyTx(Height[b], f[i - 1], Txs[b][i]) = Over(f[i - 1], W[i], V[i])
    BY ApplyTxOver, Zenon
  <2> HIDE DEF n, W, V
  <2> QED BY <1>1, <2>1, Zenon
<1>4. \E f : f = B(f)
  <2> HIDE DEF n, W, V
  <2>1. PICK f : Loops(f, n, c, W, V)
    BY <1>1, <1>2, LoopExists, Zenon
  <2>2. \A i \in 0 .. n : f[i] = IF i = 0 THEN c ELSE Over(f[i - 1], W[i], V[i])
    BY <1>1, <2>1, Zenon DEF Loops
  <2>3. f = [i \in 0 .. n |-> IF i = 0 THEN c ELSE Over(f[i - 1], W[i], V[i])]
    BY <2>1, <2>2, Zenon DEF Loops
  <2> HIDE DEF B
  <2> QED BY <1>3, <2>3, Zenon
<1>5. g = B(g)
  <2> HIDE DEF B
  <2> QED BY <1>4, Zenon
<1>6. Loops(g, n, c, W, V)
  <2>1. g = [i \in 0 .. n |-> IF i = 0 THEN c ELSE Over(g[i - 1], W[i], V[i])]
    <3> HIDE DEF g, B, n, W, V
    <3> QED BY <1>3, <1>5, Zenon
  <2> HIDE DEF g, n, W, V
  <2>2. 0 \in 0 .. n /\ \A k \in 1 .. n : k \in 0 .. n /\ k # 0
    BY <1>1
  <2>3. g = [k \in 0 .. n |-> g[k]] /\ g[0] = c /\ \A k \in 1 .. n : g[k] = Over(g[k - 1], W[k], V[k])
    BY <2>1, <2>2, Zenon
  <2> QED BY <1>1, <1>2, <2>3, LoopIs, Zenon
<1>7. \A i : ApplyTxs(b, c, i) = g[i]
  BY Zenon DEF ApplyTxs
<1>8. [i \in 0 .. n |-> ApplyTxs(b, c, i)] = g
  <2> HIDE DEF g, n, W, V
  <2>1. g = [i \in 0 .. n |-> g[i]]
    BY <1>6, Zenon DEF Loops
  <2> QED BY <1>7, <2>1, Zenon
<1> HIDE DEF g
<1> QED BY <1>6, <1>8, Zenon

\* The transactions of a block one after the other
LEMMA ApplyTxsUnfolds ==
  ASSUME NEW b \in Blocks, NEW c \in Coins
  PROVE  /\ ApplyTxs(b, c, 0) = c
         /\ \A k \in 0 .. Len(Txs[b]) : ApplyTxs(b, c, k) \in Coins
         /\ \A k \in 1 .. Len(Txs[b]) :
              ApplyTxs(b, c, k) = Over(ApplyTxs(b, c, k - 1), Names(Txs[b][k]), Puts(Height[b], Txs[b][k]))
<1> DEFINE n == Len(Txs[b])
           f == [i \in 0 .. n |-> ApplyTxs(b, c, i)]
           W == [k \in 1 .. n |-> Names(Txs[b][k])]
           V == [k \in 1 .. n |-> Puts(Height[b], Txs[b][k])]
<1>1. Loops(f, n, c, W, V)
  BY ApplyTxsLoops, Zenon
<1>2. 0 \in 0 .. n /\ \A k \in 1 .. n : k \in 0 .. n /\ k - 1 \in 0 .. n
  BY TxsBasics
<1>3. f[0] = ApplyTxs(b, c, 0) /\ \A k \in 0 .. n : f[k] = ApplyTxs(b, c, k)
  BY <1>2, Zenon
<1>4. \A k \in 1 .. n : f[k - 1] = ApplyTxs(b, c, k - 1) /\ W[k] = Names(Txs[b][k]) /\ V[k] = Puts(Height[b], Txs[b][k])
  BY <1>2, Zenon
<1> HIDE DEF f, W, V
<1>5. f[0] = c /\ \A k \in 0 .. n : f[k] \in Coins
  BY <1>1, Zenon DEF Loops
<1>6. \A k \in 1 .. n : f[k] = Over(f[k - 1], W[k], V[k])
  BY <1>1, Zenon DEF Loops
<1>7. ASSUME NEW k \in 1 .. n
      PROVE  ApplyTxs(b, c, k) = Over(ApplyTxs(b, c, k - 1), Names(Txs[b][k]), Puts(Height[b], Txs[b][k]))
  BY <1>2, <1>3, <1>4, <1>6, Zenon
<1> QED BY <1>3, <1>5, <1>7, Zenon

\* RollforwardBlock gives coins.
LEMMA RollforwardIsCoins ==
  ASSUME NEW b \in Blocks, NEW c \in Coins
  PROVE  RollforwardBlock(b, c) \in Coins
<1>1. Len(Txs[b]) \in 0 .. Len(Txs[b])
  BY TxsBasics
<1> QED BY <1>1, ApplyTxsUnfolds, Zenon DEF RollforwardBlock

\* So Utxo is what its definition says.
LEMMA UtxoUnfolds ==
  /\ Utxo \in [Blocks -> Coins]
  /\ Utxo[Genesis] = NoCoins
  /\ \A b \in Blocks \ {Genesis} : Utxo[b] = RollforwardBlock(b, Utxo[Parent[b]])
<1> DEFINE B(u) == [b \in Blocks |-> IF b = Genesis THEN NoCoins ELSE RollforwardBlock(b, u[Parent[b]])]
           F == [b \in Blocks \ {Genesis} |-> [c \in Coins |-> RollforwardBlock(b, c)]]
<1>1. NoCoins \in Coins /\ \A b \in Blocks : \A c \in Coins : RollforwardBlock(b, c) \in Coins
  BY HeightsHave, RollforwardIsCoins, Zenon
<1>2. F \in [Blocks \ {Genesis} -> [Coins -> Coins]]
  BY <1>1, Zenon
<1>3. PICK u \in [Blocks -> Coins] :
        \A b \in Blocks : u[b] = IF b = Genesis THEN NoCoins ELSE F[b][u[Parent[b]]]
  <2> HIDE DEF F
  <2>1. PICK u : Solves(Coins, NoCoins, F, u)
    BY <1>1, <1>2, TreeRecursion, Zenon
  <2> QED BY <2>1, Zenon DEF Solves
<1>4. u = B(u)
  <2>1. \A b \in Blocks : u[b] = IF b = Genesis THEN NoCoins ELSE RollforwardBlock(b, u[Parent[b]])
    BY <1>3, ParentIsBlock, Zenon
  <2> QED BY <2>1, Zenon
<1>5. Utxo = B(Utxo)
  <2>1. Utxo = CHOOSE q : q = B(q)
    BY Zenon DEF Utxo
  <2> HIDE DEF B
  <2> QED BY <1>4, <2>1, Zenon
<1>6. \A b \in Blocks : Utxo[b] = IF b = Genesis THEN NoCoins ELSE RollforwardBlock(b, Utxo[Parent[b]])
  BY <1>5, Zenon
<1> DEFINE S == {b \in Blocks : Utxo[b] \notin Coins}
<1>7. S = {}
  <2> SUFFICES ASSUME S # {} PROVE FALSE
    BY Zenon
  <2>1. PICK b \in S : b = Genesis \/ Parent[b] \notin S
    BY TreeAssumption, Zenon
  <2> QED BY <1>1, <1>6, <2>1, ParentIsBlock, Zenon
<1>8. Utxo = [b \in Blocks |-> Utxo[b]]
  BY <1>5, Zenon
<1> QED BY <1>6, <1>7, <1>8, ParentIsBlock, Zenon

\* RollforwardBlock leaves what the block touches as it is after the block, whatever it was.
LEMMA RollforwardResult ==
  ASSUME NEW b \in Blocks \ {Genesis}, NEW c \in Coins, NEW o \in Outpoints
  PROVE  /\ o \in Touched(b) => RollforwardBlock(b, c)[o] = Utxo[b][o]
         /\ o \notin Touched(b) => RollforwardBlock(b, c)[o] = c[o] /\ Utxo[b][o] = Utxo[Parent[b]][o]
<1> DEFINE n == Len(Txs[b])
           u == Utxo[Parent[b]]
           f == [i \in 0 .. n |-> ApplyTxs(b, c, i)]
           s == [i \in 0 .. n |-> ApplyTxs(b, u, i)]
           W == [k \in 1 .. n |-> Names(Txs[b][k])]
           V == [k \in 1 .. n |-> Puts(Height[b], Txs[b][k])]
<1>1. u \in Coins /\ Utxo[b] = RollforwardBlock(b, u)
  BY UtxoUnfolds, ParentIsBlock, Zenon
<1>2. Loops(f, n, c, W, V) /\ Loops(s, n, u, W, V)
  <2> HIDE DEF u
  <2> QED BY <1>1, ApplyTxsLoops, Zenon
<1>3. n \in Nat /\ n \in 0 .. n /\ 0 \in 0 .. n
  BY TxsBasics
<1>4. Utxo[b] = s[n] /\ RollforwardBlock(b, c) = f[n] /\ s[0] = u
  <2>1. s[n] = ApplyTxs(b, u, n) /\ f[n] = ApplyTxs(b, c, n)
    BY <1>3, Zenon
  <2>2. s[0] = u
    <3> HIDE DEF s, W, V, u
    <3> QED BY <1>2, Zenon DEF Loops
  <2> HIDE DEF s, f, u
  <2> QED BY <1>1, <2>1, <2>2, Zenon DEF RollforwardBlock
<1>5. o \in Touched(b) <=> \E k \in 1 .. n : o \in W[k]
  BY TxsBasics, Zenon
<1> HIDE DEF n, u, f, s, W, V
<1>6. ASSUME NEW k \in 1 .. n, NEW p \in Outpoints
      PROVE  IF p \in W[k] THEN V[k][p] = s[k][p] ELSE s[k][p] = s[k - 1][p]
  <2>1. s[k] = Over(s[k - 1], W[k], V[k])
    BY <1>2, Zenon DEF Loops
  <2> QED BY <2>1, Zenon DEF Over
<1>8. Tracks(s, n, W, V)
  BY <1>6, Zenon DEF Tracks
<1>7. /\ (\E k \in 1 .. n : o \in W[k]) => f[n][o] = s[n][o]
      /\ (\A k \in 1 .. n : o \notin W[k]) => f[n][o] = c[o] /\ s[n][o] = s[0][o]
  <2>1. Reaches(f, n, c, W, s)
    BY <1>2, <1>3, <1>8, LoopResult, Zenon
  <2> QED BY <2>1, Zenon DEF Reaches
<1> QED BY <1>4, <1>5, <1>7, Zenon DEF u

\* The undo data of a block, restored in reverse order
Restores(b, i) == [o \in Outpoints |-> IF o \in Txs[b][i].in THEN UndoCoins(b, i)[o] ELSE Spent]

\* Undone, it replaces the same coins.
LEMMA UndoTxOver ==
  ASSUME NEW b, NEW i, NEW c
  PROVE  UndoTx(b, i, c) = Over(c, Names(Txs[b][i]), Restores(b, i))
BY DEF UndoTx, Over, Names, Restores

\* CTxUndo's coins are coins.
LEMMA RestoresIsCoins ==
  ASSUME NEW b \in Blocks \ {Genesis}, NEW i \in 1 .. Len(Txs[b])
  PROVE  UndoCoins(b, i) \in Coins /\ Restores(b, i) \in Coins
<1>1. Utxo[Parent[b]] \in Coins
  BY UtxoUnfolds, ParentIsBlock, Zenon
<1>2. i - 1 \in 0 .. Len(Txs[b])
  BY TxsBasics
<1>3. UndoCoins(b, i) \in Coins
  BY <1>1, <1>2, ApplyTxsUnfolds, Zenon DEF UndoCoins
<1> QED BY <1>3, HeightsHave, Zenon DEF Restores, Coins

\* So DisconnectBlock is its loop.
LEMMA DisconnectLoops ==
  ASSUME NEW b \in Blocks \ {Genesis}, NEW c \in Coins
  PROVE  \E f : /\ DisconnectBlock(b, c) = f[Len(Txs[b])]
                /\ Loops(f, Len(Txs[b]), c,
                         [k \in 1 .. Len(Txs[b]) |-> Names(Txs[b][Len(Txs[b]) + 1 - k])],
                         [k \in 1 .. Len(Txs[b]) |-> Restores(b, Len(Txs[b]) + 1 - k)])
<1> DEFINE n == Len(Txs[b])
           W == [k \in 1 .. n |-> Names(Txs[b][n + 1 - k])]
           V == [k \in 1 .. n |-> Restores(b, n + 1 - k)]
           B(f) == [k \in 0 .. n |-> IF k = 0 THEN c ELSE UndoTx(b, n + 1 - k, f[k - 1])]
           g == CHOOSE f : f = B(f)
<1>1. n \in Nat /\ \A i \in 0 .. n : i # 0 => i \in 1 .. n
  BY TxsBasics
<1>2. V \in [1 .. n -> Coins]
  <2>1. \A k \in 1 .. n : n + 1 - k \in 1 .. n
    BY <1>1
  <2> QED BY <2>1, RestoresIsCoins, Zenon
<1>3. ASSUME NEW f PROVE B(f) = [i \in 0 .. n |-> IF i = 0 THEN c ELSE Over(f[i - 1], W[i], V[i])]
  <2>1. ASSUME NEW i \in 1 .. n PROVE UndoTx(b, n + 1 - i, f[i - 1]) = Over(f[i - 1], W[i], V[i])
    BY UndoTxOver, Zenon
  <2> HIDE DEF n, W, V
  <2> QED BY <1>1, <2>1, Zenon
<1>4. \E f : f = B(f)
  <2> HIDE DEF n, W, V
  <2>1. PICK f : Loops(f, n, c, W, V)
    BY <1>1, <1>2, LoopExists, Zenon
  <2>2. \A i \in 0 .. n : f[i] = IF i = 0 THEN c ELSE Over(f[i - 1], W[i], V[i])
    BY <1>1, <2>1, Zenon DEF Loops
  <2>3. f = [i \in 0 .. n |-> IF i = 0 THEN c ELSE Over(f[i - 1], W[i], V[i])]
    BY <2>1, <2>2, Zenon DEF Loops
  <2> HIDE DEF B
  <2> QED BY <1>3, <2>3, Zenon
<1>5. g = B(g)
  <2> HIDE DEF B
  <2> QED BY <1>4, Zenon
<1>6. Loops(g, n, c, W, V)
  <2>1. g = [i \in 0 .. n |-> IF i = 0 THEN c ELSE Over(g[i - 1], W[i], V[i])]
    <3> HIDE DEF g, B, n, W, V
    <3> QED BY <1>3, <1>5, Zenon
  <2> HIDE DEF g, n, W, V
  <2>2. 0 \in 0 .. n /\ \A k \in 1 .. n : k \in 0 .. n /\ k # 0
    BY <1>1
  <2>3. g = [k \in 0 .. n |-> g[k]] /\ g[0] = c /\ \A k \in 1 .. n : g[k] = Over(g[k - 1], W[k], V[k])
    BY <2>1, <2>2, Zenon
  <2> QED BY <1>1, <1>2, <2>3, LoopIs, Zenon
<1>7. DisconnectBlock(b, c) = g[n]
  BY Zenon DEF DisconnectBlock
<1> HIDE DEF g
<1> QED BY <1>6, <1>7, Zenon

\* DisconnectBlock leaves what the block touches as it was before the block, also when the block
\* was never applied, or only in part.
LEMMA DisconnectResult ==
  ASSUME NEW b \in Blocks \ {Genesis}, NEW c \in Coins
  PROVE  /\ DisconnectBlock(b, c) \in Coins
         /\ \A o \in Touched(b) : DisconnectBlock(b, c)[o] = Utxo[Parent[b]][o]
         /\ \A o \in Outpoints \ Touched(b) : DisconnectBlock(b, c)[o] = c[o]
<1> DEFINE n == Len(Txs[b])
           u == Utxo[Parent[b]]
           W == [k \in 1 .. n |-> Names(Txs[b][n + 1 - k])]
           V == [k \in 1 .. n |-> Restores(b, n + 1 - k)]
           s == [k \in 0 .. n |-> ApplyTxs(b, u, n - k)]
<1>1. u \in Coins
  BY UtxoUnfolds, ParentIsBlock, Zenon
<1>2. PICK f : DisconnectBlock(b, c) = f[n] /\ Loops(f, n, c, W, V)
  BY DisconnectLoops, Zenon
<1>3. /\ n \in Nat /\ n \in 0 .. n /\ n - n = 0
      /\ \A k \in 1 .. n : /\ n + 1 - k \in 1 .. n /\ n + 1 - (n + 1 - k) = k /\ n + 1 - k - 1 = n - k
                           /\ k \in 0 .. n /\ k - 1 \in 0 .. n /\ n - (k - 1) = n + 1 - k
  <2>1. n \in Nat
    BY TxsBasics, Zenon
  <2> HIDE DEF n
  <2> QED BY <2>1
<1>4. s[n] = u
  BY <1>1, <1>3, ApplyTxsUnfolds, Zenon
<1>5. ASSUME NEW o \in Outpoints PROVE o \in Touched(b) <=> \E k \in 1 .. n : o \in W[k]
  <2>1. o \in Touched(b) <=> \E k \in 1 .. n : o \in Names(Txs[b][k])
    BY TxsBasics, Zenon
  <2>2. (\E k \in 1 .. n : o \in Names(Txs[b][k])) <=> \E k \in 1 .. n : o \in Names(Txs[b][n + 1 - k])
    <3> HIDE DEF n
    <3> QED BY <1>3
  <2> QED BY <2>1, <2>2, Zenon
<1>6. ASSUME NEW k \in 1 .. n, NEW p \in Outpoints
      PROVE  IF p \in W[k] THEN V[k][p] = s[k][p] ELSE s[k][p] = s[k - 1][p]
  <2>1. PICK i \in 1 .. n : i = n + 1 - k
    BY <1>3, Zenon
  <2>2. s[k] = ApplyTxs(b, u, i - 1) /\ s[k - 1] = ApplyTxs(b, u, i)
    <3>1. s[k] = ApplyTxs(b, u, n - k) /\ s[k - 1] = ApplyTxs(b, u, n - (k - 1))
      BY <1>3, Zenon
    <3> HIDE DEF n, s
    <3>2. n - k = i - 1 /\ n - (k - 1) = i
      BY <1>3, <2>1
    <3> QED BY <3>1, <3>2, Zenon
  <2>3. W[k] = Names(Txs[b][i]) /\ V[k] = Restores(b, i)
    BY <2>1, Zenon
  <2>4. ApplyTxs(b, u, i) = Over(ApplyTxs(b, u, i - 1), Names(Txs[b][i]), Puts(Height[b], Txs[b][i]))
    BY <1>1, ApplyTxsUnfolds, Zenon
  <2>5. UndoCoins(b, i) = ApplyTxs(b, u, i - 1)
    BY Zenon DEF UndoCoins
  <2>6. \A q \in Txs[b][i].out : UndoCoins(b, i)[q] = Spent
    <3>1. i \in DOMAIN Txs[b]
      BY TxsBasics, Zenon
    <3> QED BY <3>1, TxsAssumption, Zenon
  <2>7. CASE p \in W[k]
    <3>1. V[k][p] = IF p \in Txs[b][i].in THEN UndoCoins(b, i)[p] ELSE Spent
      BY <2>3, Zenon DEF Restores
    <3>2. p \in Txs[b][i].in \/ p \in Txs[b][i].out
      BY <2>3, <2>7, Zenon DEF Names
    <3> QED BY <2>2, <2>5, <2>6, <2>7, <3>1, <3>2, Zenon
  <2>8. CASE p \notin W[k]
    <3>1. ApplyTxs(b, u, i)[p] = ApplyTxs(b, u, i - 1)[p]
      BY <2>3, <2>4, <2>8, Zenon DEF Over
    <3> QED BY <2>2, <2>8, <3>1, Zenon
  <2> QED BY <2>7, <2>8, Zenon
<1> HIDE DEF n, u, s, W, V
<1>7. ASSUME NEW o \in Outpoints
      PROVE  /\ o \in Touched(b) => f[n][o] = u[o]
             /\ o \notin Touched(b) => f[n][o] = c[o]
  <2>2. Tracks(s, n, W, V)
    BY <1>6, Zenon DEF Tracks
  <2>1. /\ (\E k \in 1 .. n : o \in W[k]) => f[n][o] = s[n][o]
        /\ (\A k \in 1 .. n : o \notin W[k]) => f[n][o] = c[o] /\ s[n][o] = s[0][o]
    <3>1. Reaches(f, n, c, W, s)
      BY <1>2, <1>3, <2>2, LoopResult, Zenon
    <3> QED BY <3>1, Zenon DEF Reaches
  <2> QED BY <1>4, <1>5, <2>1, Zenon
<1>8. f[n] \in Coins
  BY <1>2, <1>3, Zenon DEF Loops
<1>9. Touched(b) \subseteq Outpoints
  BY TxsBasics, Zenon
<1> QED BY <1>2, <1>7, <1>8, <1>9, Zenon DEF u

-----------------------------------------------------------------------------
(* ReplayBlocks *)

\* A bounded set of numbers has a greatest one.
LEMMA GreatestNat ==
  ASSUME NEW S \in SUBSET Nat, S # {}, NEW N \in Nat, \A m \in S : m <= N
  PROVE  \E n \in S : \A m \in S : m <= n
<1> DEFINE T == {k \in Nat : \A m \in S : m <= k}
<1>1. T # {} /\ T \in SUBSET Nat
  BY Zenon
<1>2. PICK n \in T : \A k \in T : n <= k
  <2> HIDE DEF T
  <2> QED BY <1>1, LeastNat, Zenon
<1>3. n \in Nat /\ \A m \in S : m <= n
  BY Zenon
<1>4. n \in S
  <2> SUFFICES ASSUME n \notin S PROVE FALSE
    BY Zenon
  <2>1. PICK m \in S : TRUE
    BY Zenon
  <2>2. m \in Nat /\ m <= n /\ m # n
    BY <1>3, Zenon
  <2>3. n - 1 \in Nat /\ ~(n <= n - 1)
    BY <1>3, <2>2
  <2>4. ASSUME NEW k \in S PROVE k <= n - 1
    <3>1. k \in Nat /\ k <= n /\ k # n
      BY <1>3, Zenon
    <3> QED BY <1>3, <3>1
  <2>5. n - 1 \in T
    BY <2>3, <2>4, Zenon
  <2> HIDE DEF T
  <2> QED BY <1>2, <2>3, <2>5, Zenon
<1> QED BY <1>3, <1>4, Zenon

\* The fork is a block of both branches.
LEMMA ForkHeightIs ==
  ASSUME NEW a \in BlockOrNone, NEW b \in Blocks
  PROVE  /\ ForkHeight(a, b) \in Nat /\ ForkHeight(a, b) <= Height[b]
         /\ a # NoBlock => /\ ForkHeight(a, b) <= Height[a]
                           /\ GetAncestor(a, ForkHeight(a, b)) = GetAncestor(b, ForkHeight(a, b))
<1>1. CASE a = NoBlock
  <2>1. Height[b] \in Nat
    BY PathBasics, Zenon
  <2>2. ForkHeight(a, b) = 0
    BY <1>1, Zenon DEF ForkHeight
  <2> QED BY <1>1, <2>1, <2>2
<1>2. CASE a # NoBlock
  <2> DEFINE S == Shared(a, b)
  <2>1. a \in Blocks /\ Height[a] \in Nat /\ Height[b] \in Nat
    BY <1>2, PathBasics, Zenon DEF BlockOrNone
  <2>2. S \in SUBSET Nat /\ \A h \in S : h <= Height[a]
    BY <2>1 DEF Shared
  <2>3. 0 \in S
    <3>1. GetAncestor(a, 0) = GetAncestor(b, 0)
      BY <2>1, PathBasics, Zenon
    <3>2. 0 \in 0 .. Height[a] /\ 0 <= Height[b]
      BY <2>1
    <3> QED BY <3>1, <3>2, Zenon DEF Shared
  <2>4. \E h \in S : \A i \in S : i <= h
    <3> HIDE DEF S
    <3> QED BY <2>1, <2>2, <2>3, GreatestNat, Zenon
  <2>5. ForkHeight(a, b) = CHOOSE h \in S : \A i \in S : i <= h
    BY <1>2, Zenon DEF ForkHeight
  <2>6. ForkHeight(a, b) \in S
    <3> HIDE DEF S
    <3> QED BY <2>4, <2>5, Zenon
  <2>7. ForkHeight(a, b) <= Height[b] /\ GetAncestor(a, ForkHeight(a, b)) = GetAncestor(b, ForkHeight(a, b))
    BY <2>6, Zenon DEF Shared
  <2> QED BY <2>2, <2>6, <2>7, Zenon
<1> QED BY <1>1, <1>2, Zenon

\* What the database says when a flush was interrupted
Interrupted ==
  /\ db.heads[1] \in Blocks /\ db.heads[2] \in BlockOrNone /\ db.coin \in Coins

\* The block at which the branches part
ForkBlock == GetAncestor(db.heads[1], nForkHeight)

\* A block, applied or undone, replaces the coins that it touches.
LEMMA BlocksOver ==
  ASSUME NEW b \in Blocks \ {Genesis}, NEW c \in Coins
  PROVE  /\ RollforwardBlock(b, c) = Over(c, Touched(b), Utxo[b])
         /\ DisconnectBlock(b, c) = Over(c, Touched(b), Utxo[Parent[b]])
         /\ Utxo[b] \in Coins /\ Utxo[Parent[b]] \in Coins
<1>1. Utxo[b] \in Coins /\ Utxo[Parent[b]] \in Coins
  BY UtxoUnfolds, ParentIsBlock, Zenon
<1>2. RollforwardBlock(b, c) \in Coins /\ DisconnectBlock(b, c) \in Coins
  BY RollforwardIsCoins, DisconnectResult, Zenon
<1>3. \A o \in Outpoints : RollforwardBlock(b, c)[o] = IF o \in Touched(b) THEN Utxo[b][o] ELSE c[o]
  BY RollforwardResult, Zenon
<1>4. \A o \in Outpoints : DisconnectBlock(b, c)[o] = IF o \in Touched(b) THEN Utxo[Parent[b]][o] ELSE c[o]
  BY DisconnectResult, Zenon
<1>5. \A d \in Coins : d = [o \in Outpoints |-> d[o]]
  BY Zenon DEF Coins
<1>6. RollforwardBlock(b, c) = Over(c, Touched(b), Utxo[b])
  BY <1>2, <1>3, <1>5, Zenon DEF Over
<1>7. DisconnectBlock(b, c) = Over(c, Touched(b), Utxo[Parent[b]])
  BY <1>2, <1>4, <1>5, Zenon DEF Over
<1> QED BY <1>1, <1>6, <1>7, Zenon

\* A coin that a block does not touch is the same before and after it.
LEMMA UntouchedStays ==
  \A b \in Blocks \ {Genesis} : \A o \in Outpoints : o \notin Touched(b) => Utxo[b][o] = Utxo[Parent[b]][o]
BY HeightsHave, RollforwardResult, Zenon

\* Rolling forward gives what the blocks of the new branch touch the new tip's value.
LEMMA ForwardResult ==
  ASSUME Interrupted, NEW c \in Coins
  PROVE  /\ RolledForward(c) \in Coins
         /\ \A o \in Outpoints :
              /\ (\E b \in Forward : o \in Touched(b)) => RolledForward(c)[o] = Utxo[db.heads[1]][o]
              /\ (\A b \in Forward : o \notin Touched(b)) =>
                    RolledForward(c)[o] = c[o] /\ Utxo[db.heads[1]][o] = Utxo[ForkBlock][o]
<1>1. PICK new \in Blocks : new = db.heads[1]
  BY Zenon DEF Interrupted
<1>2. PICK fh \in Nat : fh = nForkHeight /\ fh <= Height[new]
  BY <1>1, ForkHeightIs, Zenon DEF Interrupted, nForkHeight
<1>3. Height[new] \in Nat
  BY PathBasics, Zenon
<1> DEFINE n == Height[new] - fh
           x(k) == GetAncestor(new, fh + k)
           W == [k \in 1 .. n |-> Touched(x(k))]
           V == [k \in 1 .. n |-> Utxo[x(k)]]
           s == [k \in 0 .. n |-> Utxo[x(k)]]
           B(f) == [k \in 0 .. n |-> IF k = 0 THEN c ELSE RollforwardBlock(x(k), f[k - 1])]
           g == CHOOSE f : f = B(f)
<1>4. /\ n \in Nat /\ 0 \in 0 .. n /\ n \in 0 .. n /\ fh + 0 = fh /\ fh + n = Height[new]
      /\ \A k \in 1 .. n : k \in 0 .. n /\ k # 0 /\ k - 1 \in 0 .. n /\ fh + k \in 1 .. Height[new] /\ fh + k - 1 = fh + (k - 1)
      /\ \A k \in 0 .. n : k # 0 => k \in 1 .. n
      /\ \A h \in fh + 1 .. Height[new] : h - fh \in 1 .. n /\ fh + (h - fh) = h
      /\ \A k \in 1 .. n : fh + k \in fh + 1 .. Height[new]
  BY <1>2, <1>3
<1>5. ASSUME NEW k \in 1 .. n
      PROVE  x(k) \in Blocks \ {Genesis} /\ Parent[x(k)] = x(k - 1) /\ Utxo[x(k)] \in Coins
  <2>1. fh + k \in 1 .. Height[new] /\ fh + k - 1 = fh + (k - 1)
    BY <1>4, Zenon
  <2>2. x(k) \in Blocks \ {Genesis} /\ Parent[x(k)] = GetAncestor(new, fh + k - 1)
    <3>1. \A h \in 1 .. Height[new] : /\ GetAncestor(new, h) \in Blocks \ {Genesis}
                                      /\ Parent[GetAncestor(new, h)] = GetAncestor(new, h - 1)
      BY PathBasics, Zenon
    <3> QED BY <2>1, <3>1
  <2> QED BY <2>1, <2>2, UtxoUnfolds, Zenon
<1>6. \A k \in 1 .. n : \A d \in Coins : RollforwardBlock(x(k), d) = Over(d, W[k], V[k])
  <2> HIDE DEF n, x
  <2> QED BY <1>5, BlocksOver, Zenon
<1>7. V \in [1 .. n -> Coins]
  <2> HIDE DEF n, x
  <2> QED BY <1>5, Zenon
<1>8. \E f : f = B(f)
  <2> HIDE DEF n, W, V, x
  <2>1. PICK f : Loops(f, n, c, W, V)
    BY <1>4, <1>7, LoopExists, Zenon
  <2>2. ASSUME NEW k \in 1 .. n PROVE f[k] = RollforwardBlock(x(k), f[k - 1])
    <3>1. f[k - 1] \in Coins /\ f[k] = Over(f[k - 1], W[k], V[k])
      BY <1>4, <2>1, Zenon DEF Loops
    <3> QED BY <1>6, <3>1, Zenon
  <2>3. f = [k \in 0 .. n |-> f[k]] /\ f[0] = c
    BY <2>1, Zenon DEF Loops
  <2>4. \A k \in 0 .. n : f[k] = IF k = 0 THEN c ELSE RollforwardBlock(x(k), f[k - 1])
    BY <1>4, <2>2, <2>3, Zenon
  <2>5. f = B(f)
    BY <2>3, <2>4, Zenon
  <2> HIDE DEF B
  <2> QED BY <2>5, Zenon
<1>9. g = B(g)
  <2> HIDE DEF B
  <2> QED BY <1>8, Zenon
<1>10. Loops(g, n, c, W, V)
  <2> HIDE DEF g, n, W, V, x
  <2>1. g = [k \in 0 .. n |-> g[k]] /\ g[0] = c
    BY <1>4, <1>9, Zenon
  <2>2. \A k \in 1 .. n : g[k] = RollforwardBlock(x(k), g[k - 1])
    BY <1>4, <1>9, Zenon
  <2>3. \A k \in 1 .. n : g[k - 1] \in Coins => g[k] = Over(g[k - 1], W[k], V[k])
    <3> HIDE DEF B
    <3> QED BY <1>6, <2>2, Zenon
  <2> HIDE DEF B
  <2> QED BY <1>4, <1>7, <2>1, <2>3, LoopIs, Zenon
<1>11. RolledForward(c) = g[n]
  BY <1>1, <1>2, Zenon DEF RolledForward
<1>12. Tracks(s, n, W, V)
  <2> SUFFICES ASSUME NEW k \in 1 .. n, NEW o \in Outpoints
               PROVE  IF o \in W[k] THEN V[k][o] = s[k][o] ELSE s[k][o] = s[k - 1][o]
    <3> HIDE DEF n, s, W, V
    <3> QED BY Zenon DEF Tracks
  <2>1. W[k] = Touched(x(k)) /\ V[k] = Utxo[x(k)] /\ s[k] = Utxo[x(k)] /\ s[k - 1] = Utxo[x(k - 1)]
    <3> HIDE DEF n, x
    <3> QED BY <1>4, Zenon
  <2>2. o \notin Touched(x(k)) => Utxo[x(k)][o] = Utxo[x(k - 1)][o]
    <3> HIDE DEF n, x
    <3> QED BY <1>5, UntouchedStays, Zenon
  <2> HIDE DEF n, x, s, W, V
  <2> QED BY <2>1, <2>2, Zenon
<1>13. Reaches(g, n, c, W, s)
  <2> HIDE DEF g, n, W, V, s
  <2> QED BY <1>4, <1>10, <1>12, LoopResult, Zenon
<1>14. s[n] = Utxo[new] /\ s[0] = Utxo[ForkBlock]
  <2>1. s[n] = Utxo[x(n)] /\ s[0] = Utxo[x(0)]
    <3> HIDE DEF n, x
    <3> QED BY <1>4, Zenon
  <2>2. x(n) = new /\ x(0) = ForkBlock
    BY <1>1, <1>2, <1>4, PathBasics, Zenon DEF ForkBlock
  <2> HIDE DEF s, x, n
  <2> QED BY <2>1, <2>2, Zenon
<1>15. ASSUME NEW o PROVE (\E b \in Forward : o \in Touched(b)) <=> \E k \in 1 .. n : o \in W[k]
  <2>1. Forward = {GetAncestor(new, h) : h \in fh + 1 .. Height[new]}
    BY <1>1, <1>2, Zenon DEF Forward
  <2>2. ASSUME NEW h \in fh + 1 .. Height[new], o \in Touched(GetAncestor(new, h)) PROVE \E k \in 1 .. n : o \in Touched(x(k))
    BY <1>4, <2>2, Zenon
  <2>3. ASSUME NEW k \in 1 .. n, o \in Touched(x(k)) PROVE \E h \in fh + 1 .. Height[new] : o \in Touched(GetAncestor(new, h))
    BY <1>4, <2>3, Zenon
  <2>4. (\E k \in 1 .. n : o \in W[k]) <=> \E k \in 1 .. n : o \in Touched(x(k))
    <3> HIDE DEF n, x
    <3> QED BY Zenon
  <2> HIDE DEF n, x, W
  <2> QED BY <2>1, <2>2, <2>3, <2>4, Zenon
<1>16. g[n] \in Coins
  <2> HIDE DEF g, n, W, V, s
  <2> QED BY <1>4, <1>10, Zenon DEF Loops
<1>17. ASSUME NEW o \in Outpoints
       PROVE  /\ (\E b \in Forward : o \in Touched(b)) => g[n][o] = Utxo[new][o]
              /\ (\A b \in Forward : o \notin Touched(b)) => g[n][o] = c[o] /\ Utxo[new][o] = Utxo[ForkBlock][o]
  <2> HIDE DEF g, n, W, V, s
  <2>1. /\ (\E k \in 1 .. n : o \in W[k]) => g[n][o] = s[n][o]
        /\ (\A k \in 1 .. n : o \notin W[k]) => g[n][o] = c[o] /\ s[n][o] = s[0][o]
    BY <1>13, Zenon DEF Reaches
  <2> QED BY <1>14, <1>15, <2>1, Zenon
<1> HIDE DEF g, n, W, V, s
<1> QED BY <1>1, <1>11, <1>16, <1>17, Zenon

\* Rolling back gives what the blocks of the old branch touch the value it had at the fork.
LEMMA BackResult ==
  ASSUME Interrupted
  PROVE  /\ RolledBack \in Coins
         /\ \A o \in Outpoints :
              /\ (\E b \in Back : o \in Touched(b)) => RolledBack[o] = Utxo[ForkBlock][o]
              /\ (\A b \in Back : o \notin Touched(b)) =>
                    RolledBack[o] = db.coin[o] /\ UtxoOf(db.heads[2])[o] = Utxo[ForkBlock][o]
<1>1. PICK new \in Blocks, old \in BlockOrNone, c \in Coins : new = db.heads[1] /\ old = db.heads[2] /\ c = db.coin
  BY Zenon DEF Interrupted
<1>2. PICK fh \in Nat : /\ fh = nForkHeight /\ fh <= Height[new]
                        /\ old # NoBlock => fh <= Height[old] /\ GetAncestor(old, fh) = GetAncestor(new, fh)
  BY <1>1, ForkHeightIs, Zenon DEF nForkHeight
<1>3. PICK oh \in Nat : /\ oh = OldHeight /\ fh <= oh
                        /\ old # NoBlock => oh = Height[old]
                        /\ old = NoBlock => oh = 0 /\ fh = 0
  <2>1. CASE old = NoBlock
    <3>1. OldHeight = 0 /\ fh = 0
      BY <1>1, <1>2, <2>1, Zenon DEF OldHeight, nForkHeight, ForkHeight
    <3>2. 0 \in Nat /\ 0 <= 0
      OBVIOUS
    <3> QED BY <2>1, <3>1, <3>2, Zenon
  <2>2. CASE old # NoBlock
    <3>1. old \in Blocks /\ OldHeight = Height[old]
      BY <1>1, <2>2, Zenon DEF OldHeight, BlockOrNone
    <3>2. Height[old] \in Nat
      BY <3>1, PathBasics, Zenon
    <3> QED BY <1>2, <2>2, <3>1, <3>2, Zenon
  <2> QED BY <2>1, <2>2, Zenon
<1> DEFINE n == oh - fh
           x(k) == GetAncestor(old, oh + 1 - k)
           W == [k \in 1 .. n |-> Touched(x(k))]
           V == [k \in 1 .. n |-> Utxo[Parent[x(k)]]]
           s == [k \in 0 .. n |-> Utxo[x(k + 1)]]
           B(f) == [k \in 0 .. n |-> IF k = 0 THEN c ELSE DisconnectBlock(x(k), f[k - 1])]
           g == CHOOSE f : f = B(f)
<1>4. /\ n \in Nat /\ 0 \in 0 .. n /\ n \in 0 .. n /\ oh + 1 - (n + 1) = fh /\ oh + 1 - (0 + 1) = oh
      /\ \A k \in 1 .. n : /\ k \in 0 .. n /\ k # 0 /\ k - 1 \in 0 .. n /\ oh + 1 - k \in 1 .. oh
                           /\ oh + 1 - k - 1 = oh + 1 - (k + 1) /\ k - 1 + 1 = k
      /\ \A k \in 0 .. n : k # 0 => k \in 1 .. n
      /\ \A h \in fh + 1 .. oh : oh + 1 - h \in 1 .. n /\ oh + 1 - (oh + 1 - h) = h
      /\ \A k \in 1 .. n : oh + 1 - k \in fh + 1 .. oh
      /\ old = NoBlock => n = 0
  BY <1>2, <1>3
<1>5. ASSUME NEW k \in 1 .. n
      PROVE  x(k) \in Blocks \ {Genesis} /\ Parent[x(k)] = x(k + 1) /\ Utxo[Parent[x(k)]] \in Coins
  <2>1. oh + 1 - k \in 1 .. oh /\ oh + 1 - k - 1 = oh + 1 - (k + 1)
    BY <1>4, Zenon
  <2>2. old \in Blocks /\ oh = Height[old]
    <3>1. n # 0
      BY <1>4
    <3> HIDE DEF n
    <3> QED BY <1>3, <1>4, <3>1, Zenon DEF BlockOrNone
  <2>3. x(k) \in Blocks \ {Genesis} /\ Parent[x(k)] = GetAncestor(old, oh + 1 - k - 1)
    <3>1. \A h \in 1 .. oh : /\ GetAncestor(old, h) \in Blocks \ {Genesis}
                             /\ Parent[GetAncestor(old, h)] = GetAncestor(old, h - 1)
      BY <2>2, PathBasics, Zenon
    <3> QED BY <2>1, <3>1
  <2> QED BY <2>1, <2>3, UtxoUnfolds, ParentIsBlock, Zenon
<1>6. \A k \in 1 .. n : \A d \in Coins : DisconnectBlock(x(k), d) = Over(d, W[k], V[k])
  <2> HIDE DEF n, x
  <2> QED BY <1>5, BlocksOver, Zenon
<1>7. V \in [1 .. n -> Coins]
  <2> HIDE DEF n, x
  <2> QED BY <1>5, Zenon
<1>8. \E f : f = B(f)
  <2> HIDE DEF n, W, V, x
  <2>1. PICK f : Loops(f, n, c, W, V)
    BY <1>4, <1>7, LoopExists, Zenon
  <2>2. ASSUME NEW k \in 1 .. n PROVE f[k] = DisconnectBlock(x(k), f[k - 1])
    <3>1. f[k - 1] \in Coins /\ f[k] = Over(f[k - 1], W[k], V[k])
      BY <1>4, <2>1, Zenon DEF Loops
    <3> QED BY <1>6, <3>1, Zenon
  <2>3. f = [k \in 0 .. n |-> f[k]] /\ f[0] = c
    BY <2>1, Zenon DEF Loops
  <2>4. \A k \in 0 .. n : f[k] = IF k = 0 THEN c ELSE DisconnectBlock(x(k), f[k - 1])
    BY <1>4, <2>2, <2>3, Zenon
  <2>5. f = B(f)
    BY <2>3, <2>4, Zenon
  <2> HIDE DEF B
  <2> QED BY <2>5, Zenon
<1>9. g = B(g)
  <2> HIDE DEF B
  <2> QED BY <1>8, Zenon
<1>10. Loops(g, n, c, W, V)
  <2> HIDE DEF g, n, W, V, x
  <2>1. g = [k \in 0 .. n |-> g[k]] /\ g[0] = c
    BY <1>4, <1>9, Zenon
  <2>2. \A k \in 1 .. n : g[k] = DisconnectBlock(x(k), g[k - 1])
    BY <1>4, <1>9, ZenonT(40)
  <2>3. \A k \in 1 .. n : g[k - 1] \in Coins => g[k] = Over(g[k - 1], W[k], V[k])
    <3> HIDE DEF B
    <3> QED BY <1>6, <2>2, Zenon
  <2> HIDE DEF B
  <2> QED BY <1>4, <1>7, <2>1, <2>3, LoopIs, Zenon
<1>11. RolledBack = g[n]
  BY <1>1, <1>2, <1>3, Zenon DEF RolledBack
<1>12. Tracks(s, n, W, V)
  <2> SUFFICES ASSUME NEW k \in 1 .. n, NEW o \in Outpoints
               PROVE  IF o \in W[k] THEN V[k][o] = s[k][o] ELSE s[k][o] = s[k - 1][o]
    <3> HIDE DEF n, s, W, V
    <3> QED BY Zenon DEF Tracks
  <2>1. W[k] = Touched(x(k)) /\ V[k] = Utxo[Parent[x(k)]] /\ s[k] = Utxo[x(k + 1)] /\ s[k - 1] = Utxo[x(k)]
    <3> HIDE DEF n, x
    <3> QED BY <1>4, Zenon
  <2>2. /\ o \notin Touched(x(k)) => Utxo[x(k)][o] = Utxo[x(k + 1)][o]
        /\ Parent[x(k)] = x(k + 1)
    <3> HIDE DEF n, x
    <3> QED BY <1>5, UntouchedStays, Zenon
  <2> HIDE DEF n, x, s, W, V
  <2> QED BY <2>1, <2>2, Zenon
<1>13. Reaches(g, n, c, W, s)
  <2> HIDE DEF g, n, W, V, s
  <2> QED BY <1>4, <1>10, <1>12, LoopResult, Zenon
<1>14. s[n] = Utxo[x(n + 1)] /\ s[0] = Utxo[x(0 + 1)] /\ x(n + 1) = GetAncestor(old, fh) /\ x(0 + 1) = GetAncestor(old, oh)
  <2>1. s[n] = Utxo[x(n + 1)] /\ s[0] = Utxo[x(0 + 1)]
    <3> HIDE DEF n, x
    <3> QED BY <1>4, Zenon
  <2>2. x(n + 1) = GetAncestor(old, fh) /\ x(0 + 1) = GetAncestor(old, oh)
    <3> HIDE DEF n
    <3> QED BY <1>4, Zenon
  <2> QED BY <2>1, <2>2, Zenon
<1>15. ASSUME NEW o PROVE (\E b \in Back : o \in Touched(b)) <=> \E k \in 1 .. n : o \in W[k]
  <2>1. Back = {GetAncestor(old, h) : h \in fh + 1 .. oh}
    BY <1>1, <1>2, <1>3, Zenon DEF Back
  <2>2. ASSUME NEW h \in fh + 1 .. oh, o \in Touched(GetAncestor(old, h)) PROVE \E k \in 1 .. n : o \in Touched(x(k))
    BY <1>4, <2>2, Zenon
  <2>3. ASSUME NEW k \in 1 .. n, o \in Touched(x(k)) PROVE \E h \in fh + 1 .. oh : o \in Touched(GetAncestor(old, h))
    BY <1>4, <2>3, Zenon
  <2>4. (\E k \in 1 .. n : o \in W[k]) <=> \E k \in 1 .. n : o \in Touched(x(k))
    <3> HIDE DEF n, x
    <3> QED BY Zenon
  <2> HIDE DEF n, x, W
  <2> QED BY <2>1, <2>2, <2>3, <2>4, Zenon
<1>16. g[n] \in Coins
  <2> HIDE DEF g, n, W, V, s
  <2> QED BY <1>4, <1>10, Zenon DEF Loops
<1>17. (old # NoBlock /\ s[n] = Utxo[ForkBlock] /\ s[0] = UtxoOf(old)) \/ (n = 0 /\ UtxoOf(old) = Utxo[ForkBlock])
  <2> HIDE DEF s, x
  <2>1. CASE old # NoBlock
    <3>1. old \in Blocks /\ oh = Height[old]
      BY <1>3, <2>1, Zenon DEF BlockOrNone
    <3>2. GetAncestor(old, fh) = ForkBlock /\ GetAncestor(old, oh) = old
      BY <1>1, <1>2, <2>1, <3>1, PathBasics, Zenon DEF ForkBlock
    <3> QED BY <1>14, <2>1, <3>2, Zenon DEF UtxoOf
  <2>2. CASE old = NoBlock
    <3>1. n = 0 /\ fh = 0
      BY <1>3, <1>4, <2>2, Zenon
    <3>2. ForkBlock = Genesis
      <4>1. ForkBlock = GetAncestor(new, fh) /\ GetAncestor(new, 0) = Genesis
        BY <1>1, <1>2, PathBasics, Zenon DEF ForkBlock
      <4> QED BY <3>1, <4>1, Zenon
    <3> QED BY <2>2, <3>1, <3>2, UtxoUnfolds, Zenon DEF UtxoOf
  <2> QED BY <2>1, <2>2, Zenon
<1>18. ASSUME NEW o \in Outpoints
       PROVE  /\ (\E b \in Back : o \in Touched(b)) => g[n][o] = Utxo[ForkBlock][o]
              /\ (\A b \in Back : o \notin Touched(b)) => g[n][o] = c[o] /\ UtxoOf(old)[o] = Utxo[ForkBlock][o]
  <2> HIDE DEF g, n, W, V, s
  <2>1. /\ (\E k \in 1 .. n : o \in W[k]) => g[n][o] = s[n][o]
        /\ (\A k \in 1 .. n : o \notin W[k]) => g[n][o] = c[o] /\ s[n][o] = s[0][o]
    BY <1>13, Zenon DEF Reaches
  <2>2. n = 0 => ~\E k \in 1 .. n : o \in W[k]
    OBVIOUS
  <2> QED BY <1>15, <1>17, <2>1, <2>2, Zenon
<1> HIDE DEF g, n, W, V, s
<1> QED BY <1>1, <1>11, <1>16, <1>18, Zenon

\* Between two tips, that is with the old or the new tip's value for each coin, the database is
\* brought to the new tip; what the replay does not touch is there already.
LEMMA ReplayResult ==
  ASSUME Interrupted,
         \A o \in Outpoints : db.coin[o] \in {UtxoOf(db.heads[1])[o], UtxoOf(db.heads[2])[o]}
  PROVE  /\ Replayed \in Coins
         /\ \A o \in Outpoints :
              /\ Replayed[o] = Utxo[db.heads[1]][o]
              /\ (\A b \in Back \cup Forward : o \notin Touched(b)) => db.coin[o] = Utxo[db.heads[1]][o]
<1>1. UtxoOf(db.heads[1]) = Utxo[db.heads[1]]
  BY ParentIsBlock, Zenon DEF UtxoOf, Interrupted
<1>2. /\ RolledBack \in Coins
      /\ \A o \in Outpoints :
           /\ (\E b \in Back : o \in Touched(b)) => RolledBack[o] = Utxo[ForkBlock][o]
           /\ (\A b \in Back : o \notin Touched(b)) =>
                 RolledBack[o] = db.coin[o] /\ UtxoOf(db.heads[2])[o] = Utxo[ForkBlock][o]
  BY BackResult, Zenon
<1>3. /\ Replayed \in Coins
      /\ \A o \in Outpoints :
           /\ (\E b \in Forward : o \in Touched(b)) => Replayed[o] = Utxo[db.heads[1]][o]
           /\ (\A b \in Forward : o \notin Touched(b)) =>
                 Replayed[o] = RolledBack[o] /\ Utxo[db.heads[1]][o] = Utxo[ForkBlock][o]
  BY <1>2, ForwardResult, Zenon DEF Replayed
<1> SUFFICES ASSUME NEW o \in Outpoints
             PROVE  /\ Replayed[o] = Utxo[db.heads[1]][o]
                    /\ (\A b \in Back \cup Forward : o \notin Touched(b)) => db.coin[o] = Utxo[db.heads[1]][o]
  BY <1>3, Zenon
<1>4. db.coin[o] = Utxo[db.heads[1]][o] \/ db.coin[o] = UtxoOf(db.heads[2])[o]
  BY <1>1, Zenon
<1> QED BY <1>2, <1>3, <1>4, Zenon

-----------------------------------------------------------------------------
(* The invariants *)

\* The tips that BatchWrite and ReplayBlocks go to: while a transition is unfinished, CoinsTip
\* stands at its end, also after a write error.
Transition ==
  /\ \A d \in OnDisk : d.heads # <<>> => d.best = NoBlock
  /\ pc = "run" => db.heads = <<>>
  /\ pc \in {"index", "unlink", "coins", "fatal", "replay", "batch"} /\ db.heads # <<>>
       => db.heads[1] = cache.best
  /\ Writing => cache.best \in Blocks /\ fl.todo \subseteq DOMAIN cache.dirty
  /\ pc \in {"replay", "batch"} => db.heads # <<>>
  /\ pc \in {"index", "unlink", "coins"} => fl.then # "start"

\* A database that names a best block holds its coins, one that names a transition holds for
\* each coin the value at one of its ends.
Sound(d) ==
  IF d.heads = <<>> THEN d.coin = UtxoOf(d.best)
  ELSE \A o \in Outpoints : d.coin[o] \in {UtxoOf(d.heads[1])[o], UtxoOf(d.heads[2])[o]}

\* Without write errors: what CoinsTip shows is exact, and what is still to be written makes
\* the database exact.
Exact ==
  /\ \A d \in OnDisk : Sound(d)
  /\ pc \in {"index", "unlink", "coins", "fatal"} => db.heads = <<>>
  /\ pc \in {"run", "index", "unlink", "coins", "fatal"} => View = UtxoOf(cache.best)
  /\ Writing => Written(fl.todo) = UtxoOf(cache.best)

\* A block that the index has connected: it and its ancestors have data and undo data.
Connected(i, b) == b \in i.known /\ (b = Genesis \/ b \in i.undo)
Complete(i) ==
  /\ i.undo \subseteq i.have /\ i.known = i.have /\ Genesis \notin i.undo
  /\ i.known # {} => Genesis \in i.known
  /\ \A b \in i.undo : Connected(i, Parent[b])

\* The tips that a database names are connected.
Held(i, b) == b = NoBlock \/ Connected(i, b)
Named(i, d) == \A b \in {d.best} \cup Range(d.heads) : Held(i, b)

\* Without pruning: every block that a database on disk names, and every one below it, is in the
\* index on disk and in the block files.
Readable ==
  /\ pc # "refused"
  /\ fl.prune = {}
  /\ Complete(index) /\ Complete(diskIndex)
  /\ index.have \subseteq files /\ Genesis \in index.known
  /\ diskIndex.have \subseteq index.have /\ diskIndex.undo \subseteq index.undo
  /\ \A d \in OnDisk : Named(diskIndex, d)
  /\ pc \notin {"off", "start"} => Held(index, cache.best)
  /\ pc \in {"unlink", "coins", "replay", "batch"} => Held(diskIndex, cache.best)

\* The inductive invariant
IInv ==
  /\ TypeOK
  /\ Transition
  /\ "write" \notin Faults => Exact
  /\ ~Pruning => Readable

-----------------------------------------------------------------------------
(* Types and transitions *)

\* A cache's entries are a function on some of the outpoints.
Dirty == UNION {[S -> Heights] : S \in SUBSET Outpoints}

\* Membership in Dirty, entry by entry
LEMMA DirtyIs ==
  \A d : d \in Dirty <=> /\ d = [o \in DOMAIN d |-> d[o]] /\ DOMAIN d \subseteq Outpoints
                         /\ \A o \in DOMAIN d : d[o] \in Heights
<1> SUFFICES ASSUME NEW d
             PROVE  d \in Dirty <=> /\ d = [o \in DOMAIN d |-> d[o]] /\ DOMAIN d \subseteq Outpoints
                                    /\ \A o \in DOMAIN d : d[o] \in Heights
  BY Zenon
<1>1. ASSUME d \in Dirty
      PROVE  /\ d = [o \in DOMAIN d |-> d[o]] /\ DOMAIN d \subseteq Outpoints
             /\ \A o \in DOMAIN d : d[o] \in Heights
  <2>1. PICK S \in SUBSET Outpoints : d \in [S -> Heights]
    BY <1>1, Zenon DEF Dirty
  <2> QED BY <2>1, Zenon
<1>2. ASSUME d = [o \in DOMAIN d |-> d[o]], DOMAIN d \subseteq Outpoints, \A o \in DOMAIN d : d[o] \in Heights
      PROVE  d \in Dirty
  <2>1. d \in [DOMAIN d -> Heights]
    BY <1>2, Zenon
  <2>2. DOMAIN d \in SUBSET Outpoints
    BY <1>2, Zenon
  <2> QED BY <2>1, <2>2, Zenon DEF Dirty
<1> QED BY <1>1, <1>2, Zenon

\* What the type invariant says of the databases
LEMMA DatabaseFacts ==
  ASSUME NEW d \in Database
  PROVE  /\ d.coin \in Coins /\ d.best \in BlockOrNone
         /\ d.heads # <<>> => /\ d.heads[1] \in Blocks /\ d.heads[2] \in BlockOrNone /\ Len(d.heads) = 2
                              /\ d.heads = <<d.heads[1], d.heads[2]>>
<1>1. d.coin \in Coins /\ d.best \in BlockOrNone /\ d.heads \in {<<>>} \cup (Blocks \X BlockOrNone)
  BY DEF Database
<1>2. ASSUME d.heads # <<>> PROVE /\ d.heads[1] \in Blocks /\ d.heads[2] \in BlockOrNone /\ Len(d.heads) = 2
                                  /\ d.heads = <<d.heads[1], d.heads[2]>>
  <2>1. d.heads \in Blocks \X BlockOrNone
    BY <1>1, <1>2, Zenon
  <2> QED BY <2>1
<1> QED BY <1>1, <1>2, Zenon

\* Every database that a restart may find is well-formed.
LEMMA OnDiskTyped == TypeOK => OnDisk \subseteq Database /\ db \in OnDisk
<1> SUFFICES ASSUME TypeOK PROVE Range(past) \subseteq Database /\ db \in Database
  BY Zenon DEF OnDisk
<1>1. past \in Seq(Database) /\ db \in Database
  BY Zenon DEF TypeOK
<1>2. \A T : \A q \in Seq(T) : Range(q) \subseteq T
  BY DEF Range
<1> QED BY <1>1, <1>2, Zenon

\* What the type invariant says of CoinsTip
LEMMA CacheFacts ==
  ASSUME TypeOK
  PROVE  /\ cache.dirty \in Dirty /\ DOMAIN cache.dirty \subseteq Outpoints
         /\ \A o \in DOMAIN cache.dirty : cache.dirty[o] \in Heights
         /\ cache.best \in BlockOrNone /\ cache = [dirty |-> cache.dirty, best |-> cache.best]
<1>1. cache \in [dirty : Dirty, best : BlockOrNone]
  BY Zenon DEF TypeOK, Cache, Dirty
<1>2. cache.dirty \in Dirty /\ cache.best \in BlockOrNone /\ cache = [dirty |-> cache.dirty, best |-> cache.best]
  BY <1>1
<1> QED BY <1>2, DirtyIs, Zenon

\* A well-formed cache from its parts
LEMMA CacheIs ==
  ASSUME NEW d \in Dirty, NEW b \in BlockOrNone
  PROVE  [dirty |-> d, best |-> b] \in Cache
BY DEF Cache, Dirty

\* A cache without entries
LEMMA NoCacheTyped ==
  ASSUME NEW b \in BlockOrNone
  PROVE  /\ NoCache \in Cache /\ [NoCache EXCEPT !.best = b] \in Cache
         /\ NoCache.best = NoBlock /\ DOMAIN NoCache.dirty = {}
         /\ [NoCache EXCEPT !.best = b].best = b /\ DOMAIN [NoCache EXCEPT !.best = b].dirty = {}
<1>1. [o \in {} |-> Spent] \in Dirty
  BY DirtyIs, Zenon
<1>2. [NoCache EXCEPT !.best = b] = [dirty |-> [o \in {} |-> Spent], best |-> b]
  BY DEF NoCache
<1>3. NoCache \in Cache /\ [NoCache EXCEPT !.best = b] \in Cache
  BY <1>1, <1>2, CacheIs, Zenon DEF NoCache, BlockOrNone
<1>4. [NoCache EXCEPT !.best = b].best = b /\ [NoCache EXCEPT !.best = b].dirty = [o \in {} |-> Spent]
  BY <1>2
<1>5. NoCache.best = NoBlock /\ NoCache.dirty = [o \in {} |-> Spent]
  BY DEF NoCache
<1> QED BY <1>3, <1>4, <1>5, Zenon

\* What CoinsTip shows is a set of coins.
LEMMA ViewIsCoins ==
  ASSUME TypeOK
  PROVE  View \in Coins /\ db.coin \in Coins
<1>1. db.coin \in Coins
  BY OnDiskTyped, DatabaseFacts, Zenon
<1>2. \A o \in Outpoints : db.coin[o] \in Heights
  BY <1>1, Zenon DEF Coins
<1> QED BY <1>1, <1>2, CacheFacts, Zenon DEF View, Coins

\* A step of ConnectTip or DisconnectTip, seen from CoinsTip
LEMMA CommittedIs ==
  ASSUME TypeOK, NEW v \in Coins, NEW T \in SUBSET Outpoints, NEW b \in BlockOrNone
  PROVE  /\ Committed(v, T, b) \in Cache /\ Committed(v, T, b).best = b
         /\ DOMAIN Committed(v, T, b).dirty = DOMAIN cache.dirty \cup T
         /\ \A o \in DOMAIN cache.dirty \cup T : Committed(v, T, b).dirty[o] = v[o]
<1> DEFINE d == [o \in DOMAIN cache.dirty \cup T |-> v[o]]
<1>1. DOMAIN cache.dirty \cup T \subseteq Outpoints /\ \A o \in Outpoints : v[o] \in Heights
  BY CacheFacts, Zenon DEF Coins
<1>2. d \in Dirty
  BY <1>1, DirtyIs, Zenon
<1>3. Committed(v, T, b) = [dirty |-> d, best |-> b]
  BY Zenon DEF Committed
<1>4. DOMAIN d = DOMAIN cache.dirty \cup T /\ \A o \in DOMAIN cache.dirty \cup T : d[o] = v[o]
  BY Zenon
<1>5. Committed(v, T, b).best = b /\ Committed(v, T, b).dirty = d
  <2> HIDE DEF d
  <2> QED BY <1>3
<1> HIDE DEF d
<1> QED BY <1>2, <1>3, <1>4, <1>5, CacheIs, Zenon

\* A batch adds one database to those that a restart may find.
LEMMA WriteBatchKeeps ==
  ASSUME TypeOK, NEW new \in Database, WriteBatch(new), world' = world
  PROVE  /\ db' = new /\ OnDisk' \subseteq OnDisk \cup {new}
         /\ db' \in Database /\ past' \in Seq(Database) /\ Len(past') <= Lag'
<1>1. past \in Seq(Database) /\ db \in Database /\ Len(past) <= Lag /\ Lag \in Nat
  BY WorldsAssumption, Zenon DEF TypeOK, Lag
<1>2. PICK p \in Seq(Database) : p = Append(past, db) /\ Len(p) = Len(past) + 1 /\ Range(p) = Range(past) \cup {db}
  <2>1. /\ Append(past, db) \in Seq(Database) /\ Len(Append(past, db)) = Len(past) + 1
        /\ Range(Append(past, db)) = Range(past) \cup {db}
    <3>1. \A T : \A q \in Seq(T), x \in T : Append(q, x) \in Seq(T) /\ Len(Append(q, x)) = Len(q) + 1
                                             /\ Range(Append(q, x)) = Range(q) \cup {x}
      BY SMTT(30) DEF Range
    <3> QED BY <1>1, <3>1
  <2> QED BY <2>1, Zenon
<1>3. db' = new /\ past' = IF Len(past) < Lag THEN p ELSE Tail(p)
  BY <1>2, Zenon DEF WriteBatch
<1>4. Len(past) \in Nat /\ Len(p) \in Nat /\ p # <<>>
  BY <1>1, <1>2
<1>5. Tail(p) \in Seq(Database) /\ Len(Tail(p)) = Len(p) - 1 /\ Range(Tail(p)) \subseteq Range(p)
  BY <1>4 DEF Range
<1>6. past' \in Seq(Database) /\ Len(past') <= Lag /\ Range(past') \subseteq Range(past) \cup {db}
  <2>1. CASE Len(past) < Lag
    <3>1. Len(past) + 1 <= Lag
      BY <1>1, <1>4, <2>1
    <3> QED BY <1>2, <1>3, <2>1, <3>1, Zenon
  <2>2. CASE ~(Len(past) < Lag)
    <3>1. Len(p) - 1 <= Lag
      BY <1>1, <1>2, <1>4, <2>2
    <3> QED BY <1>2, <1>3, <1>5, <2>2, <3>1, Zenon
  <2> QED BY <2>1, <2>2, Zenon
<1>7. Lag' = Lag
  BY Zenon DEF Lag
<1>8. OnDisk' = {db'} \cup Range(past')
  BY Zenon DEF OnDisk
<1> QED BY <1>3, <1>6, <1>7, <1>8, Zenon DEF OnDisk

\* What the type invariant says of the block index
LEMMA IndexFacts ==
  ASSUME TypeOK
  PROVE  /\ index.known \subseteq Blocks /\ index.have \subseteq Blocks /\ index.undo \subseteq Blocks
         /\ diskIndex.known \subseteq Blocks /\ diskIndex.have \subseteq Blocks /\ diskIndex.undo \subseteq Blocks
         /\ index = [known |-> index.known, have |-> index.have, undo |-> index.undo]
<1>1. index \in Index /\ diskIndex \in Index
  BY Zenon DEF TypeOK
<1> QED BY <1>1 DEF Index

\* What the type invariant says of FlushStateToDisk's locals
LEMMA LocalsFacts ==
  ASSUME TypeOK
  PROVE  /\ fl.todo \subseteq Outpoints /\ fl.prune \subseteq Blocks /\ fl.then \in {"run", "off", "start"}
         /\ NoFlush \in Locals /\ NoFlush.prune = {}
         /\ \A S \in SUBSET Outpoints :
              /\ [fl EXCEPT !.todo = S] \in Locals /\ [fl EXCEPT !.todo = S].todo = S
              /\ [fl EXCEPT !.todo = S].prune = fl.prune /\ [fl EXCEPT !.todo = S].then = fl.then
              /\ [fl EXCEPT !.todo = S].erase = fl.erase
<1>1. fl \in [erase : BOOLEAN, prune : SUBSET Blocks, todo : SUBSET Outpoints, then : {"run", "off", "start"}]
  BY Zenon DEF TypeOK, Locals
<1>2. NoFlush \in Locals /\ NoFlush.prune = {}
  BY DEF NoFlush, Locals
<1>3. fl.todo \subseteq Outpoints /\ fl.prune \subseteq Blocks /\ fl.then \in {"run", "off", "start"}
  BY <1>1
<1>4. ASSUME NEW S \in SUBSET Outpoints
      PROVE  /\ [fl EXCEPT !.todo = S] \in Locals /\ [fl EXCEPT !.todo = S].todo = S
             /\ [fl EXCEPT !.todo = S].prune = fl.prune /\ [fl EXCEPT !.todo = S].then = fl.then
             /\ [fl EXCEPT !.todo = S].erase = fl.erase
  BY <1>1 DEF Locals
<1> QED BY <1>2, <1>3, <1>4, Zenon

\* The part of the invariant that holds in every world
Base == TypeOK /\ Transition

\* A step that leaves the databases alone
LEMMA SameDisk ==
  ASSUME Base, UNCHANGED <<db, past, world>>
  PROVE  /\ OnDisk' = OnDisk /\ db' \in Database /\ past' \in Seq(Database) /\ Len(past') <= Lag'
         /\ \A d \in OnDisk' : d.heads # <<>> => d.best = NoBlock
         /\ Faults' = Faults /\ Pruning' = Pruning /\ MaxCrash' = MaxCrash
<1>1. OnDisk' = OnDisk /\ Lag' = Lag /\ Faults' = Faults /\ Pruning' = Pruning /\ MaxCrash' = MaxCrash
  BY Zenon DEF OnDisk, Lag, Faults, Pruning, MaxCrash
<1>2. /\ db \in Database /\ past \in Seq(Database) /\ Len(past) <= Lag
      /\ \A d \in OnDisk : d.heads # <<>> => d.best = NoBlock
  BY Zenon DEF Base, TypeOK, Transition
<1>3. db' = db /\ past' = past
  BY Zenon
<1> QED BY <1>1, <1>2, <1>3, Zenon

\* AcceptBlock keeps types and transitions.
LEMMA ReceiveBase ==
  ASSUME Base, NEW b \in Branches, ReceiveBlock(b)
  PROVE  Base'
<1>1. UNCHANGED <<diskIndex, db, past, cache, pc, fl, crashes, world>>
  BY Zenon DEF ReceiveBlock
<1>2. b \in Blocks
  BY WorldsAssumption, Zenon DEF Base, TypeOK, Branches
<1>3. index' \in Index /\ files' \subseteq Blocks
  <2>1. index' = [index EXCEPT !.known = @ \cup {b}, !.have = @ \cup {b}] /\ files' = files \cup {b}
    BY Zenon DEF ReceiveBlock
  <2>2. index \in Index /\ files \subseteq Blocks
    BY Zenon DEF Base, TypeOK
  <2> QED BY <1>2, <2>1, <2>2, Zenon DEF Index
<1>4. TypeOK'
  BY <1>1, <1>3, SameDisk, Zenon DEF Base, TypeOK
<1>5. Transition'
  <2>1. Writing' = Writing
    BY <1>1, Zenon DEF Writing
  <2> QED BY <1>1, <2>1, SameDisk, Zenon DEF Base, Transition
<1> QED BY <1>4, <1>5, Zenon DEF Base

\* ConnectTip keeps them.
LEMMA ConnectBase ==
  ASSUME Base, NEW b \in Branches, ConnectTip(b)
  PROVE  Base'
<1>1. pc = "run" /\ UNCHANGED <<diskIndex, files, db, past, pc, fl, crashes, world>>
  BY Zenon DEF ConnectTip
<1>2. b \in Blocks /\ b \in BlockOrNone
  BY WorldsAssumption, Zenon DEF Base, TypeOK, Branches, BlockOrNone
<1>3. index' \in Index
  <2>1. index' = [index EXCEPT !.undo = @ \cup ({b} \ {Genesis})]
    BY Zenon DEF ConnectTip
  <2>2. index \in Index
    BY Zenon DEF Base, TypeOK
  <2> QED BY <1>2, <2>1, <2>2 DEF Index
<1>4. cache' \in Cache
  <2>1. RollforwardBlock(b, View) \in Coins
    BY <1>2, ViewIsCoins, RollforwardIsCoins, Zenon DEF Base
  <2>2. Touched(b) \in SUBSET Outpoints
    BY <1>2, TxsBasics, Zenon
  <2> QED BY <1>2, <2>1, <2>2, CommittedIs, Zenon DEF Base, ConnectTip
<1>5. TypeOK'
  BY <1>1, <1>3, <1>4, SameDisk, Zenon DEF Base, TypeOK
<1>6. Transition'
  <2>1. ~Writing'
    BY <1>1 DEF Writing
  <2>2. db.heads = <<>>
    BY <1>1, Zenon DEF Base, Transition
  <2> QED BY <1>1, <2>1, <2>2, SameDisk DEF Transition
<1> QED BY <1>5, <1>6, Zenon DEF Base

\* DisconnectTip keeps them.
LEMMA DisconnectBase ==
  ASSUME Base, DisconnectTip
  PROVE  Base'
<1>1. PICK b : b = cache.best
  BY Zenon
<1>2. /\ pc = "run" /\ UNCHANGED <<store, db, past, pc, fl, crashes, world>> /\ b \notin {NoBlock, Genesis}
      /\ cache' = Committed(DisconnectBlock(b, View), Touched(b), Parent[b])
  BY <1>1, Zenon DEF DisconnectTip
<1>3. b \in Blocks \ {Genesis}
  BY <1>1, <1>2, CacheFacts, Zenon DEF Base, BlockOrNone
<1>4. cache' \in Cache
  <2>1. DisconnectBlock(b, View) \in Coins
    BY <1>3, ViewIsCoins, DisconnectResult, Zenon DEF Base
  <2>2. Touched(b) \in SUBSET Outpoints /\ Parent[b] \in BlockOrNone
    BY <1>3, TxsBasics, ParentIsBlock, Zenon DEF BlockOrNone
  <2> QED BY <1>2, <2>1, <2>2, CommittedIs, Zenon DEF Base
<1>5. TypeOK'
  BY <1>2, <1>4, SameDisk, Zenon DEF Base, TypeOK, store
<1>6. Transition'
  <2>1. ~Writing'
    BY <1>2 DEF Writing
  <2>2. db.heads = <<>>
    BY <1>2, Zenon DEF Base, Transition
  <2> QED BY <1>2, <2>1, <2>2, SameDisk DEF Transition
<1> QED BY <1>5, <1>6, Zenon DEF Base

\* The beginning of FlushStateToDisk, also at shutdown, keeps them.
LEMMA StartFlushBase ==
  ASSUME Base, NEW erase \in BOOLEAN, NEW prune, NEW then \in {"run", "off"},
         pc \in {"run", "fatal"}, StartFlush(erase, prune, then)
  PROVE  Base'
<1>1. /\ UNCHANGED <<diskIndex, files, db, past, cache, crashes, world>> /\ pc' = "index"
      /\ prune \subseteq Prunable /\ fl' = [erase |-> erase, prune |-> prune, todo |-> {}, then |-> then]
      /\ index' = [index EXCEPT !.have = @ \ prune, !.undo = @ \ prune]
  BY Zenon DEF StartFlush
<1>2. index' \in Index
  <2>1. index \in Index
    BY Zenon DEF Base, TypeOK
  <2> QED BY <1>1, <2>1, Zenon DEF Index
<1>3. fl' \in Locals /\ fl'.then = then
  <2>1. prune \subseteq Blocks
    BY <1>1, IndexFacts, Zenon DEF Base, Prunable
  <2> QED BY <1>1, <2>1 DEF Locals
<1>4. TypeOK'
  BY <1>1, <1>2, <1>3, SameDisk, Zenon DEF Base, TypeOK
<1>5. Transition'
  <2>1. ~Writing' /\ fl'.then # "start"
    BY <1>1, <1>3 DEF Writing
  <2>2. db.heads # <<>> => db.heads[1] = cache.best
    BY Zenon DEF Base, Transition
  <2> QED BY <1>1, <2>1, <2>2, SameDisk DEF Transition
<1> QED BY <1>4, <1>5, Zenon DEF Base

\* From the block index to the coins
LEMMA ToCoinsBase ==
  ASSUME Base, pc \in {"index", "unlink"}, ToCoins
  PROVE  /\ pc' \in {"run", "off", "coins"} /\ (pc' = "coins" <=> cache.best # NoBlock)
         /\ pc' # "coins" => pc' = fl.then
         /\ fl' \in Locals /\ fl'.then = fl.then /\ fl'.todo = DOMAIN cache.dirty /\ fl'.prune = fl.prune
         /\ fl.then # "start"
         /\ pc' = "run" => db.heads = <<>>
<1>1. fl' = [fl EXCEPT !.todo = DOMAIN cache.dirty] /\ pc' = IF cache.best = NoBlock THEN fl.then ELSE "coins"
  BY Zenon DEF ToCoins
<1>2. fl.then # "start" /\ (db.heads # <<>> => db.heads[1] = cache.best)
  BY Zenon DEF Base, Transition
<1>3. DOMAIN cache.dirty \in SUBSET Outpoints
  BY CacheFacts, Zenon DEF Base
<1>4. fl' \in Locals /\ fl'.then = fl.then /\ fl'.todo = DOMAIN cache.dirty /\ fl'.prune = fl.prune /\ fl.then \in {"run", "off"}
  BY <1>1, <1>2, <1>3, LocalsFacts, Zenon DEF Base
<1>5. db.heads # <<>> => db.heads[1] # NoBlock
  BY OnDiskTyped, DatabaseFacts, ParentIsBlock, Zenon DEF Base
<1> QED BY <1>1, <1>2, <1>4, <1>5

\* Going on to the coins keeps the transition.
LEMMA CoinsNext ==
  ASSUME Base, pc \in {"index", "unlink"}, ToCoins, UNCHANGED <<db, past, cache, world>>
  PROVE  Transition'
<1>1. /\ pc' \in {"run", "off", "coins"} /\ (pc' = "coins" <=> cache.best # NoBlock)
      /\ fl'.then = fl.then /\ fl'.todo = DOMAIN cache.dirty /\ fl.then # "start"
  BY ToCoinsBase, Zenon
<1>2. pc' = "run" => db.heads = <<>>
  BY ToCoinsBase, Zenon
<1>3. (db.heads # <<>> => db.heads[1] = cache.best) /\ cache.best \in BlockOrNone
  BY CacheFacts, Zenon DEF Base, Transition
<1>4. Writing' => pc' = "coins"
  BY <1>1 DEF Writing
<1>5. pc' = "coins" => cache'.best \in Blocks /\ fl'.todo \subseteq DOMAIN cache'.dirty
  BY <1>1, <1>3, Zenon DEF BlockOrNone
<1> QED BY <1>1, <1>2, <1>3, <1>4, <1>5, SameDisk DEF Transition

\* Writing the block index keeps types and transitions.
LEMMA WriteIndexBase ==
  ASSUME Base, WriteBlockIndexDB
  PROVE  Base'
<1>1. pc = "index" /\ diskIndex' = index /\ UNCHANGED <<index, files, db, past, cache, crashes, world>>
  BY Zenon DEF WriteBlockIndexDB
<1>2. CASE fl.prune # {}
  <2>1. pc' = "unlink" /\ fl' = fl
    BY <1>2, Zenon DEF WriteBlockIndexDB
  <2>2. TypeOK'
    BY <1>1, <2>1, SameDisk, Zenon DEF Base, TypeOK
  <2>3. ~Writing'
    BY <2>1 DEF Writing
  <2>4. (db.heads # <<>> => db.heads[1] = cache.best) /\ fl.then # "start"
    BY <1>1, Zenon DEF Base, Transition
  <2>5. Transition'
    BY <1>1, <2>1, <2>3, <2>4, SameDisk DEF Transition
  <2> QED BY <2>2, <2>5, Zenon DEF Base
<1>3. CASE fl.prune = {}
  <2>1. ToCoins
    BY <1>3, Zenon DEF WriteBlockIndexDB
  <2>2. TypeOK'
    BY <1>1, <2>1, SameDisk, ToCoinsBase, Zenon DEF Base, TypeOK
  <2>3. Transition'
    BY <1>1, <2>1, CoinsNext, Zenon
  <2> QED BY <2>2, <2>3, Zenon DEF Base
<1> QED BY <1>2, <1>3, Zenon

\* UnlinkPrunedFiles keeps them.
LEMMA UnlinkBase ==
  ASSUME Base, UnlinkPrunedFiles
  PROVE  Base'
<1>1. pc = "unlink" /\ files' = files \ fl.prune /\ UNCHANGED <<index, diskIndex, db, past, cache, crashes, world>> /\ ToCoins
  BY Zenon DEF UnlinkPrunedFiles
<1>2. TypeOK'
  BY <1>1, SameDisk, ToCoinsBase, Zenon DEF Base, TypeOK
<1>3. Transition'
  BY <1>1, CoinsNext, Zenon
<1> QED BY <1>2, <1>3, Zenon DEF Base

\* A full disk keeps them.
LEMMA LowDiskBase ==
  ASSUME Base, DiskSpaceTooLow
  PROVE  Base'
<1>1. /\ pc \in {"index", "coins"} /\ pc' = "fatal" /\ fl' = NoFlush
      /\ UNCHANGED <<store, db, past, cache, crashes, world>>
  BY Zenon DEF DiskSpaceTooLow
<1>2. TypeOK'
  BY <1>1, SameDisk, LocalsFacts, Zenon DEF Base, TypeOK, store
<1>3. ~Writing'
  BY <1>1 DEF Writing
<1>4. db.heads # <<>> => db.heads[1] = cache.best
  BY <1>1, Zenon DEF Base, Transition
<1>5. Transition'
  BY <1>1, <1>3, <1>4, SameDisk DEF Transition
<1> QED BY <1>2, <1>5, Zenon DEF Base

\* Sync and Flush: what is left in CoinsTip after some of the entries are passed
LEMMA PassedIs ==
  ASSUME TypeOK, NEW S
  PROVE  /\ [cache EXCEPT !.dirty = Passed(S)] \in Cache /\ [cache EXCEPT !.dirty = Passed(S)].best = cache.best
         /\ [cache EXCEPT !.dirty = Passed(S)].dirty = Passed(S)
         /\ DOMAIN cache.dirty \ S \subseteq DOMAIN Passed(S) /\ DOMAIN Passed(S) \subseteq DOMAIN cache.dirty
         /\ \A o \in DOMAIN Passed(S) : Passed(S)[o] = cache.dirty[o]
<1>1. /\ Passed(S) \in Dirty /\ DOMAIN cache.dirty \ S \subseteq DOMAIN Passed(S)
      /\ DOMAIN Passed(S) \subseteq DOMAIN cache.dirty
      /\ \A o \in DOMAIN Passed(S) : Passed(S)[o] = cache.dirty[o]
  <2>1. CASE fl.erase
    BY <2>1, CacheFacts, Zenon DEF Passed
  <2>2. CASE ~fl.erase
    <3>1. Passed(S) = [o \in DOMAIN cache.dirty \ S |-> cache.dirty[o]]
      BY <2>2, Zenon DEF Passed
    <3>2. DOMAIN Passed(S) = DOMAIN cache.dirty \ S /\ \A o \in DOMAIN Passed(S) : Passed(S)[o] = cache.dirty[o]
      BY <3>1, Zenon
    <3>3. /\ Passed(S) = [o \in DOMAIN Passed(S) |-> Passed(S)[o]] /\ DOMAIN Passed(S) \subseteq Outpoints
          /\ \A o \in DOMAIN Passed(S) : Passed(S)[o] \in Heights
      BY <3>1, <3>2, CacheFacts, Zenon
    <3> QED BY <3>2, <3>3, DirtyIs, Zenon
  <2> QED BY <2>1, <2>2, Zenon
<1>2. cache = [dirty |-> cache.dirty, best |-> cache.best] /\ cache.best \in BlockOrNone
  BY CacheFacts, Zenon
<1>3. [cache EXCEPT !.dirty = Passed(S)] = [dirty |-> Passed(S), best |-> cache.best]
  BY <1>2
<1>4. [cache EXCEPT !.dirty = Passed(S)].best = cache.best /\ [cache EXCEPT !.dirty = Passed(S)].dirty = Passed(S)
  BY <1>3
<1> QED BY <1>1, <1>2, <1>3, <1>4, CacheIs, ZenonT(40)

\* What a batch writes
LEMMA BatchTyped ==
  ASSUME Base, Writing, NEW S, S \subseteq fl.todo
  PROVE  /\ Written(S) \in Coins /\ cache.best \in Blocks
         /\ [coin |-> Written(S), best |-> cache.best, heads |-> <<>>] \in Database
         /\ \E t \in BlockOrNone :
              /\ (IF pc = "batch" THEN db.heads ELSE Heads) = <<cache.best, t>>
              /\ [coin |-> Written(S), best |-> NoBlock, heads |-> <<cache.best, t>>] \in Database
              /\ IF db.heads = <<>> THEN t = db.best ELSE t = db.heads[2]
<1>1. /\ cache.best \in Blocks /\ fl.todo \subseteq DOMAIN cache.dirty /\ (pc = "batch" => db.heads # <<>>)
      /\ db.heads # <<>> => db.heads[1] = cache.best
  BY DEF Base, Transition, Writing
<1>2. Written(S) \in Coins
  <2>1. \A o \in Outpoints : db.coin[o] \in Heights
    BY ViewIsCoins, Zenon DEF Base, Coins
  <2>2. \A o \in S : cache.dirty[o] \in Heights
    BY <1>1, CacheFacts, Zenon DEF Base
  <2> QED BY <2>1, <2>2, Zenon DEF Written, Coins
<1>3. [coin |-> Written(S), best |-> cache.best, heads |-> <<>>] \in Database
  BY <1>1, <1>2 DEF Database, BlockOrNone
<1>4. db \in OnDisk /\ db \in Database
  BY OnDiskTyped, Zenon DEF Base
<1>5. /\ db.best \in BlockOrNone
      /\ db.heads # <<>> => /\ db.heads[1] \in Blocks /\ db.heads[2] \in BlockOrNone /\ Len(db.heads) = 2
                            /\ db.heads = <<db.heads[1], db.heads[2]>> /\ db.best = NoBlock
  BY <1>4, DatabaseFacts, Zenon DEF Base, Transition
<1>6. PICK t : t = IF db.heads = <<>> THEN db.best ELSE db.heads[2]
  BY Zenon
<1>7. t \in BlockOrNone
  BY <1>5, <1>6, Zenon
<1>8. (IF pc = "batch" THEN db.heads ELSE Heads) = <<cache.best, t>>
  <2>1. CASE db.heads = <<>>
    <3>1. Len(db.heads) # 2 /\ pc # "batch"
      BY <1>1, <2>1
    <3>2. OldTip = t
      BY <1>6, <2>1, <3>1, Zenon DEF OldTip
    <3> QED BY <3>1, <3>2, Zenon DEF Heads
  <2>2. CASE db.heads # <<>>
    <3>1. OldTip = t
      BY <1>5, <1>6, <2>2, Zenon DEF OldTip
    <3>2. db.heads = <<cache.best, t>>
      BY <1>1, <1>5, <1>6, <2>2, Zenon
    <3> QED BY <3>1, <3>2, Zenon DEF Heads
  <2> QED BY <2>1, <2>2, Zenon
<1>9. [coin |-> Written(S), best |-> NoBlock, heads |-> <<cache.best, t>>] \in Database
  BY <1>1, <1>2, <1>7 DEF Database, BlockOrNone
<1> QED BY <1>1, <1>2, <1>3, <1>6, <1>7, <1>8, <1>9, Zenon

\* A batch that is not the last keeps them: the transition it names ends at CoinsTip.
LEMMA PartialBase ==
  ASSUME Base, NEW S \in SUBSET Outpoints, PartialBatch(S)
  PROVE  Base'
<1>1. /\ Writing /\ S \subseteq fl.todo /\ fl' = [fl EXCEPT !.todo = @ \ S]
      /\ cache' = [cache EXCEPT !.dirty = Passed(S)] /\ pc' = "batch" /\ UNCHANGED <<store, crashes, world>>
      /\ WriteBatch([coin |-> Written(S), best |-> NoBlock, heads |-> IF pc = "batch" THEN db.heads ELSE Heads])
  BY Zenon DEF PartialBatch
<1>2. PICK t \in BlockOrNone :
        /\ (IF pc = "batch" THEN db.heads ELSE Heads) = <<cache.best, t>>
        /\ [coin |-> Written(S), best |-> NoBlock, heads |-> <<cache.best, t>>] \in Database
  BY <1>1, BatchTyped, Zenon
<1>3. PICK new \in Database : new = [coin |-> Written(S), best |-> NoBlock, heads |-> <<cache.best, t>>]
  BY <1>2, Zenon
<1>4. new.best = NoBlock /\ new.heads = <<cache.best, t>> /\ new.heads # <<>> /\ new.heads[1] = cache.best
  BY <1>3
<1>5. WriteBatch(new)
  BY <1>1, <1>2, <1>3, Zenon
<1>6. db' = new /\ OnDisk' \subseteq OnDisk \cup {new} /\ db' \in Database /\ past' \in Seq(Database) /\ Len(past') <= Lag'
  BY <1>1, <1>5, WriteBatchKeeps, Zenon DEF Base
<1>7. /\ cache' \in Cache /\ cache'.best = cache.best /\ cache'.dirty = Passed(S)
      /\ DOMAIN cache.dirty \ S \subseteq DOMAIN Passed(S)
  BY <1>1, PassedIs, Zenon DEF Base
<1>8. fl' \in Locals /\ fl'.todo = fl.todo \ S
  <2>1. fl.todo \ S \in SUBSET Outpoints /\ fl' = [fl EXCEPT !.todo = fl.todo \ S]
    BY <1>1, LocalsFacts, Zenon DEF Base
  <2> QED BY <2>1, LocalsFacts, Zenon DEF Base
<1>9. TypeOK'
  <2>1. MaxCrash' = MaxCrash
    BY <1>1, Zenon DEF MaxCrash
  <2> QED BY <1>1, <1>6, <1>7, <1>8, <2>1, Zenon DEF Base, TypeOK, store
<1>10. Transition'
  <2>1. \A d \in OnDisk' : d.heads # <<>> => d.best = NoBlock
    BY <1>4, <1>6, Zenon DEF Base, Transition
  <2>2. cache.best \in Blocks /\ fl.todo \subseteq DOMAIN cache.dirty
    BY <1>1, Zenon DEF Base, Transition
  <2>3. cache'.best \in Blocks /\ fl'.todo \subseteq DOMAIN cache'.dirty
    BY <1>7, <1>8, <2>2, Zenon
  <2>4. db'.heads # <<>> /\ db'.heads[1] = cache'.best
    BY <1>4, <1>6, <1>7, Zenon
  <2> QED BY <1>1, <2>1, <2>3, <2>4 DEF Transition
<1> QED BY <1>9, <1>10, Zenon DEF Base

\* The last batch keeps them: no transition is left.
LEMMA FinalBase ==
  ASSUME Base, FinalBatch
  PROVE  Base'
<1>1. /\ Writing /\ fl' = NoFlush /\ pc' = fl.then /\ UNCHANGED <<store, crashes, world>>
      /\ cache' = IF fl.then = "off" THEN NoCache ELSE [NoCache EXCEPT !.best = cache.best]
      /\ WriteBatch([coin |-> Written(fl.todo), best |-> cache.best, heads |-> <<>>])
  BY Zenon DEF FinalBatch
<1>2. PICK new \in Database : new = [coin |-> Written(fl.todo), best |-> cache.best, heads |-> <<>>]
  BY <1>1, BatchTyped, Zenon
<1>3. new.heads = <<>>
  BY <1>2
<1>4. db' = new /\ OnDisk' \subseteq OnDisk \cup {new} /\ db' \in Database /\ past' \in Seq(Database) /\ Len(past') <= Lag'
  BY <1>1, <1>2, WriteBatchKeeps, Zenon DEF Base
<1>5. cache' \in Cache
  BY <1>1, CacheFacts, NoCacheTyped, Zenon DEF Base
<1>6. fl' \in Locals /\ fl.then \in {"run", "off", "start"}
  BY <1>1, LocalsFacts, Zenon DEF Base
<1>7. TypeOK'
  <2>1. MaxCrash' = MaxCrash
    BY <1>1, Zenon DEF MaxCrash
  <2> QED BY <1>1, <1>4, <1>5, <1>6, <2>1, Zenon DEF Base, TypeOK, store
<1>8. Transition'
  <2>1. \A d \in OnDisk' : d.heads # <<>> => d.best = NoBlock
    BY <1>3, <1>4, Zenon DEF Base, Transition
  <2>2. db'.heads = <<>>
    BY <1>3, <1>4, Zenon
  <2>3. ~Writing'
    BY <1>1, <1>6 DEF Writing
  <2> QED BY <1>1, <1>6, <2>1, <2>2, <2>3 DEF Transition
<1> QED BY <1>7, <1>8, Zenon DEF Base

\* A failing write keeps them: CoinsTip stays where the transition ends.
LEMMA WriteFailsBase ==
  ASSUME Base, NEW S \in SUBSET Outpoints, WriteFails(S)
  PROVE  Base'
<1>1. /\ Writing /\ fl' = NoFlush /\ UNCHANGED <<store, db, past, crashes, world>>
      /\ cache' = IF fl.then = "start" THEN NoCache ELSE [cache EXCEPT !.dirty = Passed(S)]
      /\ pc' = IF fl.then = "start" THEN "off" ELSE "fatal"
  BY Zenon DEF WriteFails
<1>2. cache' \in Cache /\ (pc' = "fatal" => cache'.best = cache.best)
  <2>1. NoCache \in Cache
    BY NoCacheTyped, Zenon DEF BlockOrNone
  <2>2. CASE fl.then = "start"
    BY <1>1, <2>1, <2>2
  <2>3. CASE fl.then # "start"
    BY <1>1, <2>3, PassedIs, Zenon DEF Base
  <2> QED BY <2>2, <2>3, Zenon
<1>3. TypeOK'
  <2>1. fl' \in Locals
    BY <1>1, LocalsFacts, Zenon DEF Base
  <2> QED BY <1>1, <1>2, <2>1, SameDisk, Zenon DEF Base, TypeOK, store
<1>4. Transition'
  <2>1. db.heads # <<>> => db.heads[1] = cache.best
    BY <1>1 DEF Base, Transition, Writing
  <2>2. pc' \in {"off", "fatal"} /\ ~Writing'
    BY <1>1 DEF Writing
  <2> QED BY <1>1, <1>2, <2>1, <2>2, SameDisk DEF Transition
<1> QED BY <1>3, <1>4, Zenon DEF Base

\* A crash keeps them and brings back nothing but a database that was there.
LEMMA CrashBase ==
  ASSUME Base, Crash
  PROVE  Base' /\ OnDisk' \subseteq OnDisk
<1>1. /\ crashes < MaxCrash /\ db' \in OnDisk /\ past' = <<>> /\ cache' = NoCache /\ pc' = "off" /\ fl' = NoFlush
      /\ crashes' = crashes + 1 /\ UNCHANGED <<store, world>>
  BY Zenon DEF Crash, OnDisk
<1>2. OnDisk' \subseteq OnDisk
  <2>1. OnDisk' = {db'} \cup Range(past')
    BY Zenon DEF OnDisk
  <2>2. Range(<<>>) = {}
    BY DEF Range
  <2> QED BY <1>1, <2>1, <2>2, Zenon
<1>3. TypeOK'
  <2>1. db' \in Database
    BY <1>1, OnDiskTyped, Zenon DEF Base
  <2>2. past' \in Seq(Database) /\ Len(past') <= Lag'
    <3>1. Lag' \in Nat
      BY <1>1, WorldsAssumption, Zenon DEF Base, TypeOK, Lag
    <3> QED BY <1>1, <3>1
  <2>3. crashes' \in 0 .. MaxCrash'
    <3>1. crashes \in 0 .. MaxCrash /\ MaxCrash' = MaxCrash /\ MaxCrash \in Nat
      BY <1>1, WorldsAssumption, Zenon DEF Base, TypeOK, MaxCrash
    <3> QED BY <1>1, <3>1
  <2>4. fl' \in Locals
    BY <1>1, LocalsFacts, Zenon DEF Base
  <2>5. cache' \in Cache
    BY <1>1, NoCacheTyped, Zenon DEF BlockOrNone
  <2> QED BY <1>1, <2>1, <2>2, <2>3, <2>4, <2>5, Zenon DEF Base, TypeOK, store
<1>4. Transition'
  <2>1. \A d \in OnDisk' : d.heads # <<>> => d.best = NoBlock
    BY <1>2, Zenon DEF Base, Transition
  <2>2. ~Writing'
    BY <1>1 DEF Writing
  <2> QED BY <1>1, <2>1, <2>2 DEF Transition
<1> QED BY <1>2, <1>3, <1>4, Zenon DEF Base

\* The blocks that ReplayBlocks reads are ancestors of the two tips.
LEMMA BranchBlocks ==
  ASSUME Interrupted
  PROVE  /\ \A b \in Back : /\ b \in Blocks \ {Genesis} /\ db.heads[2] \in Blocks
                            /\ \E h \in 1 .. Height[db.heads[2]] : b = GetAncestor(db.heads[2], h)
         /\ \A b \in Forward : /\ b \in Blocks \ {Genesis}
                               /\ \E h \in 1 .. Height[db.heads[1]] : b = GetAncestor(db.heads[1], h)
<1>1. PICK new \in Blocks, old \in BlockOrNone : new = db.heads[1] /\ old = db.heads[2]
  BY Zenon DEF Interrupted
<1>2. PICK fh \in Nat : fh = nForkHeight /\ fh <= Height[new]
  BY <1>1, ForkHeightIs, Zenon DEF nForkHeight
<1>3. \A x \in Blocks : \A h \in fh + 1 .. Height[x] : h \in 1 .. Height[x] /\ GetAncestor(x, h) \in Blocks \ {Genesis}
  <2>1. ASSUME NEW x \in Blocks, NEW h \in fh + 1 .. Height[x] PROVE h \in 1 .. Height[x]
    <3>1. Height[x] \in Nat
      BY PathBasics, Zenon
    <3> QED BY <3>1
  <2> QED BY <2>1, PathBasics, Zenon
<1>4. ASSUME NEW b \in Back PROVE old \in Blocks /\ \E h \in fh + 1 .. Height[old] : b = GetAncestor(old, h)
  <2>1. PICK h \in fh + 1 .. OldHeight : b = GetAncestor(old, h)
    BY <1>1, <1>2, <1>4, Zenon DEF Back
  <2>2. old # NoBlock
    <3>1. old = NoBlock => OldHeight = 0
      BY <1>1, Zenon DEF OldHeight
    <3>2. OldHeight = 0 => FALSE
      BY <2>1
    <3> QED BY <3>1, <3>2, Zenon
  <2>3. old \in Blocks /\ OldHeight = Height[old]
    BY <1>1, <2>2, Zenon DEF OldHeight, BlockOrNone
  <2> QED BY <2>1, <2>3, Zenon
<1>5. ASSUME NEW b \in Forward PROVE \E h \in fh + 1 .. Height[new] : b = GetAncestor(new, h)
  BY <1>1, <1>2, <1>5, Zenon DEF Forward
<1>6. ASSUME NEW b \in Back PROVE /\ b \in Blocks \ {Genesis} /\ old \in Blocks
                                  /\ \E h \in 1 .. Height[old] : b = GetAncestor(old, h)
  BY <1>3, <1>4, Zenon
<1>7. ASSUME NEW b \in Forward PROVE /\ b \in Blocks \ {Genesis}
                                     /\ \E h \in 1 .. Height[new] : b = GetAncestor(new, h)
  BY <1>3, <1>5, Zenon
<1> QED BY <1>1, <1>6, <1>7, Zenon

\* What CoinsTip holds after ReplayBlocks
ReplayTouched == UNION {Touched(b) : b \in Back \cup Forward}

\* A database that names a transition
LEMMA InterruptedIs ==
  ASSUME Base, db.heads # <<>>
  PROVE  /\ Interrupted /\ ReplayTouched \subseteq Outpoints /\ Replayed \in Coins
         /\ \A o : o \in ReplayTouched <=> \E b \in Back \cup Forward : o \in Touched(b)
<1>1. Interrupted
  BY OnDiskTyped, DatabaseFacts, Zenon DEF Base, Interrupted
<1>2. \A b \in Back \cup Forward : Touched(b) \subseteq Outpoints
  BY <1>1, BranchBlocks, TxsBasics, Zenon
<1>3. Replayed \in Coins
  <2>1. RolledBack \in Coins
    BY <1>1, BackResult, Zenon
  <2>2. RolledForward(RolledBack) \in Coins
    BY <1>1, <2>1, ForwardResult, Zenon
  <2> QED BY <2>2, Zenon DEF Replayed
<1> QED BY <1>1, <1>2, <1>3, Zenon DEF ReplayTouched

\* What a start can do
LEMMA StartCases ==
  ASSUME Base, Start
  PROVE  /\ pc \in {"off", "start"} /\ index' = Loaded(diskIndex)
         /\ UNCHANGED <<diskIndex, files, db, past, crashes, world>>
         /\ \/ /\ pc' = "refused" /\ UNCHANGED <<cache, fl>>
               /\ \/ ~(diskIndex.have \subseteq files)
                  \/ db.heads = <<>> /\ db.best \notin index'.known \cup {NoBlock}
                  \/ db.heads # <<>> /\ ~CanReplay
            \/ /\ pc' = "run" /\ db.heads = <<>> /\ db.best \in index'.known \cup {NoBlock}
               /\ cache' = [NoCache EXCEPT !.best = db.best] /\ UNCHANGED fl
            \/ /\ pc' = "replay" /\ db.heads # <<>> /\ CanReplay
               /\ cache' \in Cache /\ cache'.best = db.heads[1] /\ DOMAIN cache'.dirty = ReplayTouched
               /\ \A o \in ReplayTouched : cache'.dirty[o] = Replayed[o]
               /\ fl' \in Locals /\ fl'.todo = ReplayTouched /\ fl'.prune = {}
<1>1. /\ pc \in {"off", "start"} /\ index' = Loaded(diskIndex)
      /\ UNCHANGED <<diskIndex, files, db, past, crashes, world>>
      /\ IF ~(diskIndex.have \subseteq files) THEN Refuse
         ELSE IF db.heads = <<>> THEN LoadChainTip ELSE ReplayBlocks
  BY Zenon DEF Start
<1>2. Refuse => pc' = "refused" /\ UNCHANGED <<cache, fl>>
  BY Zenon DEF Refuse
<1>3. LoadChainTip =>
        \/ Refuse /\ db.best \notin index'.known \cup {NoBlock}
        \/ /\ pc' = "run" /\ db.best \in index'.known \cup {NoBlock}
           /\ cache' = [NoCache EXCEPT !.best = db.best] /\ UNCHANGED fl
  BY Zenon DEF LoadChainTip
<1>4. ReplayBlocks =>
        \/ Refuse /\ ~CanReplay
        \/ /\ pc' = "replay" /\ CanReplay
           /\ cache' = [dirty |-> [o \in ReplayTouched |-> Replayed[o]], best |-> db.heads[1]]
           /\ fl' = [erase |-> TRUE, prune |-> {}, todo |-> ReplayTouched, then |-> "start"]
  BY Zenon DEF ReplayBlocks, ReplayTouched
<1>5. ASSUME db.heads # <<>>, cache' = [dirty |-> [o \in ReplayTouched |-> Replayed[o]], best |-> db.heads[1]],
             fl' = [erase |-> TRUE, prune |-> {}, todo |-> ReplayTouched, then |-> "start"]
      PROVE  /\ cache' \in Cache /\ cache'.best = db.heads[1] /\ DOMAIN cache'.dirty = ReplayTouched
             /\ \A o \in ReplayTouched : cache'.dirty[o] = Replayed[o]
             /\ fl' \in Locals /\ fl'.todo = ReplayTouched /\ fl'.prune = {}
  <2>1. ReplayTouched \subseteq Outpoints /\ Replayed \in Coins /\ db.heads[1] \in BlockOrNone
    BY <1>5, InterruptedIs, Zenon DEF Interrupted, BlockOrNone
  <2>2. PICK d : d = [o \in ReplayTouched |-> Replayed[o]]
    BY Zenon
  <2>3. DOMAIN d = ReplayTouched /\ \A o \in ReplayTouched : d[o] = Replayed[o]
    BY <2>2, Zenon
  <2>4. d \in Dirty
    <3>1. \A o \in Outpoints : Replayed[o] \in Heights
      BY <2>1, Zenon DEF Coins
    <3> QED BY <2>1, <2>2, <2>3, <3>1, DirtyIs, Zenon
  <2>5. cache'.best = db.heads[1] /\ cache'.dirty = d /\ cache' = [dirty |-> d, best |-> db.heads[1]]
    BY <1>5, <2>2
  <2>6. fl' \in Locals /\ fl'.todo = ReplayTouched /\ fl'.prune = {}
    BY <1>5, <2>1 DEF Locals
  <2> QED BY <2>1, <2>3, <2>4, <2>5, <2>6, CacheIs, Zenon
<1> QED BY <1>1, <1>2, <1>3, <1>4, <1>5, Zenon

\* LoadBlockIndexDB and LoadGenesisBlock
LEMMA LoadedIs ==
  ASSUME NEW i \in Index
  PROVE  /\ Loaded(i) \in Index
         /\ Genesis \in i.known => Loaded(i) = i
         /\ Genesis \notin i.known => /\ Loaded(i).known = {Genesis} /\ Loaded(i).have = {Genesis}
                                      /\ Loaded(i).undo = {}
<1>1. Genesis \in Blocks
  BY ParentIsBlock, Zenon
<1>2. CASE Genesis \in i.known
  BY <1>2, Zenon DEF Loaded
<1>3. CASE Genesis \notin i.known
  <2>1. Loaded(i) = [known |-> {Genesis}, have |-> {Genesis}, undo |-> {}]
    BY <1>3, Zenon DEF Loaded
  <2> QED BY <1>1, <1>3, <2>1 DEF Index
<1> QED BY <1>2, <1>3, Zenon

\* A start keeps them: a replay goes to the tip that the database names.
LEMMA StartBase ==
  ASSUME Base, Start
  PROVE  Base'
<1>1. pc \in {"off", "start"} /\ index' = Loaded(diskIndex) /\ UNCHANGED <<diskIndex, files, db, past, crashes, world>>
  BY StartCases, Zenon
<1>2. index' \in Index
  BY <1>1, LoadedIs, Zenon DEF Base, TypeOK
<1>3. /\ TypeOK /\ Transition /\ (pc' \in {"refused", "run", "replay"}) /\ cache' \in Cache /\ fl' \in Locals
      /\ Writing' => pc' = "replay"
  <2>1. pc' \in {"refused", "run", "replay"}
    BY StartCases, Zenon
  <2>2. cache' \in Cache /\ fl' \in Locals
    <3>1. db.best \in BlockOrNone
      BY OnDiskTyped, DatabaseFacts, Zenon DEF Base
    <3>2. cache \in Cache /\ fl \in Locals
      BY Zenon DEF Base, TypeOK
    <3> QED BY <3>1, <3>2, StartCases, NoCacheTyped, Zenon
  <2>3. Writing' => pc' = "replay"
    BY <2>1 DEF Writing
  <2> QED BY <2>1, <2>2, <2>3, Zenon DEF Base
<1>4. TypeOK'
  <2>1. pc' \in {"run", "index", "unlink", "coins", "replay", "batch", "fatal", "off", "start", "refused"}
    BY <1>3
  <2> QED BY <1>1, <1>2, <1>3, <2>1, SameDisk, Zenon DEF TypeOK
<1>5. pc' = "run" => db.heads = <<>>
  <2>1. "run" # "refused" /\ "run" # "replay"
    OBVIOUS
  <2> QED BY <2>1, StartCases, Zenon
<1>6. pc' = "replay" => db.heads # <<>> /\ cache'.best = db.heads[1] /\ fl'.todo = DOMAIN cache'.dirty /\ cache'.best \in Blocks
  <2>1. "replay" # "refused" /\ "run" # "replay"
    OBVIOUS
  <2>2. pc' = "replay" => db.heads # <<>> /\ cache'.best = db.heads[1] /\ fl'.todo = DOMAIN cache'.dirty
    BY <2>1, StartCases, Zenon
  <2> QED BY <2>2, InterruptedIs, Zenon DEF Interrupted
<1>7. Transition'
  BY <1>1, <1>3, <1>5, <1>6, SameDisk DEF Transition
<1> QED BY <1>4, <1>7, Zenon DEF Base

\* They hold in a new data directory.
LEMMA InitBase ==
  ASSUME Init
  PROVE  Base /\ OnDisk = {db} /\ db.heads = <<>> /\ db.best = NoBlock /\ db.coin = NoCoins
<1>1. db.heads = <<>> /\ db.best = NoBlock /\ db.coin = NoCoins /\ past = <<>>
  BY DEF Init
<1>2. OnDisk = {db}
  <2>1. Range(<<>>) = {}
    BY DEF Range
  <2> QED BY <1>1, <2>1, Zenon DEF OnDisk
<1>3. TypeOK
  <2>1. db \in Database
    <3>1. db = [coin |-> NoCoins, best |-> NoBlock, heads |-> <<>>]
      BY Zenon DEF Init
    <3> QED BY <3>1, HeightsHave DEF Database, BlockOrNone
  <2>2. index \in Index /\ diskIndex \in Index
    <3>1. EmptyIndex \in Index
      BY DEF EmptyIndex, Index
    <3> QED BY <3>1, LoadedIs, Zenon DEF Init
  <2>3. files \subseteq Blocks
    BY ParentIsBlock, Zenon DEF Init
  <2>4. past \in Seq(Database) /\ Len(past) <= Lag /\ crashes \in 0 .. MaxCrash
    <3>1. Lag \in Nat /\ MaxCrash \in Nat /\ crashes = 0
      BY WorldsAssumption, Zenon DEF Init, Lag, MaxCrash
    <3> QED BY <1>1, <3>1
  <2>5. cache \in Cache
    BY NoCacheTyped, Zenon DEF Init, BlockOrNone
  <2>6. fl \in Locals
    BY DEF Init, NoFlush, Locals
  <2>7. pc = "run" /\ world \in Worlds
    BY Zenon DEF Init
  <2> QED BY <2>1, <2>2, <2>3, <2>4, <2>5, <2>6, <2>7 DEF TypeOK
<1>4. Transition
  <2>1. pc = "run"
    BY Zenon DEF Init
  <2>2. ~Writing
    BY <2>1 DEF Writing
  <2> QED BY <1>1, <1>2, <2>1, <2>2 DEF Transition
<1> QED BY <1>1, <1>2, <1>3, <1>4, Zenon DEF Base

-----------------------------------------------------------------------------
(* The coins, while no batch fails *)

\* The unspent outputs after a block, or of no block, are coins.
LEMMA UtxoIsCoins ==
  ASSUME NEW b \in BlockOrNone
  PROVE  UtxoOf(b) = [o \in Outpoints |-> UtxoOf(b)[o]] /\ (b # NoBlock => b \in Blocks /\ UtxoOf(b) = Utxo[b])
<1>1. \A c \in Coins : c = [o \in Outpoints |-> c[o]]
  BY Zenon DEF Coins
<1>2. b # NoBlock => b \in Blocks /\ UtxoOf(b) = Utxo[b] /\ Utxo[b] \in Coins
  BY UtxoUnfolds, Zenon DEF UtxoOf, BlockOrNone
<1>3. b = NoBlock => UtxoOf(b) = NoCoins /\ NoCoins \in Coins
  BY HeightsHave, Zenon DEF UtxoOf
<1> QED BY <1>1, <1>2, <1>3, Zenon

\* What CoinsTip shows, and what the database will hold, coin by coin
Shows(c, d, u) == \A o \in Outpoints : u[o] = IF o \in DOMAIN c.dirty THEN c.dirty[o] ELSE d.coin[o]
Becomes(S, c, d, u) == \A o \in Outpoints : u[o] = IF o \in S THEN c.dirty[o] ELSE d.coin[o]

\* What Exact says, coin by coin
LEMMA ExactFacts ==
  ASSUME Base, Exact
  PROVE  /\ cache.best \in BlockOrNone
         /\ pc \in {"run", "index", "unlink", "coins", "fatal"} => Shows(cache, db, UtxoOf(cache.best)) /\ View = UtxoOf(cache.best)
         /\ Writing => Becomes(fl.todo, cache, db, UtxoOf(cache.best)) /\ Written(fl.todo) = UtxoOf(cache.best)
<1>1. cache.best \in BlockOrNone
  BY CacheFacts, Zenon DEF Base
<1>2. ASSUME pc \in {"run", "index", "unlink", "coins", "fatal"}
      PROVE  Shows(cache, db, UtxoOf(cache.best)) /\ View = UtxoOf(cache.best)
  <2>1. View = UtxoOf(cache.best)
    BY <1>2, Zenon DEF Exact
  <2>2. \A o \in Outpoints : View[o] = IF o \in DOMAIN cache.dirty THEN cache.dirty[o] ELSE db.coin[o]
    BY Zenon DEF View
  <2> QED BY <2>1, <2>2, Zenon DEF Shows
<1>3. ASSUME Writing
      PROVE  Becomes(fl.todo, cache, db, UtxoOf(cache.best)) /\ Written(fl.todo) = UtxoOf(cache.best)
  <2>1. Written(fl.todo) = UtxoOf(cache.best)
    BY <1>3, Zenon DEF Exact
  <2>2. PICK u : u = UtxoOf(cache.best)
    BY Zenon
  <2>3. \A o \in Outpoints : u[o] = IF o \in fl.todo THEN cache.dirty[o] ELSE db.coin[o]
    BY <2>1, <2>2, Zenon DEF Written
  <2>4. Becomes(fl.todo, cache, db, u)
    BY <2>3, Zenon DEF Becomes
  <2> QED BY <2>1, <2>2, <2>4, Zenon
<1> QED BY <1>1, <1>2, <1>3, Zenon

\* The same facts of the next state give the invariant.
LEMMA ExactNext ==
  ASSUME Base', \A d \in OnDisk' : Sound(d),
         pc' \in {"index", "unlink", "coins", "fatal"} => db'.heads = <<>>,
         pc' \in {"run", "index", "unlink", "coins", "fatal"} => Shows(cache', db', UtxoOf(cache'.best)),
         pc' \in {"coins", "replay", "batch"} => Becomes(fl'.todo, cache', db', UtxoOf(cache'.best))
  PROVE  Exact'
<1>1. cache'.best \in BlockOrNone
  <2>1. cache' \in Cache
    BY Zenon DEF Base, TypeOK
  <2> QED BY <2>1 DEF Cache
<1>2. PICK u : u = UtxoOf(cache'.best) /\ u = [o \in Outpoints |-> u[o]]
  BY <1>1, UtxoIsCoins, Zenon
<1>3. View' = [o \in Outpoints |-> IF o \in DOMAIN cache'.dirty THEN cache'.dirty[o] ELSE db'.coin[o]]
  BY Zenon DEF View
<1>4. Written(fl.todo)' = [o \in Outpoints |-> IF o \in fl'.todo THEN cache'.dirty[o] ELSE db'.coin[o]]
  BY Zenon DEF Written
<1>5. Shows(cache', db', u) => View' = u
  BY <1>2, <1>3, Zenon DEF Shows
<1>6. Becomes(fl'.todo, cache', db', u) => Written(fl.todo)' = u
  BY <1>2, <1>4, Zenon DEF Becomes
<1>7. Writing' = (pc' \in {"coins", "replay", "batch"})
  BY Zenon DEF Writing
<1>8. UtxoOf(cache.best)' = u
  BY <1>2, Zenon DEF UtxoOf
<1>9. (\A d \in OnDisk : Sound(d))'
  BY Zenon DEF Sound, UtxoOf
<1> QED BY <1>2, <1>5, <1>6, <1>7, <1>8, <1>9, Zenon DEF Exact

\* A step that leaves CoinsTip and the databases alone
LEMMA SameCoins ==
  ASSUME Base, Exact, Base', UNCHANGED <<db, past, cache, world>>,
         pc \in {"run", "index", "unlink", "coins", "fatal"},
         pc' \in {"run", "index", "unlink", "coins", "fatal", "off"},
         pc' = "coins" => fl'.todo = DOMAIN cache.dirty
  PROVE  Exact'
<1>1. OnDisk' = OnDisk /\ \A d \in OnDisk : Sound(d)
  BY SameDisk, Zenon DEF Exact
<1>2. Shows(cache, db, UtxoOf(cache.best))
  BY ExactFacts, Zenon
<1>3. db.heads = <<>>
  BY Zenon DEF Exact, Base, Transition
<1>4. Becomes(DOMAIN cache.dirty, cache, db, UtxoOf(cache.best))
  BY <1>2, Zenon DEF Shows, Becomes
<1>5. pc' \in {"coins", "replay", "batch"} => pc' = "coins"
  OBVIOUS
<1>6. cache' = cache /\ db' = db
  BY Zenon
<1> QED BY <1>1, <1>2, <1>3, <1>4, <1>5, <1>6, ExactNext, Zenon

\* ConnectTip takes an exact view to an exact view.
LEMMA ConnectExact ==
  ASSUME Base, Exact, Base', NEW b \in Branches, ConnectTip(b)
  PROVE  Exact'
<1>1. /\ pc = "run" /\ UNCHANGED <<db, past, pc, world>>
      /\ IF b = Genesis THEN cache.best = NoBlock ELSE cache.best = Parent[b]
      /\ cache' = Committed(RollforwardBlock(b, View), Touched(b), b)
  BY Zenon DEF ConnectTip
<1>2. b \in Blocks /\ b \in BlockOrNone /\ UtxoOf(b) = Utxo[b] /\ Touched(b) \in SUBSET Outpoints
  <2>1. b \in Blocks
    BY WorldsAssumption, Zenon DEF Base, TypeOK, Branches
  <2> QED BY <2>1, ParentIsBlock, TxsBasics, Zenon DEF BlockOrNone, UtxoOf
<1>3. View = UtxoOf(cache.best) /\ View \in Coins /\ Shows(cache, db, UtxoOf(cache.best))
  BY <1>1, ExactFacts, ViewIsCoins, Zenon DEF Base
<1>4. /\ RollforwardBlock(b, View) = Utxo[b]
      /\ \A o \in Outpoints : o \notin Touched(b) => Utxo[b][o] = UtxoOf(cache.best)[o]
  <2>1. CASE b = Genesis
    <3>1. View = NoCoins /\ UtxoOf(cache.best) = NoCoins /\ Utxo[b] = NoCoins
      BY <1>1, <1>3, <2>1, UtxoUnfolds, Zenon DEF UtxoOf
    <3>2. Len(Txs[b]) = 0
      <4>1. Txs[b] = <<>>
        BY <2>1, TxsAssumption, Zenon
      <4> QED BY <4>1
    <3>3. RollforwardBlock(b, View) = View
      BY <1>2, <1>3, <3>2, ApplyTxsUnfolds, Zenon DEF RollforwardBlock
    <3> QED BY <3>1, <3>3, Zenon
  <2>2. CASE b # Genesis
    <3>1. b \in Blocks \ {Genesis} /\ cache.best = Parent[b] /\ Parent[b] \in Blocks /\ Parent[b] # NoBlock
      BY <1>1, <1>2, <2>2, ParentIsBlock, Zenon
    <3>2. UtxoOf(cache.best) = Utxo[Parent[b]]
      BY <3>1, Zenon DEF UtxoOf
    <3> QED BY <1>3, <3>1, <3>2, UtxoUnfolds, UntouchedStays, Zenon
  <2> QED BY <2>1, <2>2, Zenon
<1>5. /\ cache'.best = b /\ DOMAIN cache'.dirty = DOMAIN cache.dirty \cup Touched(b)
      /\ \A o \in DOMAIN cache.dirty \cup Touched(b) : cache'.dirty[o] = RollforwardBlock(b, View)[o]
  <2>1. RollforwardBlock(b, View) \in Coins
    BY <1>2, <1>3, RollforwardIsCoins, Zenon
  <2> QED BY <1>1, <1>2, <2>1, CommittedIs, ZenonT(40) DEF Base
<1>6. Shows(cache', db', UtxoOf(cache'.best))
  <2> SUFFICES ASSUME NEW o \in Outpoints
               PROVE  Utxo[b][o] = IF o \in DOMAIN cache'.dirty THEN cache'.dirty[o] ELSE db'.coin[o]
    BY <1>2, <1>5, Zenon DEF Shows
  <2>1. CASE o \in DOMAIN cache'.dirty
    BY <1>4, <1>5, <2>1, Zenon
  <2>2. CASE o \notin DOMAIN cache'.dirty
    <3>1. o \notin DOMAIN cache.dirty /\ o \notin Touched(b)
      BY <1>5, <2>2, Zenon
    <3>2. db.coin[o] = UtxoOf(cache.best)[o]
      BY <1>3, <3>1, Zenon DEF Shows
    <3> QED BY <1>1, <1>4, <2>2, <3>1, <3>2, Zenon
  <2> QED BY <2>1, <2>2, Zenon
<1>7. OnDisk' = OnDisk /\ \A d \in OnDisk : Sound(d)
  BY <1>1, SameDisk, Zenon DEF Exact
<1>8. pc' \notin {"coins", "replay", "batch"} /\ pc' \notin {"index", "unlink", "coins", "fatal"}
  BY <1>1
<1> QED BY <1>6, <1>7, <1>8, ExactNext, Zenon

\* DisconnectTip takes an exact view to an exact view.
LEMMA DisconnectExact ==
  ASSUME Base, Exact, Base', DisconnectTip
  PROVE  Exact'
<1>1. PICK b : b = cache.best
  BY Zenon
<1>2. /\ pc = "run" /\ UNCHANGED <<db, past, pc, world>> /\ b \notin {NoBlock, Genesis}
      /\ cache' = Committed(DisconnectBlock(b, View), Touched(b), Parent[b])
  BY <1>1, Zenon DEF DisconnectTip
<1>3. /\ b \in Blocks \ {Genesis} /\ Parent[b] \in BlockOrNone /\ UtxoOf(Parent[b]) = Utxo[Parent[b]]
      /\ UtxoOf(b) = Utxo[b] /\ Touched(b) \in SUBSET Outpoints
  <2>1. b \in Blocks \ {Genesis}
    BY <1>1, <1>2, CacheFacts, Zenon DEF Base, BlockOrNone
  <2> QED BY <1>2, <2>1, ParentIsBlock, TxsBasics, Zenon DEF BlockOrNone, UtxoOf
<1>4. View = Utxo[b] /\ View \in Coins /\ Shows(cache, db, Utxo[b])
  BY <1>1, <1>2, <1>3, ExactFacts, ViewIsCoins, Zenon DEF Base
<1>5. \A o \in Outpoints : DisconnectBlock(b, View)[o] = Utxo[Parent[b]][o]
  <2>1. /\ \A o \in Touched(b) : DisconnectBlock(b, View)[o] = Utxo[Parent[b]][o]
        /\ \A o \in Outpoints \ Touched(b) : DisconnectBlock(b, View)[o] = View[o]
    BY <1>3, <1>4, DisconnectResult, Zenon
  <2> QED BY <1>3, <1>4, <2>1, UntouchedStays, Zenon
<1>6. /\ cache'.best = Parent[b] /\ DOMAIN cache'.dirty = DOMAIN cache.dirty \cup Touched(b)
      /\ \A o \in DOMAIN cache.dirty \cup Touched(b) : cache'.dirty[o] = DisconnectBlock(b, View)[o]
  <2>1. PICK v \in Coins : v = DisconnectBlock(b, View)
    BY <1>3, <1>4, DisconnectResult, Zenon
  <2>2. PICK p \in BlockOrNone : p = Parent[b]
    BY <1>3, Zenon
  <2>3. PICK c : c = Committed(v, Touched(b), p)
    BY Zenon
  <2>4. /\ c.best = p /\ DOMAIN c.dirty = DOMAIN cache.dirty \cup Touched(b)
        /\ \A o \in DOMAIN cache.dirty \cup Touched(b) : c.dirty[o] = v[o]
    <3>1. PICK T \in SUBSET Outpoints : T = Touched(b)
      BY <1>3, Zenon
    <3>2. TypeOK /\ c = Committed(v, T, p)
      BY <2>3, <3>1, Zenon DEF Base
    <3>3. /\ c.best = p /\ DOMAIN c.dirty = DOMAIN cache.dirty \cup T
          /\ \A o \in DOMAIN cache.dirty \cup T : c.dirty[o] = v[o]
      BY <3>2, CommittedIs, ZenonT(40)
    <3> QED BY <3>1, <3>3, Zenon
  <2>5. cache' = c
    BY <1>2, <2>1, <2>2, <2>3, Zenon
  <2> QED BY <2>1, <2>2, <2>4, <2>5, Zenon
<1>7. Shows(cache', db', UtxoOf(cache'.best))
  <2> SUFFICES ASSUME NEW o \in Outpoints
               PROVE  Utxo[Parent[b]][o] = IF o \in DOMAIN cache'.dirty THEN cache'.dirty[o] ELSE db'.coin[o]
    BY <1>3, <1>6, Zenon DEF Shows
  <2>1. CASE o \in DOMAIN cache'.dirty
    BY <1>5, <1>6, <2>1, Zenon
  <2>2. CASE o \notin DOMAIN cache'.dirty
    <3>1. o \notin DOMAIN cache.dirty /\ o \notin Touched(b)
      BY <1>6, <2>2, Zenon
    <3>2. db.coin[o] = Utxo[b][o]
      BY <1>4, <3>1, Zenon DEF Shows
    <3> QED BY <1>2, <1>3, <2>2, <3>1, <3>2, UntouchedStays, Zenon
  <2> QED BY <2>1, <2>2, Zenon
<1>8. OnDisk' = OnDisk /\ \A d \in OnDisk : Sound(d)
  BY <1>2, SameDisk, Zenon DEF Exact
<1>9. pc' \notin {"coins", "replay", "batch"} /\ pc' \notin {"index", "unlink", "coins", "fatal"}
  BY <1>2
<1> QED BY <1>7, <1>8, <1>9, ExactNext, Zenon

\* A batch that is not the last leaves each coin at the old or the new value, and what is left to write the same.
LEMMA PartialExact ==
  ASSUME Base, Exact, Base', NEW S \in SUBSET Outpoints, PartialBatch(S)
  PROVE  Exact'
<1>1. /\ Writing /\ S \subseteq fl.todo /\ fl' = [fl EXCEPT !.todo = @ \ S]
      /\ cache' = [cache EXCEPT !.dirty = Passed(S)] /\ pc' = "batch" /\ UNCHANGED <<store, crashes, world>>
      /\ WriteBatch([coin |-> Written(S), best |-> NoBlock, heads |-> IF pc = "batch" THEN db.heads ELSE Heads])
  BY Zenon DEF PartialBatch
<1>2. PICK t \in BlockOrNone :
        /\ (IF pc = "batch" THEN db.heads ELSE Heads) = <<cache.best, t>>
        /\ [coin |-> Written(S), best |-> NoBlock, heads |-> <<cache.best, t>>] \in Database
        /\ IF db.heads = <<>> THEN t = db.best ELSE t = db.heads[2]
  BY <1>1, BatchTyped, Zenon
<1>3. PICK new \in Database : new = [coin |-> Written(S), best |-> NoBlock, heads |-> <<cache.best, t>>]
  BY <1>2, Zenon
<1>4. new.coin = Written(S) /\ new.heads # <<>> /\ new.heads[1] = cache.best /\ new.heads[2] = t
  BY <1>3
<1>5. db' = new /\ OnDisk' \subseteq OnDisk \cup {new}
  <2>1. WriteBatch(new)
    BY <1>1, <1>2, <1>3, Zenon
  <2> QED BY <1>1, <2>1, WriteBatchKeeps, Zenon DEF Base
<1>6. PICK u : u = UtxoOf(cache.best) /\ Becomes(fl.todo, cache, db, u)
  BY <1>1, ExactFacts, Zenon
<1>7. /\ fl.todo \subseteq DOMAIN cache.dirty /\ (db.heads # <<>> => db.heads[1] = cache.best) /\ Sound(db)
  <2>1. db \in OnDisk
    BY OnDiskTyped, Zenon DEF Base
  <2> QED BY <1>1, <2>1 DEF Base, Transition, Writing, Exact
<1>8. \A o \in Outpoints : Written(S)[o] = IF o \in S THEN cache.dirty[o] ELSE db.coin[o]
  BY Zenon DEF Written
<1>9. Sound(new)
  <2> SUFFICES ASSUME NEW o \in Outpoints PROVE Written(S)[o] \in {u[o], UtxoOf(t)[o]}
    BY <1>4, <1>6, Zenon DEF Sound
  <2>1. CASE o \in S
    <3>1. o \in fl.todo
      BY <1>1, <2>1, Zenon
    <3>2. u[o] = cache.dirty[o]
      BY <1>6, <3>1, Zenon DEF Becomes
    <3> QED BY <1>8, <2>1, <3>2, Zenon
  <2>2. CASE o \notin S
    <3>1. Written(S)[o] = db.coin[o]
      BY <1>8, <2>2, Zenon
    <3>2. CASE db.heads = <<>>
      BY <1>2, <1>7, <3>1, <3>2, Zenon DEF Sound
    <3>3. CASE db.heads # <<>>
      <4>1. db.coin[o] \in {UtxoOf(db.heads[1])[o], UtxoOf(db.heads[2])[o]}
        BY <1>7, <3>3, Zenon DEF Sound
      <4> QED BY <1>2, <1>6, <1>7, <3>1, <3>3, <4>1, Zenon
    <3> QED BY <3>2, <3>3, Zenon
  <2> QED BY <2>1, <2>2, Zenon
<1>10. /\ cache'.best = cache.best /\ fl'.todo = fl.todo \ S /\ cache'.dirty = Passed(S)
       /\ \A o \in fl.todo \ S : cache'.dirty[o] = cache.dirty[o]
  <2>1. cache'.best = cache.best /\ cache'.dirty = Passed(S)
    BY <1>1, PassedIs, Zenon DEF Base
  <2>2. \A o \in fl.todo \ S : Passed(S)[o] = cache.dirty[o]
    BY <1>7, PassedIs, Zenon DEF Base
  <2>3. fl.todo \ S \in SUBSET Outpoints /\ fl' = [fl EXCEPT !.todo = fl.todo \ S]
    BY <1>1, LocalsFacts, Zenon DEF Base
  <2>4. fl'.todo = fl.todo \ S
    BY <2>3, LocalsFacts, Zenon DEF Base
  <2> QED BY <2>1, <2>2, <2>4, Zenon
<1>11. Becomes(fl'.todo, cache', db', u)
  <2> SUFFICES ASSUME NEW o \in Outpoints
               PROVE  u[o] = IF o \in fl'.todo THEN cache'.dirty[o] ELSE db'.coin[o]
    BY Zenon DEF Becomes
  <2>1. u[o] = IF o \in fl.todo THEN cache.dirty[o] ELSE db.coin[o]
    BY <1>6, Zenon DEF Becomes
  <2>2. CASE o \in fl'.todo
    BY <1>10, <2>1, <2>2, Zenon
  <2>3. CASE o \notin fl'.todo
    <3>1. db'.coin[o] = IF o \in S THEN cache.dirty[o] ELSE db.coin[o]
      BY <1>4, <1>5, <1>8, Zenon
    <3>2. o \in fl.todo <=> o \in S
      BY <1>1, <1>10, <2>3, Zenon
    <3> QED BY <2>1, <2>3, <3>1, <3>2, Zenon
  <2> QED BY <2>2, <2>3, Zenon
<1>12. \A d \in OnDisk' : Sound(d)
  BY <1>5, <1>9, Zenon DEF Exact
<1>13. pc' \notin {"run", "index", "unlink", "coins", "fatal"} /\ pc' \notin {"index", "unlink", "coins", "fatal"}
  BY <1>1
<1>14. Becomes(fl'.todo, cache', db', UtxoOf(cache'.best))
  BY <1>6, <1>10, <1>11, Zenon
<1> QED BY <1>12, <1>13, <1>14, ExactNext, Zenon

\* The last batch makes the database exact.
LEMMA FinalExact ==
  ASSUME Base, Exact, Base', FinalBatch
  PROVE  Exact'
<1>1. /\ Writing /\ fl' = NoFlush /\ pc' = fl.then /\ UNCHANGED <<store, crashes, world>>
      /\ cache' = IF fl.then = "off" THEN NoCache ELSE [NoCache EXCEPT !.best = cache.best]
      /\ WriteBatch([coin |-> Written(fl.todo), best |-> cache.best, heads |-> <<>>])
  BY Zenon DEF FinalBatch
<1>2. PICK new \in Database : new = [coin |-> Written(fl.todo), best |-> cache.best, heads |-> <<>>]
  BY <1>1, BatchTyped, Zenon
<1>3. new.heads = <<>> /\ new.best = cache.best /\ new.coin = Written(fl.todo)
  BY <1>2
<1>4. db' = new /\ OnDisk' \subseteq OnDisk \cup {new}
  BY <1>1, <1>2, WriteBatchKeeps, Zenon DEF Base
<1>5. new.coin = UtxoOf(cache.best) /\ cache.best \in BlockOrNone
  BY <1>1, <1>3, ExactFacts, Zenon
<1>6. \A d \in OnDisk' : Sound(d)
  <2>1. Sound(new)
    BY <1>3, <1>5, Zenon DEF Sound
  <2> QED BY <1>4, <2>1, Zenon DEF Exact
<1>7. pc' \in {"run", "off", "start"} /\ (pc' = "run" => fl.then # "off")
  BY <1>1, LocalsFacts DEF Base
<1>8. pc' = "run" => Shows(cache', db', UtxoOf(cache'.best))
  <2> SUFFICES ASSUME pc' = "run" PROVE Shows(cache', db', UtxoOf(cache'.best))
    BY Zenon
  <2>1. cache'.best = cache.best /\ DOMAIN cache'.dirty = {}
    BY <1>1, <1>5, <1>7, NoCacheTyped, Zenon
  <2> QED BY <1>4, <1>5, <2>1, Zenon DEF Shows
<1>9. /\ pc' \notin {"coins", "replay", "batch"} /\ pc' \notin {"index", "unlink", "coins", "fatal"}
      /\ pc' \in {"run", "index", "unlink", "coins", "fatal"} => pc' = "run"
  BY <1>7
<1> QED BY <1>6, <1>8, <1>9, ExactNext, Zenon

\* A crash brings back a sound database.
LEMMA CrashExact ==
  ASSUME Base, Exact, Base', Crash
  PROVE  Exact'
<1>1. pc' = "off" /\ OnDisk' \subseteq OnDisk
  BY CrashBase, Zenon DEF Crash
<1>2. \A d \in OnDisk' : Sound(d)
  BY <1>1, Zenon DEF Exact
<1>3. /\ pc' \notin {"coins", "replay", "batch"} /\ pc' \notin {"index", "unlink", "coins", "fatal"}
      /\ pc' \notin {"run", "index", "unlink", "coins", "fatal"}
  BY <1>1
<1> QED BY <1>2, <1>3, ExactNext, Zenon

\* A start loads an exact database, or replays a mix of two tips to an exact view.
LEMMA StartExact ==
  ASSUME Base, Exact, Base', Start
  PROVE  Exact'
<1>1. OnDisk' = OnDisk /\ db' = db /\ db \in OnDisk /\ \A d \in OnDisk : Sound(d)
  BY StartCases, SameDisk, OnDiskTyped, Zenon DEF Base, Exact
<1>2. pc' \in {"refused", "run", "replay"}
  BY StartCases, Zenon
<1>3. ASSUME pc' = "run" PROVE Shows(cache', db', UtxoOf(cache'.best))
  <2>1. "run" # "refused" /\ "run" # "replay"
    OBVIOUS
  <2>2. db.heads = <<>> /\ cache' = [NoCache EXCEPT !.best = db.best]
    BY <1>3, <2>1, StartCases, Zenon
  <2>3. db.best \in BlockOrNone
    BY OnDiskTyped, DatabaseFacts, Zenon DEF Base
  <2>4. cache'.best = db.best /\ DOMAIN cache'.dirty = {}
    BY <2>2, <2>3, NoCacheTyped, Zenon
  <2>5. db.coin = UtxoOf(db.best)
    BY <1>1, <2>2, Zenon DEF Sound
  <2> QED BY <1>1, <2>4, <2>5, Zenon DEF Shows
<1>4. ASSUME pc' = "replay" PROVE Becomes(fl'.todo, cache', db', UtxoOf(cache'.best))
  <2>1. "replay" # "refused" /\ "run" # "replay"
    OBVIOUS
  <2>2. /\ db.heads # <<>> /\ cache'.best = db.heads[1] /\ fl'.todo = ReplayTouched
        /\ \A o \in ReplayTouched : cache'.dirty[o] = Replayed[o]
    BY <1>4, <2>1, StartCases, Zenon
  <2>3. /\ Interrupted
        /\ \A o : o \in ReplayTouched <=> \E b \in Back \cup Forward : o \in Touched(b)
    BY <2>2, InterruptedIs, Zenon
  <2>4. \A o \in Outpoints : db.coin[o] \in {UtxoOf(db.heads[1])[o], UtxoOf(db.heads[2])[o]}
    BY <1>1, <2>2, Zenon DEF Sound
  <2>5. PICK u : u = Utxo[db.heads[1]] /\ u = UtxoOf(cache'.best)
    BY <2>2, <2>3, ParentIsBlock, Zenon DEF Interrupted, UtxoOf
  <2>6. \A o \in Outpoints :
          /\ Replayed[o] = u[o]
          /\ (\A b \in Back \cup Forward : o \notin Touched(b)) => db.coin[o] = u[o]
    BY <2>3, <2>4, <2>5, ReplayResult, Zenon
  <2>7. Becomes(fl'.todo, cache', db', u)
    BY <1>1, <2>2, <2>3, <2>6, Zenon DEF Becomes
  <2> QED BY <2>5, <2>7, Zenon
<1>5. /\ pc' \in {"coins", "replay", "batch"} => pc' = "replay"
      /\ pc' \notin {"index", "unlink", "coins", "fatal"}
      /\ pc' \in {"run", "index", "unlink", "coins", "fatal"} => pc' = "run"
  BY <1>2
<1> QED BY <1>1, <1>3, <1>4, <1>5, ExactNext, Zenon

\* A new data directory is exact.
LEMMA InitExact ==
  ASSUME Init
  PROVE  Exact
<1>1. OnDisk = {db} /\ db.heads = <<>> /\ db.best = NoBlock /\ db.coin = NoCoins
  BY InitBase, Zenon
<1>2. Sound(db)
  BY <1>1, Zenon DEF Sound, UtxoOf
<1>3. pc = "run" /\ cache.best = NoBlock /\ DOMAIN cache.dirty = {}
  BY NoCacheTyped, Zenon DEF Init, BlockOrNone
<1>4. View = [o \in Outpoints |-> Spent]
  <2>1. \A o \in Outpoints : db.coin[o] = Spent
    BY <1>1, Zenon DEF NoCoins
  <2> QED BY <1>3, <2>1, Zenon DEF View
<1>5. View = UtxoOf(cache.best)
  BY <1>3, <1>4, Zenon DEF UtxoOf, NoCoins
<1>6. ~Writing
  BY <1>3 DEF Writing
<1> QED BY <1>1, <1>2, <1>3, <1>5, <1>6 DEF Exact

-----------------------------------------------------------------------------
(* The blocks, while nothing is pruned *)

\* What is below a connected block can be undone and applied.
LEMMA PathConnected ==
  ASSUME NEW i, Complete(i), NEW b \in Blocks, Connected(i, b)
  PROVE  \A h \in 1 .. Height[b] : GetAncestor(b, h) \in i.undo /\ GetAncestor(b, h) \in i.have
<1> DEFINE S == {h \in 1 .. Height[b] : GetAncestor(b, h) \notin i.undo}
<1>1. Height[b] \in Nat
  BY PathBasics, Zenon
<1>2. S = {}
  <2> SUFFICES ASSUME S # {} PROVE FALSE
    BY Zenon
  <2>1. S \in SUBSET Nat /\ \A m \in S : m <= Height[b]
    BY <1>1
  <2>2. PICK n \in S : \A m \in S : m <= n
    <3> HIDE DEF S
    <3> QED BY <1>1, <2>1, GreatestNat, Zenon
  <2>3. /\ n \in 1 .. Height[b] /\ GetAncestor(b, n) \notin i.undo /\ GetAncestor(b, n) # Genesis
    BY <2>2, PathBasics, Zenon
  <2>4. n # Height[b]
    BY <2>3, PathBasics, ZenonT(40) DEF Connected
  <2>5. n + 1 \in 1 .. Height[b] /\ ~(n + 1 <= n) /\ n + 1 - 1 = n
    BY <1>1, <2>3, <2>4
  <2>6. n + 1 \notin S
    <3> HIDE DEF S
    <3> QED BY <2>2, <2>5, Zenon
  <2>7. GetAncestor(b, n + 1) \in i.undo
    BY <2>5, <2>6, Zenon
  <2>8. Parent[GetAncestor(b, n + 1)] = GetAncestor(b, n)
    <3>1. \A h \in 1 .. Height[b] : Parent[GetAncestor(b, h)] = GetAncestor(b, h - 1)
      BY PathBasics, Zenon
    <3> QED BY <2>5, <3>1
  <2>9. Connected(i, GetAncestor(b, n))
    BY <2>7, <2>8, Zenon DEF Complete
  <2> QED BY <2>3, <2>9, Zenon DEF Connected
<1>3. i.undo \subseteq i.have
  BY Zenon DEF Complete
<1> QED BY <1>2, <1>3, Zenon

\* A larger index holds what a smaller one holds.
LEMMA ConnectedGrows ==
  \A i, j : i.known \subseteq j.known /\ i.undo \subseteq j.undo =>
    /\ \A b : Connected(i, b) => Connected(j, b)
    /\ \A b : Held(i, b) => Held(j, b)
    /\ \A d : Named(i, d) => Named(j, d)
BY Zenon DEF Connected, Held, Named

\* The tips that a database names, one by one
LEMMA NamedIs ==
  ASSUME NEW i, NEW d
  PROVE  /\ d.heads = <<>> => (Named(i, d) <=> Held(i, d.best))
         /\ \A x, t : d.heads = <<x, t>> =>
              (Named(i, d) <=> Held(i, d.best) /\ Held(i, x) /\ Held(i, t))
<1>1. Range(<<>>) = {}
  BY DEF Range
<1>2. \A x, t : Range(<<x, t>>) = {x, t}
  <2> SUFFICES ASSUME NEW x, NEW t PROVE Range(<<x, t>>) = {x, t}
    BY Zenon
  <2>1. DOMAIN <<x, t>> = {1, 2} /\ <<x, t>>[1] = x /\ <<x, t>>[2] = t
    OBVIOUS
  <2> QED BY <2>1, Zenon DEF Range
<1>3. d.heads = <<>> => (Named(i, d) <=> Held(i, d.best))
  <2> SUFFICES ASSUME d.heads = <<>> PROVE Named(i, d) <=> Held(i, d.best)
    BY Zenon
  <2>1. {d.best} \cup Range(d.heads) = {d.best}
    BY <1>1, Zenon
  <2> QED BY <2>1, Zenon DEF Named
<1>4. ASSUME NEW x, NEW t, d.heads = <<x, t>>
      PROVE  Named(i, d) <=> Held(i, d.best) /\ Held(i, x) /\ Held(i, t)
  <2>1. {d.best} \cup Range(d.heads) = {d.best, x, t}
    <3>1. Range(d.heads) = {x, t}
      BY <1>2, <1>4, Zenon
    <3> QED BY <3>1, Zenon
  <2> QED BY <2>1, Zenon DEF Named
<1> QED BY <1>3, <1>4, Zenon

\* The facts of the next state that give the invariant
LEMMA ReadableNext ==
  ASSUME pc' # "refused", fl'.prune = {}, Complete(index'), Complete(diskIndex'),
         index'.have \subseteq files', Genesis \in index'.known,
         diskIndex'.have \subseteq index'.have, diskIndex'.undo \subseteq index'.undo,
         \A d \in OnDisk' : Named(diskIndex', d),
         pc' \notin {"off", "start"} => Held(index', cache'.best),
         pc' \in {"unlink", "coins", "replay", "batch"} => Held(diskIndex', cache'.best)
  PROVE  Readable'
BY Zenon DEF Readable, Complete, Connected, Held, Named

\* The index on disk is part of the one in memory.
LEMMA ReadableFacts ==
  ASSUME Readable
  PROVE  /\ \A b : Connected(diskIndex, b) => Connected(index, b)
         /\ \A b : Held(diskIndex, b) => Held(index, b)
         /\ \A d \in OnDisk : Named(diskIndex, d) /\ Named(index, d)
         /\ diskIndex.known \subseteq index.known
<1>1. diskIndex.known \subseteq index.known /\ diskIndex.undo \subseteq index.undo
  BY Zenon DEF Readable, Complete
<1> QED BY <1>1, ConnectedGrows, Zenon DEF Readable

\* A step that leaves the index and the files alone
LEMMA SameStore ==
  ASSUME Readable, UNCHANGED store, pc' # "refused", fl'.prune = {},
         \A d \in OnDisk' : Named(diskIndex, d),
         pc' \notin {"off", "start"} => Held(index, cache'.best),
         pc' \in {"unlink", "coins", "replay", "batch"} => Held(diskIndex, cache'.best)
  PROVE  Readable'
<1>1. index' = index /\ diskIndex' = diskIndex /\ files' = files
  BY Zenon DEF store
<1>2. /\ Complete(index) /\ Complete(diskIndex) /\ index.have \subseteq files /\ Genesis \in index.known
      /\ diskIndex.have \subseteq index.have /\ diskIndex.undo \subseteq index.undo
  BY Zenon DEF Readable
<1> QED BY <1>1, <1>2, ReadableNext, Zenon

\* AcceptBlock keeps the blocks readable.
LEMMA ReceiveReadable ==
  ASSUME Base, Readable, NEW b \in Branches, ReceiveBlock(b)
  PROVE  Readable'
<1>1. /\ pc = "run" /\ b # Genesis /\ files' = files \cup {b}
      /\ index' = [index EXCEPT !.known = @ \cup {b}, !.have = @ \cup {b}]
      /\ UNCHANGED <<diskIndex, db, past, cache, pc, fl, world>>
  BY Zenon DEF ReceiveBlock
<1>2. index'.known = index.known \cup {b} /\ index'.have = index.have \cup {b} /\ index'.undo = index.undo
  <2>1. index = [known |-> index.known, have |-> index.have, undo |-> index.undo]
    BY IndexFacts, Zenon DEF Base
  <2> QED BY <1>1, <2>1
<1>3. \A x : Connected(index, x) => Connected(index', x)
  BY <1>2, ConnectedGrows, Zenon
<1>4. Complete(index')
  <2>1. /\ index.undo \subseteq index.have /\ index.known = index.have /\ Genesis \notin index.undo
        /\ Genesis \in index.known /\ \A x \in index.undo : Connected(index, Parent[x])
    BY Zenon DEF Readable, Complete
  <2> QED BY <1>2, <1>3, <2>1, Zenon DEF Complete
<1>5. OnDisk' = OnDisk
  BY <1>1, SameDisk, Zenon
<1>6. /\ Complete(diskIndex) /\ index'.have \subseteq files' /\ Genesis \in index'.known /\ fl.prune = {}
      /\ diskIndex.have \subseteq index'.have /\ diskIndex.undo \subseteq index'.undo
      /\ \A d \in OnDisk : Named(diskIndex, d)
  BY <1>1, <1>2, Zenon DEF Readable
<1>7. Held(index', cache.best)
  <2>1. pc \notin {"off", "start"}
    BY <1>1
  <2> QED BY <1>3, <2>1, Zenon DEF Readable, Held
<1>8. pc' # "refused" /\ pc' \notin {"unlink", "coins", "replay", "batch"}
  BY <1>1
<1> QED BY <1>1, <1>4, <1>5, <1>6, <1>7, <1>8, ReadableNext, Zenon

\* ConnectTip keeps them readable: it writes undo data for the block on a connected parent.
LEMMA ConnectReadable ==
  ASSUME Base, Readable, NEW b \in Branches, ConnectTip(b)
  PROVE  Readable'
<1>1. /\ pc = "run" /\ b \in index.have
      /\ IF b = Genesis THEN cache.best = NoBlock ELSE cache.best = Parent[b]
      /\ cache' = Committed(RollforwardBlock(b, View), Touched(b), b)
      /\ index' = [index EXCEPT !.undo = @ \cup ({b} \ {Genesis})]
      /\ UNCHANGED <<diskIndex, files, db, past, pc, fl, crashes, world>>
  BY Zenon DEF ConnectTip
<1>2. index'.known = index.known /\ index'.have = index.have /\ index'.undo = index.undo \cup ({b} \ {Genesis})
  <2>1. index = [known |-> index.known, have |-> index.have, undo |-> index.undo]
    BY IndexFacts, Zenon DEF Base
  <2> QED BY <1>1, <2>1
<1>3. \A x : Connected(index, x) => Connected(index', x)
  BY <1>2, ConnectedGrows, Zenon
<1>4. cache'.best = b
  BY <1>1 DEF Committed
<1>5. b # Genesis => Connected(index', Parent[b])
  <2>1. pc \notin {"off", "start"}
    BY <1>1
  <2>2. b \in Blocks
    BY WorldsAssumption, Zenon DEF Base, TypeOK, Branches
  <2>3. b # Genesis => cache.best # NoBlock /\ cache.best = Parent[b]
    BY <1>1, <2>2, ParentIsBlock, Zenon
  <2> QED BY <1>3, <2>1, <2>3, Zenon DEF Readable, Held
<1>6. Complete(index')
  <2>1. /\ index.undo \subseteq index.have /\ index.known = index.have /\ Genesis \notin index.undo
        /\ Genesis \in index.known /\ \A x \in index.undo : Connected(index, Parent[x])
    BY Zenon DEF Readable, Complete
  <2> QED BY <1>1, <1>2, <1>3, <1>5, <2>1, Zenon DEF Complete
<1>7. Connected(index', b) /\ Held(index', b)
  BY <1>1, <1>2, Zenon DEF Connected, Held, Readable, Complete
<1>8. OnDisk' = OnDisk
  BY <1>1, SameDisk, Zenon
<1>9. /\ Complete(diskIndex) /\ index'.have \subseteq files /\ Genesis \in index'.known /\ fl.prune = {}
      /\ diskIndex.have \subseteq index'.have /\ diskIndex.undo \subseteq index'.undo
      /\ \A d \in OnDisk : Named(diskIndex, d)
  BY <1>2, Zenon DEF Readable
<1>10. pc' # "refused" /\ pc' \notin {"unlink", "coins", "replay", "batch"}
  BY <1>1
<1> QED BY <1>1, <1>4, <1>6, <1>7, <1>8, <1>9, <1>10, ReadableNext, Zenon

\* DisconnectTip keeps them readable: the parent of a connected block is connected.
LEMMA DisconnectReadable ==
  ASSUME Base, Readable, DisconnectTip
  PROVE  Readable'
<1>1. PICK b : b = cache.best
  BY Zenon
<1>2. /\ pc = "run" /\ UNCHANGED <<store, db, past, pc, fl, crashes, world>> /\ b \notin {NoBlock, Genesis}
      /\ cache' = Committed(DisconnectBlock(b, View), Touched(b), Parent[b])
  BY <1>1, Zenon DEF DisconnectTip
<1>3. Connected(index, b)
  <2>1. pc \notin {"off", "start"}
    BY <1>2
  <2> QED BY <1>1, <1>2, <2>1, Zenon DEF Readable, Held
<1>4. Held(index, Parent[b])
  BY <1>2, <1>3, Zenon DEF Connected, Held, Readable, Complete
<1>5. cache'.best = Parent[b]
  BY <1>2 DEF Committed
<1>6. pc' # "refused" /\ pc' \notin {"unlink", "coins", "replay", "batch"}
  BY <1>2
<1>7. OnDisk' = OnDisk /\ fl'.prune = {} /\ \A d \in OnDisk : Named(diskIndex, d)
  BY <1>2, SameDisk, Zenon DEF Readable
<1> QED BY <1>2, <1>4, <1>5, <1>6, <1>7, SameStore, Zenon

\* The beginning of a flush keeps them readable: there is nothing to prune.
LEMMA StartFlushReadable ==
  ASSUME Base, Readable, ~Pruning, NEW erase \in BOOLEAN, NEW prune, NEW then \in {"run", "off"},
         pc \in {"run", "fatal"}, StartFlush(erase, prune, then)
  PROVE  Readable'
<1>1. /\ UNCHANGED <<diskIndex, files, db, past, cache, crashes, world>> /\ pc' = "index"
      /\ prune \subseteq Prunable /\ fl' = [erase |-> erase, prune |-> prune, todo |-> {}, then |-> then]
      /\ index' = [index EXCEPT !.have = @ \ prune, !.undo = @ \ prune]
  BY Zenon DEF StartFlush
<1>2. prune = {}
  BY <1>1, Zenon DEF Prunable
<1>3. index' = index
  <2>1. index = [known |-> index.known, have |-> index.have, undo |-> index.undo]
    BY IndexFacts, Zenon DEF Base
  <2>2. index.have \ prune = index.have /\ index.undo \ prune = index.undo
    BY <1>2, Zenon
  <2>3. index' = [known |-> index.known, have |-> index.have \ prune, undo |-> index.undo \ prune]
    BY <1>1, <2>1, Zenon
  <2> QED BY <2>1, <2>2, <2>3, Zenon
<1>4. UNCHANGED store
  BY <1>1, <1>3, Zenon DEF store
<1>5. fl'.prune = {}
  BY <1>1, <1>2
<1>6. OnDisk' = OnDisk /\ \A d \in OnDisk : Named(diskIndex, d)
  BY <1>1, SameDisk, Zenon DEF Readable
<1>7. Held(index, cache.best)
  <2>1. pc \notin {"off", "start"}
    OBVIOUS
  <2> QED BY <2>1, Zenon DEF Readable
<1>8. pc' # "refused" /\ pc' \notin {"unlink", "coins", "replay", "batch"}
  BY <1>1
<1> QED BY <1>1, <1>4, <1>5, <1>6, <1>7, <1>8, SameStore, Zenon

\* The index is written before the coins, so the tip is on disk when they name it.
LEMMA WriteIndexReadable ==
  ASSUME Base, Readable, WriteBlockIndexDB
  PROVE  Readable'
<1>1. /\ pc = "index" /\ diskIndex' = index /\ UNCHANGED <<index, files, db, past, cache, crashes, world>>
      /\ fl.prune = {} /\ ToCoins
  BY Zenon DEF WriteBlockIndexDB, Readable
<1>2. pc' \in {"run", "off", "coins"} /\ fl'.prune = {}
  BY <1>1, ToCoinsBase, Zenon
<1>3. OnDisk' = OnDisk /\ \A d \in OnDisk : Named(index, d)
  BY <1>1, SameDisk, ReadableFacts, Zenon
<1>4. Held(index, cache.best)
  <2>1. pc \notin {"off", "start"}
    BY <1>1
  <2> QED BY <2>1, Zenon DEF Readable
<1>5. Complete(index) /\ index.have \subseteq files /\ Genesis \in index.known
  BY Zenon DEF Readable
<1>6. pc' # "refused"
  BY <1>2
<1>7. index.have \subseteq index.have /\ index.undo \subseteq index.undo
  BY Zenon
<1> QED BY <1>1, <1>2, <1>3, <1>4, <1>5, <1>6, <1>7, ReadableNext, Zenon

\* Nothing is removed.
LEMMA UnlinkReadable ==
  ASSUME Base, Readable, UnlinkPrunedFiles
  PROVE  Readable'
<1>1. /\ pc = "unlink" /\ files' = files \ fl.prune /\ UNCHANGED <<index, diskIndex, db, past, cache, crashes, world>>
      /\ fl.prune = {} /\ ToCoins
  BY Zenon DEF UnlinkPrunedFiles, Readable
<1>2. pc' \in {"run", "off", "coins"} /\ fl'.prune = {}
  BY <1>1, ToCoinsBase, Zenon
<1>3. files' = files
  BY <1>1, Zenon
<1>4. UNCHANGED store
  BY <1>1, <1>3, Zenon DEF store
<1>5. OnDisk' = OnDisk /\ \A d \in OnDisk : Named(diskIndex, d)
  BY <1>1, SameDisk, Zenon DEF Readable
<1>6. Held(diskIndex, cache.best)
  BY <1>1 DEF Readable
<1>7. Held(index, cache.best)
  BY <1>6, ReadableFacts, Zenon
<1>8. pc' # "refused"
  BY <1>2
<1> QED BY <1>1, <1>2, <1>4, <1>5, <1>6, <1>7, <1>8, SameStore, Zenon

\* A full disk keeps the blocks readable.
LEMMA LowDiskReadable ==
  ASSUME Base, Readable, DiskSpaceTooLow
  PROVE  Readable'
<1>1. /\ pc \in {"index", "coins"} /\ pc' = "fatal" /\ fl' = NoFlush
      /\ UNCHANGED <<store, db, past, cache, crashes, world>>
  BY Zenon DEF DiskSpaceTooLow
<1>2. fl'.prune = {}
  BY <1>1, LocalsFacts, Zenon DEF Base
<1>3. OnDisk' = OnDisk /\ \A d \in OnDisk : Named(diskIndex, d)
  BY <1>1, SameDisk, Zenon DEF Readable
<1>4. Held(index, cache.best)
  <2>1. pc \notin {"off", "start"}
    BY <1>1
  <2> QED BY <2>1, Zenon DEF Readable
<1>5. pc' # "refused" /\ pc' \notin {"unlink", "coins", "replay", "batch"}
  BY <1>1
<1> QED BY <1>1, <1>2, <1>3, <1>4, <1>5, SameStore, Zenon

\* While a batch is written, the tip it goes to is in the index on disk.
LEMMA WritingReadable ==
  ASSUME Base, Readable, Writing
  PROVE  /\ Held(diskIndex, cache.best)
         /\ Held(index, cache.best)
         /\ Named(diskIndex, db)
<1>1. pc \in {"unlink", "coins", "replay", "batch"} /\ pc \notin {"off", "start"}
  BY DEF Writing
<1>2. db \in OnDisk
  BY OnDiskTyped, Zenon DEF Base
<1> QED BY <1>1, <1>2, Zenon DEF Readable

\* The tips that a batch names are in the index on disk: the new one was written before, the old one was named before.
LEMMA PartialReadable ==
  ASSUME Base, Readable, NEW S \in SUBSET Outpoints, PartialBatch(S)
  PROVE  Readable'
<1>1. /\ Writing /\ S \subseteq fl.todo /\ fl' = [fl EXCEPT !.todo = @ \ S]
      /\ cache' = [cache EXCEPT !.dirty = Passed(S)] /\ pc' = "batch" /\ UNCHANGED <<store, crashes, world>>
      /\ WriteBatch([coin |-> Written(S), best |-> NoBlock, heads |-> IF pc = "batch" THEN db.heads ELSE Heads])
  BY Zenon DEF PartialBatch
<1>2. PICK t \in BlockOrNone :
        /\ (IF pc = "batch" THEN db.heads ELSE Heads) = <<cache.best, t>>
        /\ [coin |-> Written(S), best |-> NoBlock, heads |-> <<cache.best, t>>] \in Database
        /\ IF db.heads = <<>> THEN t = db.best ELSE t = db.heads[2]
  BY <1>1, BatchTyped, Zenon
<1>3. PICK new \in Database : new = [coin |-> Written(S), best |-> NoBlock, heads |-> <<cache.best, t>>]
  BY <1>2, Zenon
<1>4. new.best = NoBlock /\ new.heads = <<cache.best, t>>
  BY <1>3
<1>5. OnDisk' \subseteq OnDisk \cup {new}
  <2>1. WriteBatch(new)
    BY <1>1, <1>2, <1>3, Zenon
  <2> QED BY <1>1, <2>1, WriteBatchKeeps, Zenon DEF Base
<1>6. Held(diskIndex, t)
  <2>1. Named(diskIndex, db) /\ db \in Database
    BY <1>1, WritingReadable, OnDiskTyped, Zenon DEF Base
  <2>2. CASE db.heads = <<>>
    BY <1>2, <2>1, <2>2, NamedIs, Zenon
  <2>3. CASE db.heads # <<>>
    <3>1. t = db.heads[2] /\ db.heads = <<db.heads[1], db.heads[2]>>
      BY <1>2, <2>1, <2>3, DatabaseFacts, Zenon
    <3>2. Held(diskIndex, db.heads[2])
      BY <2>1, <3>1, NamedIs, Zenon
    <3> QED BY <3>1, <3>2, Zenon
  <2> QED BY <2>2, <2>3, Zenon
<1>7. Named(diskIndex, new)
  <2>1. Held(diskIndex, new.best) /\ Held(diskIndex, cache.best)
    BY <1>1, <1>4, WritingReadable, Zenon DEF Held
  <2> QED BY <1>4, <1>6, <2>1, NamedIs, Zenon
<1>8. \A d \in OnDisk' : Named(diskIndex, d)
  BY <1>5, <1>7, Zenon DEF Readable
<1>9. cache'.best = cache.best
  BY <1>1, PassedIs, Zenon DEF Base
<1>10. fl'.prune = {}
  <2>1. fl.todo \ S \in SUBSET Outpoints /\ fl' = [fl EXCEPT !.todo = fl.todo \ S]
    BY <1>1, LocalsFacts, Zenon DEF Base
  <2> QED BY <2>1, LocalsFacts, Zenon DEF Base, Readable
<1>11. pc' # "refused"
  BY <1>1
<1>12. Held(diskIndex, cache'.best)
  BY <1>1, <1>9, WritingReadable, Zenon
<1>13. Held(index, cache'.best)
  BY <1>12, ReadableFacts, Zenon
<1> QED BY <1>1, <1>8, <1>10, <1>11, <1>12, <1>13, SameStore, Zenon

\* The tip that the last batch names is in the index on disk.
LEMMA FinalReadable ==
  ASSUME Base, Readable, FinalBatch
  PROVE  Readable'
<1>1. /\ Writing /\ fl' = NoFlush /\ pc' = fl.then /\ UNCHANGED <<store, crashes, world>>
      /\ cache' = IF fl.then = "off" THEN NoCache ELSE [NoCache EXCEPT !.best = cache.best]
      /\ WriteBatch([coin |-> Written(fl.todo), best |-> cache.best, heads |-> <<>>])
  BY Zenon DEF FinalBatch
<1>2. PICK new \in Database : new = [coin |-> Written(fl.todo), best |-> cache.best, heads |-> <<>>]
  BY <1>1, BatchTyped, Zenon
<1>3. new.heads = <<>> /\ new.best = cache.best
  BY <1>2
<1>4. OnDisk' \subseteq OnDisk \cup {new}
  BY <1>1, <1>2, WriteBatchKeeps, Zenon DEF Base
<1>5. Named(diskIndex, new)
  BY <1>1, <1>3, NamedIs, WritingReadable, Zenon
<1>6. \A d \in OnDisk' : Named(diskIndex, d)
  BY <1>4, <1>5, Zenon DEF Readable
<1>7. Held(index, cache'.best)
  BY <1>1, NoCacheTyped, WritingReadable, CacheFacts, Zenon DEF Base, Held
<1>8. fl'.prune = {} /\ fl.then \in {"run", "off", "start"}
  BY <1>1, LocalsFacts, Zenon DEF Base
<1>9. pc' # "refused" /\ pc' \notin {"unlink", "coins", "replay", "batch"}
  BY <1>1, <1>8
<1> QED BY <1>1, <1>6, <1>7, <1>8, <1>9, SameStore, Zenon

\* A failing write keeps the blocks readable.
LEMMA WriteFailsReadable ==
  ASSUME Base, Readable, NEW S \in SUBSET Outpoints, WriteFails(S)
  PROVE  Readable'
<1>1. /\ Writing /\ fl' = NoFlush /\ UNCHANGED <<store, db, past, crashes, world>>
      /\ cache' = IF fl.then = "start" THEN NoCache ELSE [cache EXCEPT !.dirty = Passed(S)]
      /\ pc' = IF fl.then = "start" THEN "off" ELSE "fatal"
  BY Zenon DEF WriteFails
<1>2. Held(index, cache'.best)
  <2>1. NoCache.best = NoBlock /\ [cache EXCEPT !.dirty = Passed(S)].best = cache.best
    BY NoCacheTyped, PassedIs, Zenon DEF Base, BlockOrNone
  <2> QED BY <1>1, <2>1, WritingReadable, Zenon DEF Held
<1>3. OnDisk' = OnDisk /\ \A d \in OnDisk : Named(diskIndex, d)
  BY <1>1, SameDisk, Zenon DEF Readable
<1>4. fl'.prune = {}
  BY <1>1, LocalsFacts, Zenon DEF Base
<1>5. pc' # "refused" /\ pc' \notin {"unlink", "coins", "replay", "batch"}
  BY <1>1
<1> QED BY <1>1, <1>2, <1>3, <1>4, <1>5, SameStore, Zenon

\* A crash keeps them readable.
LEMMA CrashReadable ==
  ASSUME Base, Readable, Crash
  PROVE  Readable'
<1>1. pc' = "off" /\ fl' = NoFlush /\ UNCHANGED store /\ OnDisk' \subseteq OnDisk
  BY CrashBase, Zenon DEF Crash
<1>2. \A d \in OnDisk' : Named(diskIndex, d)
  BY <1>1, Zenon DEF Readable
<1>3. fl'.prune = {}
  BY <1>1, LocalsFacts, Zenon DEF Base
<1>4. pc' # "refused" /\ pc' \notin {"unlink", "coins", "replay", "batch"} /\ pc' \in {"off", "start"}
  BY <1>1
<1> QED BY <1>1, <1>2, <1>3, <1>4, SameStore, Zenon

\* The index that a start loads
LEMMA LoadedReadable ==
  ASSUME Base, Readable
  PROVE  /\ Complete(Loaded(diskIndex)) /\ Genesis \in Loaded(diskIndex).known /\ Loaded(diskIndex).have \subseteq files
         /\ diskIndex.have \subseteq Loaded(diskIndex).have /\ diskIndex.undo \subseteq Loaded(diskIndex).undo
         /\ \A b : Connected(diskIndex, b) => Connected(Loaded(diskIndex), b)
<1>1. diskIndex \in Index
  BY Zenon DEF Base, TypeOK
<1>2. /\ Complete(diskIndex) /\ diskIndex.have \subseteq index.have /\ index.have \subseteq files /\ Genesis \in files
  BY Zenon DEF Readable, Complete
<1>3. CASE Genesis \in diskIndex.known
  <2>1. Loaded(diskIndex) = diskIndex
    BY <1>1, <1>3, LoadedIs, Zenon
  <2> QED BY <1>2, <1>3, <2>1, Zenon
<1>4. CASE Genesis \notin diskIndex.known
  <2>1. /\ Loaded(diskIndex).known = {Genesis} /\ Loaded(diskIndex).have = {Genesis} /\ Loaded(diskIndex).undo = {}
    BY <1>1, <1>4, LoadedIs, Zenon
  <2>2. diskIndex.known = {} /\ diskIndex.have = {} /\ diskIndex.undo = {}
    BY <1>2, <1>4, Zenon DEF Complete
  <2>3. Complete(Loaded(diskIndex))
    BY <2>1, Zenon DEF Complete
  <2> QED BY <1>2, <2>1, <2>2, <2>3, Zenon DEF Connected
<1> QED BY <1>3, <1>4, Zenon

\* A start finds every block that it reads.
LEMMA StartReadable ==
  ASSUME Base, Readable, Start
  PROVE  Readable'
<1>1. /\ index' = Loaded(diskIndex) /\ UNCHANGED <<diskIndex, files, db, past, crashes, world>>
      /\ pc' \in {"refused", "run", "replay"}
  BY StartCases, Zenon
<1>2. /\ Complete(index') /\ Genesis \in index'.known /\ index'.have \subseteq files
      /\ diskIndex.have \subseteq index'.have /\ diskIndex.undo \subseteq index'.undo
      /\ \A b : Connected(diskIndex, b) => Connected(index', b)
  BY <1>1, LoadedReadable, Zenon
<1>3. /\ db \in Database /\ Named(diskIndex, db) /\ OnDisk' = OnDisk /\ \A d \in OnDisk : Named(diskIndex, d)
  BY <1>1, SameDisk, OnDiskTyped, Zenon DEF Base, Readable
<1>4. /\ db.heads = <<>> => Held(diskIndex, db.best)
      /\ db.heads # <<>> => \A b \in Range(db.heads) : Held(diskIndex, b)
      /\ db.heads # <<>> => Held(diskIndex, db.heads[1]) /\ Held(diskIndex, db.heads[2])
  <2>1. db.heads = <<>> => Held(diskIndex, db.best)
    BY <1>3, NamedIs, Zenon
  <2>2. \A b \in Range(db.heads) : Held(diskIndex, b)
    BY <1>3, Zenon DEF Named
  <2>3. db.heads # <<>> => db.heads = <<db.heads[1], db.heads[2]>>
    BY <1>3, DatabaseFacts, Zenon
  <2>4. ASSUME db.heads # <<>> PROVE Held(diskIndex, db.heads[1]) /\ Held(diskIndex, db.heads[2])
    BY <1>3, <2>3, <2>4, NamedIs, Zenon
  <2> QED BY <2>1, <2>2, <2>4, Zenon
<1>5. db.heads # <<>> => CanReplay
  <2> SUFFICES ASSUME db.heads # <<>> PROVE CanReplay
    BY Zenon
  <2>1. Interrupted
    BY InterruptedIs, Zenon
  <2>2. \A b \in Range(db.heads) \ {NoBlock} : b \in index'.known
    BY <1>2, <1>4, Zenon DEF Connected, Held
  <2>3. ASSUME NEW x \in Blocks, x \in {db.heads[1], db.heads[2]}, NEW h \in 1 .. Height[x]
        PROVE  GetAncestor(x, h) \in index'.have \cap index'.undo \cap files
    <3>1. Connected(index', x)
      BY <1>2, <1>4, <2>3, ParentIsBlock, Zenon DEF Held
    <3>2. GetAncestor(x, h) \in index'.undo /\ GetAncestor(x, h) \in index'.have
      BY <1>2, <3>1, PathConnected, Zenon
    <3> QED BY <1>2, <3>2, Zenon
  <2>4. ASSUME NEW b \in Back PROVE b \in index'.have \cap index'.undo \cap files
    <3>1. PICK x \in Blocks : x = db.heads[2] /\ \E h \in 1 .. Height[x] : b = GetAncestor(x, h)
      BY <2>1, <2>4, BranchBlocks, Zenon
    <3> QED BY <2>3, <3>1, Zenon
  <2>5. ASSUME NEW b \in Forward PROVE b \in index'.have \cap index'.undo \cap files
    <3>1. PICK x \in Blocks : x = db.heads[1] /\ \E h \in 1 .. Height[x] : b = GetAncestor(x, h)
      BY <2>1, <2>5, BranchBlocks, Zenon DEF Interrupted
    <3> QED BY <2>3, <3>1, Zenon
  <2> QED BY <2>2, <2>4, <2>5, Zenon DEF CanReplay
<1>6. db.heads = <<>> => db.best \in index'.known \cup {NoBlock}
  BY <1>2, <1>4, Zenon DEF Connected, Held
<1>7. diskIndex.have \subseteq files
  BY Zenon DEF Readable
<1>8. pc' # "refused"
  <2>1. "run" # "refused" /\ "replay" # "refused"
    OBVIOUS
  <2> QED BY <1>5, <1>6, <1>7, <2>1, StartCases, Zenon
<1>9. /\ pc' = "run" => db.heads = <<>> /\ cache'.best = db.best /\ fl' = fl
      /\ pc' = "replay" => db.heads # <<>> /\ cache'.best = db.heads[1] /\ fl'.prune = {}
  <2>1. "run" # "refused" /\ "replay" # "refused" /\ "run" # "replay"
    OBVIOUS
  <2>2. db.best \in BlockOrNone
    BY <1>3, DatabaseFacts, Zenon
  <2>3. [NoCache EXCEPT !.best = db.best].best = db.best
    BY <2>2, NoCacheTyped, Zenon
  <2> QED BY <2>1, <2>3, StartCases, Zenon
<1>10. fl'.prune = {}
  BY <1>1, <1>8, <1>9, Zenon DEF Readable
<1>11. Held(diskIndex, cache'.best)
  <2>1. CASE pc' = "run"
    BY <1>4, <1>9, <2>1, Zenon
  <2>2. CASE pc' = "replay"
    BY <1>4, <1>9, <2>2, Zenon
  <2> QED BY <1>1, <1>8, <2>1, <2>2, Zenon
<1>12. Held(index', cache'.best)
  BY <1>2, <1>11, Zenon DEF Held
<1>13. diskIndex' = diskIndex /\ files' = files /\ Complete(diskIndex)
  BY <1>1, Zenon DEF Readable
<1> QED BY <1>2, <1>3, <1>8, <1>10, <1>11, <1>12, <1>13, ReadableNext, Zenon

\* A new data directory is readable.
LEMMA InitReadable ==
  ASSUME Init
  PROVE  Readable
<1>1. /\ diskIndex.known = {} /\ diskIndex.have = {} /\ diskIndex.undo = {}
      /\ index.known = {Genesis} /\ index.have = {Genesis} /\ index.undo = {}
  BY DEF Init, EmptyIndex, Loaded
<1>2. pc = "run" /\ fl.prune = {} /\ files = {Genesis}
  BY DEF Init, NoFlush
<1>3. Held(index, cache.best)
  BY NoCacheTyped, Zenon DEF Init, BlockOrNone, Held
<1>4. Complete(index) /\ Complete(diskIndex)
  BY <1>1, Zenon DEF Complete
<1>5. \A d \in OnDisk : Named(diskIndex, d)
  BY InitBase, NamedIs, Zenon DEF Held
<1>6. pc # "refused" /\ pc \notin {"unlink", "coins", "replay", "batch"}
  BY <1>2
<1> QED BY <1>1, <1>2, <1>3, <1>4, <1>5, <1>6, Zenon DEF Readable

-----------------------------------------------------------------------------
(* The theorems *)

\* The invariant holds at first.
LEMMA InitInv ==
  ASSUME Init
  PROVE  IInv
BY InitBase, InitExact, InitReadable, Zenon DEF IInv, Base

\* The steps that leave CoinsTip and the databases alone
LEMMA QuietExact ==
  ASSUME Base, Exact, Base', UNCHANGED <<db, past, cache, world>>,
         \/ pc = "run" /\ pc' = pc
         \/ pc \in {"run", "fatal"} /\ pc' = "index"
         \/ pc = "index" /\ pc' = "unlink"
         \/ pc \in {"index", "unlink"} /\ ToCoins
         \/ pc \in {"index", "coins"} /\ pc' = "fatal"
  PROVE  Exact'
<1>1. ASSUME pc \in {"index", "unlink"}, ToCoins
      PROVE  pc' \in {"run", "off", "coins"} /\ fl'.todo = DOMAIN cache.dirty
  BY <1>1, ToCoinsBase, Zenon
<1>2. /\ pc \in {"run", "index", "unlink", "coins", "fatal"}
      /\ pc' \in {"run", "index", "unlink", "coins", "fatal", "off"}
      /\ pc' = "coins" => fl'.todo = DOMAIN cache.dirty
  <2>1. CASE pc \in {"index", "unlink"} /\ ToCoins
    BY <1>1, <2>1
  <2>2. CASE ~(pc \in {"index", "unlink"} /\ ToCoins)
    BY <2>2
  <2> QED BY <2>1, <2>2, Zenon
<1> QED BY <1>2, SameCoins, Zenon

\* Every step keeps the types and the tips that a transition goes to.
LEMMA StepBase ==
  ASSUME Base, Next
  PROVE  Base'
<1>1. ASSUME NEW b \in Branches, ReceiveBlock(b) \/ ConnectTip(b) PROVE Base'
  BY <1>1, ReceiveBase, ConnectBase, Zenon
<1>2. ASSUME NEW prune, NEW erase \in BOOLEAN, FlushStateToDisk(erase, prune) PROVE Base'
  <2>1. pc \in {"run", "fatal"} /\ StartFlush(erase, prune, "run") /\ "run" \in {"run", "off"}
    BY <1>2, Zenon DEF FlushStateToDisk
  <2> QED BY <2>1, StartFlushBase, Zenon
<1>3. ASSUME NEW prune, Shutdown(prune) PROVE Base'
  <2>1. pc \in {"run", "fatal"} /\ StartFlush(TRUE, prune, "off") /\ "off" \in {"run", "off"} /\ TRUE \in BOOLEAN
    BY <1>3, Zenon DEF Shutdown
  <2> QED BY <2>1, StartFlushBase, Zenon
<1>4. ASSUME BatchWrite PROVE Base'
  BY <1>4, FinalBase, PartialBase, Zenon DEF BatchWrite
<1> QED BY <1>1, <1>2, <1>3, <1>4, DisconnectBase, WriteIndexBase, UnlinkBase, LowDiskBase, WriteFailsBase,
           CrashBase, StartBase, Zenon DEF Next

\* Every step but a failing write keeps the coins exact.
LEMMA StepExact ==
  ASSUME Base, Base', Exact, "write" \notin Faults, Next
  PROVE  Exact'
<1>1. ASSUME NEW b \in Branches, ReceiveBlock(b) PROVE Exact'
  <2>1. UNCHANGED <<db, past, cache, world>> /\ pc = "run" /\ pc' = pc
    BY <1>1, Zenon DEF ReceiveBlock
  <2> QED BY <2>1, QuietExact, Zenon
<1>2. ASSUME NEW prune, NEW erase, NEW then, StartFlush(erase, prune, then), pc \in {"run", "fatal"} PROVE Exact'
  <2>1. UNCHANGED <<db, past, cache, world>> /\ pc' = "index"
    BY <1>2, Zenon DEF StartFlush
  <2> QED BY <1>2, <2>1, QuietExact, Zenon
<1>3. ASSUME NEW prune, Shutdown(prune) \/ \E erase \in BOOLEAN : FlushStateToDisk(erase, prune) PROVE Exact'
  <2>1. pc \in {"run", "fatal"} /\ \E erase, then : StartFlush(erase, prune, then)
    BY <1>3, Zenon DEF Shutdown, FlushStateToDisk
  <2> QED BY <1>2, <2>1, Zenon
<1>4. ASSUME WriteBlockIndexDB PROVE Exact'
  <2>1. /\ UNCHANGED <<db, past, cache, world>> /\ pc = "index"
        /\ pc' = "unlink" \/ ToCoins
    BY <1>4, Zenon DEF WriteBlockIndexDB
  <2> QED BY <2>1, QuietExact, Zenon
<1>5. ASSUME UnlinkPrunedFiles PROVE Exact'
  <2>1. UNCHANGED <<db, past, cache, world>> /\ pc = "unlink" /\ ToCoins
    BY <1>5, Zenon DEF UnlinkPrunedFiles
  <2> QED BY <2>1, QuietExact, Zenon
<1>6. ASSUME DiskSpaceTooLow PROVE Exact'
  <2>1. UNCHANGED <<db, past, cache, world>> /\ pc \in {"index", "coins"} /\ pc' = "fatal"
    BY <1>6, Zenon DEF DiskSpaceTooLow
  <2> QED BY <2>1, QuietExact, Zenon
<1>7. ASSUME BatchWrite PROVE Exact'
  BY <1>7, FinalExact, PartialExact, Zenon DEF BatchWrite
<1>8. ASSUME NEW S, WriteFails(S) PROVE FALSE
  BY <1>8, Zenon DEF WriteFails
<1> QED BY <1>1, <1>3, <1>4, <1>5, <1>6, <1>7, <1>8, ConnectExact, DisconnectExact, CrashExact, StartExact, Zenon DEF Next

\* Every step of a node that does not prune keeps the blocks readable.
LEMMA StepReadable ==
  ASSUME Base, Readable, ~Pruning, Next
  PROVE  Readable'
<1>1. ASSUME NEW b \in Branches, ReceiveBlock(b) \/ ConnectTip(b) PROVE Readable'
  BY <1>1, ReceiveReadable, ConnectReadable, Zenon
<1>2. ASSUME NEW prune, NEW erase \in BOOLEAN, FlushStateToDisk(erase, prune) PROVE Readable'
  <2>1. pc \in {"run", "fatal"} /\ StartFlush(erase, prune, "run") /\ "run" \in {"run", "off"}
    BY <1>2, Zenon DEF FlushStateToDisk
  <2> QED BY <2>1, StartFlushReadable, Zenon
<1>3. ASSUME NEW prune, Shutdown(prune) PROVE Readable'
  <2>1. pc \in {"run", "fatal"} /\ StartFlush(TRUE, prune, "off") /\ "off" \in {"run", "off"} /\ TRUE \in BOOLEAN
    BY <1>3, Zenon DEF Shutdown
  <2> QED BY <2>1, StartFlushReadable, Zenon
<1>4. ASSUME BatchWrite PROVE Readable'
  BY <1>4, FinalReadable, PartialReadable, Zenon DEF BatchWrite
<1> QED BY <1>1, <1>2, <1>3, <1>4, DisconnectReadable, WriteIndexReadable, UnlinkReadable, LowDiskReadable,
           WriteFailsReadable, CrashReadable, StartReadable, Zenon DEF Next

\* The settings of a behaviour never change.
LEMMA SettingsStay ==
  ASSUME Next \/ UNCHANGED vars
  PROVE  world' = world /\ Faults' = Faults /\ Pruning' = Pruning
<1>1. world' = world
  BY Zenon DEF Next, vars, ReceiveBlock, ConnectTip, DisconnectTip, FlushStateToDisk, Shutdown, StartFlush,
     WriteBlockIndexDB, UnlinkPrunedFiles, DiskSpaceTooLow, BatchWrite, FinalBatch, PartialBatch, WriteFails, Crash, Start
<1> QED BY <1>1, Zenon DEF Faults, Pruning

\* Every step keeps the invariant.
LEMMA StepInv ==
  ASSUME IInv, [Next]_vars
  PROVE  IInv'
<1>1. CASE Next
  <2>1. Base /\ Base'
    BY <1>1, StepBase, Zenon DEF IInv, Base
  <2>2. Faults' = Faults /\ Pruning' = Pruning
    BY <1>1, SettingsStay, Zenon
  <2>3. "write" \notin Faults => Exact'
    BY <1>1, <2>1, StepExact, Zenon DEF IInv
  <2>4. ~Pruning => Readable'
    BY <1>1, <2>1, StepReadable, Zenon DEF IInv
  <2> QED BY <2>1, <2>2, <2>3, <2>4, Zenon DEF IInv, Base
<1>2. CASE UNCHANGED vars
  <2>1. /\ world' = world /\ index' = index /\ diskIndex' = diskIndex /\ files' = files /\ db' = db /\ past' = past
        /\ cache' = cache /\ pc' = pc /\ fl' = fl /\ crashes' = crashes
    BY <1>2, Zenon DEF vars, store
  <2>2. OnDisk' = OnDisk /\ Writing' = Writing /\ View' = View /\ Written(fl.todo)' = Written(fl.todo)
    BY <2>1, Zenon DEF OnDisk, Writing, View, Written
  <2>3. TypeOK'
    BY <2>1, Zenon DEF IInv, TypeOK, Lag, MaxCrash
  <2>4. Transition'
    BY <2>1, <2>2, Zenon DEF IInv, Transition
  <2>5. Exact => Exact'
    BY <2>1, <2>2, Zenon DEF Exact, Sound, UtxoOf
  <2>6. Readable => Readable'
    BY <2>1, <2>2, Zenon DEF Readable, Complete, Connected, Held, Named
  <2>7. Faults' = Faults /\ Pruning' = Pruning
    BY <2>1, Zenon DEF Faults, Pruning
  <2> QED BY <2>3, <2>4, <2>5, <2>6, <2>7, Zenon DEF IInv
<1> QED BY <1>1, <1>2, Zenon

\* The invariant holds of every behaviour of FlushStateToDisk, BatchWrite and ReplayBlocks.
THEOREM FlushInvariant == Spec => []IInv
<1>1. Init => IInv
  BY InitInv
<1>2. IInv /\ [Next]_vars => IInv'
  BY StepInv
<1> QED BY <1>1, <1>2, PTL DEF Spec

\* However a flush is split into batches, whatever crashes interrupt it, lose its last batches or interrupt the
\* replay, and however often: unless a write fails, a database that names a best block holds exactly the unspent
\* outputs after that block, and CoinsTip shows a running node exactly those after its tip.
THEOREM CoinsAlwaysExact == Spec => []ExactWithoutWriteErrors
<1>1. IInv => ExactWithoutWriteErrors
  <2>1. "run" \in {"run", "index", "unlink", "coins", "fatal"}
    OBVIOUS
  <2> QED BY <2>1, Zenon DEF IInv, Exact, Sound, ExactWithoutWriteErrors, ConsistentMeansExact
<1> QED BY <1>1, FlushInvariant, PTL

\* Unless a write fails, a database that names a transition (DB_HEAD_BLOCKS) holds for every coin the old tip's or
\* the new tip's value: no third value survives a flush, a crash or an interrupted replay.
THEOREM OnlyTwoTips == Spec => []TransitionMixesTwoTips
<1>1. IInv => TransitionMixesTwoTips
  BY Zenon DEF IInv, Exact, Sound, TransitionMixesTwoTips
<1> QED BY <1>1, FlushInvariant, PTL

\* BatchWrite's assert(old_heads[0] == block_hash) never fails: a flush or a replay that finds an unfinished
\* transition goes to the tip that it names, also after write errors and crashes.
THEOREM TransitionResumed == Spec => []TransitionResumedToSameTip
<1>1. IInv => TransitionResumedToSameTip
  BY DEF IInv, Transition, TransitionResumedToSameTip
<1> QED BY <1>1, FlushInvariant, PTL

\* A node that does not prune is never refused at its start: LoadChainTip and ReplayBlocks find every block that the
\* database names, its ancestors up to the fork, and their data and undo data, after any crash or write error.
THEOREM UnprunedStarts == Spec => [](~Pruning => StartNeverRefused)
<1>1. IInv => (~Pruning => StartNeverRefused)
  BY Zenon DEF IInv, Readable, StartNeverRefused
<1> QED BY <1>1, FlushInvariant, PTL
=============================================================================
