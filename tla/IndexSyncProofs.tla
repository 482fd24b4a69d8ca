---------------------------- MODULE IndexSyncProofs --------------------------
(***************************************************************************)
(* Theorems about IndexSync, for every tree of blocks, either index and    *)
(* any bounds: the index stays exact, a failure needs a crash first, and   *)
(* an answered caller finds its block.                                     *)
(*                                                                         *)
(* The heart of the invariant is Stored: an ancestor of a position the     *)
(* index relies on is in the hash index, which is never overwritten, or in *)
(* the height index below the position, where nothing overwrites it before *)
(* Rewind has copied it.  For the callbacks it is Fits: unless the index   *)
(* has the tip, one of the callbacks queued builds on what it has.         *)
(***************************************************************************)
EXTENDS IndexSync, WellFoundedInduction, TLAPS

-----------------------------------------------------------------------------
(* The tree: induction is by a least block, which IndexAssumption gives *)

\* A set of numbers has a least one.
LEMMA LeastNat ==
  ASSUME NEW S \in SUBSET Nat, S # {}
  PROVE  \E n \in S : \A m \in S : n <= m
<1> DEFINE R == {ss \in Nat \X Nat : ss[1] < ss[2]}
<1>1. IsWellFoundedOn(R, Nat)
  BY NatLessThanWellFounded, Zenon DEF OpToRel
<1>2. PICK n \in S : \A m \in S : ~(<<m, n>> \in R)
  <2> HIDE DEF R
  <2> QED BY <1>1, WFMin, Zenon
<1>3. ASSUME NEW m \in S PROVE n <= m
  <2>1. m \in Nat /\ n \in Nat
    BY Zenon
  <2>2. ~(m < n)
    BY <1>2, <2>1, Zenon
  <2> QED BY <2>1, <2>2
<1> QED BY <1>3, Zenon

\* What IndexAssumption says of the blocks
LEMMA ParentIsBlock == Genesis \in Blocks /\ None \notin Blocks /\ \A b \in Blocks \ {Genesis} : Parent[b] \in Blocks
BY IndexAssumption, Zenon

Closed(S) == \A y \in S \ {Genesis} : Parent[y] \in S

\* The least set of blocks that has b and the parents of its members
Below(b) == {x \in Blocks : \A S \in SUBSET Blocks : b \in S /\ Closed(S) => x \in S}

\* The set of the blocks below b is that of its parent, and b.
LEMMA BelowUnfolds ==
  ASSUME NEW b \in Blocks
  PROVE  /\ b \in Below(b) /\ Closed(Below(b)) /\ Below(b) \subseteq Blocks
         /\ b = Genesis => Below(b) = {Genesis}
         /\ b # Genesis => Below(b) = {b} \cup Below(Parent[b])
<1>0. b \in Below(b) /\ Below(b) \subseteq Blocks
  BY Zenon DEF Below
<1>1. Closed(Below(b))
  BY ParentIsBlock, Zenon DEF Below, Closed
<1>2. CASE b = Genesis
  <2>1. Closed({Genesis}) /\ {Genesis} \in SUBSET Blocks
    BY ParentIsBlock, Zenon DEF Closed
  <2> QED BY <1>0, <1>1, <1>2, <2>1, Zenon DEF Below
<1>3. CASE b # Genesis
  <2>0. Parent[b] \in Blocks
    BY <1>3, ParentIsBlock, Zenon
  <2>1. Below(b) \subseteq {b} \cup Below(Parent[b])
    <3> SUFFICES ASSUME NEW x \in Below(b), x # b, NEW S \in SUBSET Blocks, Parent[b] \in S, Closed(S)
                 PROVE  x \in S
      BY Zenon DEF Below
    <3>1. S \cup {b} \in SUBSET Blocks /\ b \in S \cup {b} /\ Closed(S \cup {b})
      BY Zenon DEF Closed
    <3> QED BY <3>1, Zenon DEF Below
  <2>2. {b} \cup Below(Parent[b]) \subseteq Below(b)
    BY <1>3, <2>0, Zenon DEF Below, Closed
  <2> QED BY <1>0, <1>1, <1>3, <2>1, <2>2, Zenon
<1> QED BY <1>2, <1>3, Zenon

\* f is the recursion of Path on the blocks below b.
Builds(b, f) ==
  /\ f \in [Below(b) -> Seq(Blocks)]
  /\ \A x \in Below(b) : f[x] = IF x = Genesis THEN <<x>> ELSE Append(f[Parent[x]], x)

\* The recursion has a solution below every block...
LEMMA BuildsExist == \A b \in Blocks : \E f : Builds(b, f)
<1> DEFINE S == {b \in Blocks : ~\E f : Builds(b, f)}
<1>1. S = {}
  <2> SUFFICES ASSUME S # {} PROVE FALSE
    BY Zenon
  <2>1. PICK b \in S : b = Genesis \/ Parent[b] \notin S
    BY IndexAssumption, Zenon
  <2>3. b # Genesis
    <3> SUFFICES ASSUME b = Genesis PROVE FALSE
      BY Zenon
    <3>1. Builds(b, [x \in {Genesis} |-> <<Genesis>>])
      BY BelowUnfolds DEF Builds
    <3> QED BY <3>1, Zenon
  <2>4. Parent[b] \in Blocks /\ Below(b) = {b} \cup Below(Parent[b])
    BY <2>3, BelowUnfolds, ParentIsBlock, Zenon
  <2>5. PICK g : Builds(Parent[b], g)
    BY <2>1, <2>3, <2>4, Zenon
  <2>6. b \notin Below(Parent[b])
    <3> SUFFICES ASSUME b \in Below(Parent[b]) PROVE FALSE
      BY Zenon
    <3>1. Below(b) = Below(Parent[b])
      BY <2>4, Zenon
    <3> QED BY <2>1, <2>3, <2>5, <3>1, Zenon DEF Builds
  <2> DEFINE f == [x \in Below(b) |-> IF x = b THEN Append(g[Parent[b]], b) ELSE g[x]]
  <2>7. Parent[b] \in Below(Parent[b]) /\ g[Parent[b]] \in Seq(Blocks)
    BY <2>4, <2>5, BelowUnfolds, Zenon DEF Builds
  <2>8. f \in [Below(b) -> Seq(Blocks)]
    BY <2>4, <2>5, <2>7 DEF Builds
  <2>9. f[b] = Append(f[Parent[b]], b)
    BY <2>4, <2>6, <2>7, Zenon
  <2>10. ASSUME NEW x \in Below(Parent[b])
        PROVE  f[x] = IF x = Genesis THEN <<x>> ELSE Append(f[Parent[x]], x)
    <3>1. f[x] = IF x = Genesis THEN <<x>> ELSE Append(g[Parent[x]], x)
      BY <2>4, <2>5, <2>6, Zenon DEF Builds
    <3>2. x # Genesis => Parent[x] \in Below(Parent[b])
      BY <2>4, BelowUnfolds, Zenon DEF Closed
    <3> QED BY <2>4, <2>6, <3>1, <3>2, Zenon
  <2>11. Builds(b, f)
    <3> HIDE DEF f
    <3> QED BY <2>3, <2>4, <2>8, <2>9, <2>10, Zenon DEF Builds
  <2> QED BY <2>11, Zenon
<1> QED BY <1>1, Zenon

\* ... and only one.
LEMMA BuildsAgree ==
  ASSUME NEW b \in Blocks, NEW c \in Blocks, NEW f, NEW g, Builds(b, f), Builds(c, g),
         NEW x \in Below(b) \cap Below(c)
  PROVE  f[x] = g[x]
<1> DEFINE S == {y \in Below(b) \cap Below(c) : f[y] # g[y]}
<1>1. S = {}
  <2> SUFFICES ASSUME S # {} PROVE FALSE
    BY Zenon
  <2>1. S \in SUBSET Blocks
    BY BelowUnfolds, Zenon
  <2>2. PICK y \in S : y = Genesis \/ Parent[y] \notin S
    BY <2>1, IndexAssumption, Zenon
  <2>3. y # Genesis => Parent[y] \in Below(b) \cap Below(c)
    BY BelowUnfolds, Zenon DEF Closed
  <2> QED BY <2>2, <2>3, Zenon DEF Builds
<1> QED BY <1>1, Zenon

\* So Path is what its definition says.
LEMMA PathUnfolds ==
  /\ Path \in [Blocks -> Seq(Blocks)]
  /\ Path[Genesis] = <<Genesis>>
  /\ \A b \in Blocks \ {Genesis} : Path[b] = Append(Path[Parent[b]], b)
<1> DEFINE F(p) == [b \in Blocks |-> IF b = Genesis THEN <<b>> ELSE Append(p[Parent[b]], b)]
           built(b) == CHOOSE f : Builds(b, f)
           P == [b \in Blocks |-> built(b)[b]]
<1>1. \A b \in Blocks : Builds(b, built(b))
  BY BuildsExist, Zenon
<1>2. ASSUME NEW b \in Blocks
      PROVE  P[b] = IF b = Genesis THEN <<b>> ELSE Append(P[Parent[b]], b)
  <2>1. b \in Below(b) /\ Builds(b, built(b))
    BY <1>1, BelowUnfolds, Zenon
  <2>2. built(b)[b] = IF b = Genesis THEN <<b>> ELSE Append(built(b)[Parent[b]], b)
    <3> HIDE DEF built
    <3> QED BY <2>1, Zenon DEF Builds
  <2>3. CASE b = Genesis
    BY <2>2, <2>3, Zenon
  <2>4. CASE b # Genesis
    <3>1. Parent[b] \in Blocks /\ Parent[b] \in Below(b) \cap Below(Parent[b])
      BY <2>4, BelowUnfolds, ParentIsBlock, Zenon
    <3>2. Builds(Parent[b], built(Parent[b]))
      BY <1>1, <3>1, Zenon
    <3>3. built(b)[Parent[b]] = built(Parent[b])[Parent[b]]
      <4> HIDE DEF built
      <4> QED BY <2>1, <3>1, <3>2, BuildsAgree
    <3>4. P[b] = built(b)[b] /\ P[Parent[b]] = built(Parent[b])[Parent[b]]
      BY <3>1, Zenon
    <3> HIDE DEF built, P
    <3> QED BY <2>2, <2>4, <3>3, <3>4, Zenon
  <2> QED BY <2>3, <2>4, Zenon
<1>3. P = F(P)
  <2> HIDE DEF built
  <2>1. \A b \in Blocks : P[b] = IF b = Genesis THEN <<b>> ELSE Append(P[Parent[b]], b)
    BY <1>2, Zenon
  <2> QED BY <2>1, Zenon
<1>4. Path = F(Path)
  <2>1. Path = CHOOSE p : p = F(p)
    BY Zenon DEF Path
  <2>2. \E p : p = F(p)
    BY <1>3, Zenon
  <2> HIDE DEF F
  <2> QED BY <2>1, <2>2, Zenon
<1>5. \A b \in Blocks : Path[b] = IF b = Genesis THEN <<b>> ELSE Append(Path[Parent[b]], b)
  BY <1>4, Zenon
<1> DEFINE S == {b \in Blocks : Path[b] \notin Seq(Blocks)}
<1>6. S = {}
  <2> SUFFICES ASSUME S # {} PROVE FALSE
    BY Zenon
  <2>1. PICK b \in S : b = Genesis \/ Parent[b] \notin S
    BY IndexAssumption, Zenon
  <2>2. b \in Blocks /\ (b # Genesis => Parent[b] \in Blocks /\ Path[Parent[b]] \in Seq(Blocks))
    BY <2>1, ParentIsBlock, Zenon
  <2>3. Path[b] \in Seq(Blocks)
    <3>1. CASE b = Genesis
      <4>1. Path[b] = <<b>>
        BY <1>5, <2>2, <3>1, Zenon
      <4> QED BY <2>2, <4>1
    <3>2. CASE b # Genesis
      <4>1. Path[b] = Append(Path[Parent[b]], b)
        BY <1>5, <2>2, <3>2, Zenon
      <4>2. \A q \in Seq(Blocks) : Append(q, b) \in Seq(Blocks)
        BY <2>2
      <4> QED BY <2>2, <3>2, <4>1, <4>2, Zenon
    <3> QED BY <3>1, <3>2, Zenon
  <2> QED BY <2>3, Zenon
<1>7. Path = [b \in Blocks |-> Path[b]]
  BY <1>4, Zenon
<1> QED BY <1>5, <1>6, <1>7, ParentIsBlock, Zenon

\* The ancestors of a block are itself and those of its parent.
LEMMA AncBasics ==
  /\ \A b \in Blocks : Anc(b) \subseteq Blocks /\ b \in Anc(b) /\ Genesis \in Anc(b)
  /\ \A b \in Blocks \ {Genesis} : Parent[b] \in Blocks /\ Anc(b) = {b} \cup Anc(Parent[b])
  /\ Anc(Genesis) = {Genesis}
  /\ Anc(None) = {}
<1>1. ASSUME NEW b \in Blocks \ {Genesis} PROVE Parent[b] \in Blocks /\ Anc(b) = {b} \cup Anc(Parent[b])
  <2>1. Parent[b] \in Blocks /\ Parent[b] # None /\ b # None
    BY ParentIsBlock, Zenon
  <2>2. Path[Parent[b]] \in Seq(Blocks) /\ Path[b] = Append(Path[Parent[b]], b)
    BY <2>1, PathUnfolds, Zenon
  <2>3. Range(Append(Path[Parent[b]], b)) = Range(Path[Parent[b]]) \cup {b}
    BY <2>2, SMTT(30) DEF Range
  <2> QED BY <2>1, <2>2, <2>3, Zenon DEF Anc
<1>2. Anc(Genesis) = {Genesis} /\ Genesis \in Blocks
  BY PathUnfolds, ParentIsBlock DEF Anc, Range
<1> DEFINE S == {b \in Blocks : ~(Anc(b) \subseteq Blocks /\ b \in Anc(b) /\ Genesis \in Anc(b))}
<1>3. S = {}
  <2> SUFFICES ASSUME S # {} PROVE FALSE
    BY Zenon
  <2>1. PICK b \in S : b = Genesis \/ Parent[b] \notin S
    BY IndexAssumption, Zenon
  <2> QED BY <1>1, <1>2, <2>1, Zenon
<1>4. Anc(None) = {}
  BY Zenon DEF Anc
<1> QED BY <1>1, <1>2, <1>3, <1>4, Zenon

LEMMA AncTransitive ==
  ASSUME NEW b \in Blocks \cup {None}, NEW x \in Anc(b)
  PROVE  x \in Blocks /\ Anc(x) \subseteq Anc(b)
<1> DEFINE S == {c \in Blocks : \E y \in Anc(c) : ~(Anc(y) \subseteq Anc(c))}
<1>1. S = {}
  <2> SUFFICES ASSUME S # {} PROVE FALSE
    BY Zenon
  <2>1. PICK c \in S : c = Genesis \/ Parent[c] \notin S
    BY IndexAssumption, Zenon
  <2> QED BY <2>1, AncBasics
<1> QED BY <1>1, AncBasics, Zenon

LEMMA AncLinear ==
  ASSUME NEW b \in Blocks, NEW x \in Anc(b), NEW y \in Anc(b)
  PROVE  x \in Anc(y) \/ y \in Anc(x)
<1> DEFINE S == {c \in Blocks : \E v, w \in Anc(c) : v \notin Anc(w) /\ w \notin Anc(v)}
<1>1. S = {}
  <2> SUFFICES ASSUME S # {} PROVE FALSE
    BY Zenon
  <2>1. PICK c \in S : c = Genesis \/ Parent[c] \notin S
    BY IndexAssumption, Zenon
  <2> QED BY <2>1, AncBasics
<1> QED BY <1>1, Zenon

\* The lengths and the ends of paths
LEMMA PathBasics ==
  ASSUME NEW b \in Blocks
  PROVE  /\ Height(b) \in Nat /\ Height(b) \in Heights /\ Path[b] \in Seq(Blocks) /\ Path[b] # <<>>
         /\ Len(Path[b]) = Height(b) + 1 /\ Path[b][Len(Path[b])] = b
         /\ b = Genesis => Height(b) = 0
         /\ b # Genesis => Height(b) = Height(Parent[b]) + 1 /\ Height(Parent[b]) \in Nat
<1> DEFINE S == {c \in Blocks : Height(c) \notin Nat}
<1>1. Height(Genesis) = 0
  BY PathUnfolds DEF Height
<1>2. ASSUME NEW c \in Blocks \ {Genesis} PROVE Height(c) = Height(Parent[c]) + 1
  <2>1. Parent[c] \in Blocks /\ Path[Parent[c]] \in Seq(Blocks) /\ Path[c] = Append(Path[Parent[c]], c)
    BY ParentIsBlock, PathUnfolds, Zenon
  <2> QED BY <2>1 DEF Height
<1>3. S = {}
  <2> SUFFICES ASSUME S # {} PROVE FALSE
    BY Zenon
  <2>1. PICK c \in S : c = Genesis \/ Parent[c] \notin S
    BY IndexAssumption, Zenon
  <2> QED BY <1>1, <1>2, <2>1, ParentIsBlock
<1>4. Path[b] \in Seq(Blocks) /\ Len(Path[b]) \in Nat /\ Len(Path[b]) = Height(b) + 1
  BY PathUnfolds DEF Height
<1>5. Path[b][Len(Path[b])] = b
  <2>1. CASE b = Genesis
    BY <2>1, PathUnfolds
  <2>2. CASE b # Genesis
    <3>1. Parent[b] \in Blocks /\ Path[Parent[b]] \in Seq(Blocks) /\ Path[b] = Append(Path[Parent[b]], b)
      BY <2>2, ParentIsBlock, PathUnfolds, Zenon
    <3> QED BY <3>1
  <2> QED BY <2>1, <2>2, Zenon
<1>6. Height(b) \in Nat /\ Height(b) \in Heights /\ Path[b] # <<>>
  BY <1>3, <1>4 DEF Heights
<1> QED BY <1>1, <1>2, <1>3, <1>4, <1>5, <1>6, ParentIsBlock, Zenon

\* A block's ancestors are its path, each at its height.
LEMMA OnPath ==
  ASSUME NEW b \in Blocks, NEW x \in Anc(b)
  PROVE  Height(x) <= Height(b) /\ Path[b][Height(x) + 1] = x
<1> DEFINE S == {c \in Blocks : \E y \in Anc(c) : ~(Height(y) <= Height(c) /\ Path[c][Height(y) + 1] = y)}
<1>1. S = {}
  <2> SUFFICES ASSUME S # {} PROVE FALSE
    BY Zenon
  <2>1. PICK c \in S : c = Genesis \/ Parent[c] \notin S
    BY IndexAssumption, Zenon
  <2>2. ASSUME NEW y \in Anc(c) PROVE Height(y) <= Height(c) /\ Path[c][Height(y) + 1] = y
    <3>1. CASE y = c
      <4>1. Height(c) \in Nat /\ Len(Path[c]) = Height(c) + 1 /\ Path[c][Len(Path[c])] = c
        BY PathBasics, Zenon
      <4> QED BY <3>1, <4>1
    <3>2. CASE y # c
      <4>1. c # Genesis /\ Parent[c] \in Blocks /\ y \in Anc(Parent[c]) /\ y \in Blocks
        BY <3>2, AncBasics, ZenonT(40)
      <4>2. Height(y) <= Height(Parent[c]) /\ Path[Parent[c]][Height(y) + 1] = y
        BY <2>1, <4>1, Zenon
      <4>3. /\ Height(y) \in Nat /\ Height(Parent[c]) \in Nat /\ Height(c) = Height(Parent[c]) + 1
            /\ Path[Parent[c]] \in Seq(Blocks) /\ Len(Path[Parent[c]]) = Height(Parent[c]) + 1
            /\ Path[c] = Append(Path[Parent[c]], c)
        BY <4>1, PathBasics, PathUnfolds, Zenon
      <4> QED BY <4>2, <4>3
    <3> QED BY <3>1, <3>2, Zenon
  <2> QED BY <2>2, Zenon
<1> QED BY <1>1, Zenon

\* The block at each height of a path is an ancestor, and its path is the part below.
LEMMA PathAt ==
  ASSUME NEW b \in Blocks, NEW h \in 0 .. Height(b)
  PROVE  Path[b][h + 1] \in Anc(b) /\ Height(Path[b][h + 1]) = h
<1> DEFINE S == {c \in Blocks : \E i \in 0 .. Height(c) : ~(Path[c][i + 1] \in Anc(c) /\ Height(Path[c][i + 1]) = i)}
<1>1. S = {}
  <2> SUFFICES ASSUME S # {} PROVE FALSE
    BY Zenon
  <2>1. PICK c \in S : c = Genesis \/ Parent[c] \notin S
    BY IndexAssumption, Zenon
  <2>2. ASSUME NEW i \in 0 .. Height(c) PROVE Path[c][i + 1] \in Anc(c) /\ Height(Path[c][i + 1]) = i
    <3>1. CASE i = Height(c)
      <4>1. Len(Path[c]) = Height(c) + 1 /\ Path[c][Len(Path[c])] = c /\ c \in Anc(c)
        BY PathBasics, AncBasics, Zenon
      <4> QED BY <3>1, <4>1, Zenon
    <3>2. CASE i # Height(c)
      <4>1. i < Height(c) /\ Height(c) \in Nat /\ (c = Genesis => Height(c) = 0)
        BY <3>2, PathBasics
      <4>2. c # Genesis /\ Parent[c] \in Blocks /\ Anc(c) = {c} \cup Anc(Parent[c])
        BY <4>1, AncBasics
      <4>3. /\ Height(Parent[c]) \in Nat /\ Height(c) = Height(Parent[c]) + 1
            /\ Path[Parent[c]] \in Seq(Blocks) /\ Len(Path[Parent[c]]) = Height(Parent[c]) + 1
            /\ Path[c] = Append(Path[Parent[c]], c)
        BY <4>2, PathBasics, PathUnfolds, Zenon
      <4>4. i \in 0 .. Height(Parent[c]) /\ Path[c][i + 1] = Path[Parent[c]][i + 1]
        BY <4>1, <4>3
      <4> QED BY <2>1, <4>2, <4>4, Zenon
    <3> QED BY <3>1, <3>2, Zenon
  <2> QED BY <2>2, Zenon
<1> QED BY <1>1, Zenon

\* m_chain.Next: the block after x on the way to b
LEMMA NextOnPath ==
  ASSUME NEW b \in Blocks, NEW x \in Anc(b), x # b
  PROVE  LET n == Path[b][Height(x) + 2]
         IN n \in Anc(b) /\ n \in Blocks \ {Genesis} /\ Parent[n] = x /\ Height(x) < Height(b)
<1> DEFINE S == {c \in Blocks : x \in Anc(c) /\ x # c /\
                   ~(LET n == Path[c][Height(x) + 2]
                     IN n \in Anc(c) /\ n \in Blocks \ {Genesis} /\ Parent[n] = x /\ Height(x) < Height(c))}
<1>1. S = {}
  <2> SUFFICES ASSUME S # {} PROVE FALSE
    BY Zenon
  <2>1. PICK c \in S : c = Genesis \/ Parent[c] \notin S
    BY IndexAssumption, Zenon
  <2>2. c # Genesis /\ Parent[c] \in Blocks /\ x \in Anc(Parent[c]) /\ x \in Blocks /\ c \in Anc(c)
        /\ Anc(c) = {c} \cup Anc(Parent[c])
    BY <2>1, AncBasics
  <2>3. /\ Height(x) \in Nat /\ Height(Parent[c]) \in Nat /\ Height(c) = Height(Parent[c]) + 1
        /\ Path[Parent[c]] \in Seq(Blocks) /\ Len(Path[Parent[c]]) = Height(Parent[c]) + 1
        /\ Path[c] = Append(Path[Parent[c]], c)
    BY <2>2, PathBasics, PathUnfolds, Zenon
  <2>4. CASE x = Parent[c]
    <3>1. Path[c][Height(x) + 2] = c
      BY <2>3, <2>4, SMTT(30)
    <3>2. Height(x) < Height(c) /\ c \in Anc(c) /\ c \in Blocks \ {Genesis} /\ Parent[c] = x
      BY <2>2, <2>3, <2>4
    <3> QED BY <3>1, <3>2, Zenon
  <2>5. CASE x # Parent[c]
    <3>1. LET n == Path[Parent[c]][Height(x) + 2]
          IN n \in Anc(Parent[c]) /\ n \in Blocks \ {Genesis} /\ Parent[n] = x /\ Height(x) < Height(Parent[c])
      BY <2>1, <2>2, <2>5, Zenon
    <3>2. Path[c][Height(x) + 2] = Path[Parent[c]][Height(x) + 2]
      BY <2>3, <3>1, SMTT(30)
    <3> QED BY <2>1, <2>2, <2>3, <3>1, <3>2, SMTT(30)
  <2> QED BY <2>4, <2>5, Zenon
<1> QED BY <1>1, Zenon

\* Fork is a common ancestor, and the last one.
LEMMA ForkIs ==
  ASSUME NEW a \in Blocks, NEW b \in Blocks
  PROVE  /\ Fork(a, b) \in Blocks /\ Fork(a, b) \in Anc(a) /\ Fork(a, b) \in Anc(b)
         /\ \A y \in Anc(a) \cap Anc(b) : y \in Anc(Fork(a, b))
<1> DEFINE C == Anc(a) \cap Anc(b)
           N == {Height(b) - Height(y) : y \in C}
<1>1. Genesis \in C /\ C \subseteq Blocks
  BY AncBasics, Zenon
<1>2. N \in SUBSET Nat /\ N # {}
  <2>1. ASSUME NEW y \in C PROVE Height(b) - Height(y) \in Nat
    <3>1. Height(b) \in Nat /\ Height(y) \in Nat /\ Height(y) <= Height(b)
      BY <1>1, PathBasics, OnPath, Zenon
    <3> QED BY <3>1
  <2> QED BY <1>1, <2>1, Zenon
<1>3. PICK n \in N : \A m \in N : n <= m
  <2> HIDE DEF N
  <2> QED BY <1>2, LeastNat, Zenon
<1>4. PICK x \in C : n = Height(b) - Height(x)
  BY Zenon
<1>5. ASSUME NEW y \in C PROVE Height(y) <= Height(x)
  <2>1. Height(b) \in Nat /\ Height(y) \in Nat /\ Height(x) \in Nat
    BY <1>1, PathBasics, Zenon
  <2>2. Height(b) - Height(x) <= Height(b) - Height(y)
    BY <1>3, <1>4, Zenon
  <2> QED BY <2>1, <2>2
<1>6. Fork(a, b) \in C /\ \A y \in C : Height(y) <= Height(Fork(a, b))
  <2>1. \E z \in C : \A y \in C : Height(y) <= Height(z)
    BY <1>5, Zenon
  <2>2. Fork(a, b) = CHOOSE z \in C : \A y \in C : Height(y) <= Height(z)
    BY Zenon DEF Fork
  <2> HIDE DEF C
  <2> QED BY <2>1, <2>2, Zenon
<1>7. ASSUME NEW y \in C PROVE y \in Anc(Fork(a, b))
  <2> DEFINE f == Fork(a, b)
  <2>1. f \in Blocks /\ y \in Blocks /\ f \in Anc(a) /\ y \in Anc(a) /\ Height(y) <= Height(f)
    BY <1>1, <1>6, Zenon
  <2> HIDE DEF f
  <2>2. f \in Anc(y) \/ y \in Anc(f)
    BY <2>1, AncLinear, Zenon
  <2>3. ASSUME f \in Anc(y) PROVE f = y
    <3>1. Height(f) <= Height(y) /\ Path[y][Height(f) + 1] = f /\ Path[y][Height(y) + 1] = y
      BY <2>1, <2>3, OnPath, AncBasics, Zenon
    <3>2. Height(f) \in Nat /\ Height(y) \in Nat
      BY <2>1, PathBasics, Zenon
    <3>3. Height(f) = Height(y)
      BY <2>1, <3>1, <3>2
    <3> QED BY <3>1, <3>3, Zenon
  <2>4. y \in Anc(f)
    BY <2>1, <2>2, <2>3, AncBasics, Zenon
  <2> QED BY <2>4, Zenon DEF f
<1> QED BY <1>1, <1>6, <1>7, Zenon
-----------------------------------------------------------------------------
(* The inductive invariant *)

Places == Blocks \cup {None}

Entry(b) == [block |-> b, state |-> Path[b]]

Event == [type : {"connected", "flushed"}, block : Blocks]

Types ==
  /\ tip \in Blocks /\ flushed \in Blocks /\ indexed \subseteq Blocks
  /\ queue \in Seq(Event)
  /\ heightIndex \in [Heights -> {NoEntry} \cup {Entry(b) : b \in Blocks}]
  /\ hashIndex \in [Blocks -> Seq(Blocks)]
  /\ committed \in {NoEntry} \cup {Entry(b) : b \in Blocks}
  /\ best \in Places /\ at \in Places /\ state \in Seq(Blocks)
  /\ synced \in BOOLEAN /\ interrupt \in BOOLEAN
  /\ sync \in {"down", "next", "check", "index", "done"} /\ event \in {"idle", "index"}
  /\ todo \in [block : Places, iter : Places]
  /\ caller \in [pc : {"idle", "waits", "answered"}, block : Places, left : Nat]
  /\ failed \in {"no", "init", "append", "rewind"}
  /\ crashes \in Nat

Here(b) == heightIndex[Height(b)].block = b

\* The database has the block's entry.
Found(b) == Here(b) \/ hashIndex[b] # <<>>

\* The entries are those of their blocks, and only blocks that were once at their height are in
\* the hash index.
Entries ==
  /\ \A h \in Heights : heightIndex[h] # NoEntry => Height(heightIndex[h].block) = h
  /\ \A b \in Blocks : hashIndex[b] # <<>> => hashIndex[b] = Path[b] /\ heightIndex[Height(b)] # NoEntry
  /\ Anc(flushed) \subseteq indexed
  /\ committed # NoEntry => committed.block \in indexed

\* Nothing the index still does overwrites the block's only entry.
Stored(b) == hashIndex[b] # <<>> \/ (b \in Anc(Position) /\ Found(b))

\* The block to be indexed builds on the chain up to the position.
TaskFits ==
  /\ todo.block \in Blocks
  /\ IF todo.iter = None THEN todo.block = Genesis
     ELSE todo.block # Genesis /\ Parent[todo.block] \in Anc(todo.iter)

\* Only one of the threads works at a time.
Threads ==
  /\ synced => sync = "done"
  /\ event = "index" => synced
  /\ todo # NoTask <=> sync = "index" \/ event = "index"
  /\ todo # NoTask => TaskFits
  /\ sync = "check" => best = at
  /\ sync = "down" => at = None
  /\ caller.pc # "idle" => synced /\ caller.block \in Blocks

Exact ==
  /\ sync # "down" => state = PathOf(Position)
  /\ \A b \in Anc(Position) : Found(b)

CommittedStored ==
  \A b \in Anc(committed.block) : IF sync = "down" THEN Found(b) ELSE Stored(b)

BestStored == synced => \A b \in Anc(best) : Stored(b)

\* Before the first crash the height index alone has the chain.
BeforeCrash ==
  crashes = 0 => /\ \A b \in Anc(Position) : Here(b)
                 /\ sync = "down" => committed = NoEntry

IsConnected(i) == queue[i].type = "connected"

\* b is on the chain that the first n callbacks lead to.
LeadTo(n, b) ==
  \A i \in 1 .. n : IsConnected(i) /\ (\A j \in i + 1 .. n : ~IsConnected(j)) => b \in Anc(queue[i].block)

\* One of the first n callbacks is not going to be ignored.
Fits(n) == \E i \in 1 .. n : IsConnected(i) /\ Parent[queue[i].block] \in Anc(best)

\* Each block connected builds on the chain of the one before.
Ordered ==
  /\ \A i \in 1 .. Len(queue) : IsConnected(i) => queue[i].block # Genesis
  /\ \A i, j \in 1 .. Len(queue) :
       i < j /\ IsConnected(i) /\ IsConnected(j) /\ (\A k \in i + 1 .. j - 1 : ~IsConnected(k))
       => Parent[queue[j].block] \in Anc(queue[i].block)

Callbacks ==
  /\ Ordered
  /\ LeadTo(Len(queue), tip)
  /\ synced => tip \in Anc(best) \/ Fits(Len(queue))
  /\ event = "index" => /\ queue # <<>> /\ IsConnected(1) /\ todo.block = queue[1].block
                        /\ Parent[todo.block] \in Anc(best)

Waiting ==
  caller.pc = "waits" =>
    /\ caller.left <= Len(queue)
    /\ LeadTo(caller.left, caller.block)
    /\ Stored(caller.block) \/ Fits(caller.left)

Answered == caller.pc = "answered" => caller.block \in Blocks /\ Found(caller.block)

Working ==
  /\ Threads /\ Exact /\ CommittedStored /\ BestStored /\ BeforeCrash /\ Callbacks /\ Waiting
  /\ caller.pc = "answered" => Stored(caller.block)

Reason == failed # "no" => crashes > 0 /\ (failed = "rewind" \/ (failed = "init" /\ Kind = "filter"))

IInv == Types /\ Entries /\ (failed = "no" => Working) /\ Answered /\ Reason

-----------------------------------------------------------------------------
(* The database *)

\* What a lookup reads is the entry of its block or nothing.
LEMMA EntryFacts ==
  ASSUME Types, Entries, NEW b \in Blocks
  PROVE  /\ heightIndex[Height(b)] # NoEntry =>
              \E c \in Blocks : heightIndex[Height(b)] = Entry(c) /\ Height(c) = Height(b)
         /\ AtHeight(b) = IF Here(b) THEN Path[b] ELSE <<>>
         /\ Found(b) => heightIndex[Height(b)] # NoEntry
         /\ Found(b) <=> LookUpOne(b) = Path[b]
<1>1. Height(b) \in Heights /\ Path[b] # <<>> /\ b # None
  BY PathBasics, ParentIsBlock, Zenon
<1>2. heightIndex[Height(b)] = NoEntry \/ \E c \in Blocks : heightIndex[Height(b)] = Entry(c)
  BY <1>1 DEF Types
<1>3. ASSUME NEW c \in Blocks PROVE Entry(c).block = c /\ Entry(c).state = Path[c] /\ Entry(c) # NoEntry
  BY ParentIsBlock, Zenon DEF Entry, NoEntry
<1>4. NoEntry.block = None /\ NoEntry.state = <<>>
  BY Zenon DEF NoEntry
<1>5. heightIndex[Height(b)] # NoEntry =>
              \E c \in Blocks : heightIndex[Height(b)] = Entry(c) /\ Height(c) = Height(b)
  BY <1>1, <1>2, <1>3 DEF Entries
<1>6. Here(b) => heightIndex[Height(b)] = Entry(b)
  BY <1>1, <1>2, <1>3, <1>4, Zenon DEF Here
<1>7. AtHeight(b) = IF Here(b) THEN Path[b] ELSE <<>>
  BY <1>3, <1>6, Zenon DEF Here, AtHeight
<1>8. Found(b) => heightIndex[Height(b)] # NoEntry
  BY <1>3, <1>6, Zenon DEF Found, Entries
<1>9. Found(b) <=> LookUpOne(b) = Path[b]
  BY <1>1, <1>7, <1>8, Zenon DEF Found, LookUpOne, Entries
<1> QED BY <1>5, <1>7, <1>8, <1>9, Zenon

LEMMA PlaceFacts ==
  ASSUME Types
  PROVE  /\ Position \in Places
         /\ todo # NoTask => Position = todo.iter
         /\ todo = NoTask => Position = IF synced THEN best ELSE at
BY Zenon DEF Types, Position, Places

\* Nothing but the steps that index leaves the entries and the position as they are.
LEMMA SameEntries ==
  ASSUME heightIndex' = heightIndex, hashIndex' = hashIndex
  PROVE  \A b : (Here(b)' <=> Here(b)) /\ (Found(b)' <=> Found(b))
BY Zenon DEF Here, Found

LEMMA SameStored ==
  ASSUME heightIndex' = heightIndex, hashIndex' = hashIndex, Position' = Position
  PROVE  \A b : Stored(b)' <=> Stored(b)
BY SameEntries, Zenon DEF Stored

\* One round of Rewind
LEMMA RewindFacts ==
  ASSUME Types, Entries, Threads, Exact, BeforeCrash, failed = "no", sync # "down", todo # NoTask,
         Rewinding, RewindStep
  PROVE  /\ todo.iter \in Blocks \ {Genesis} /\ Parent[todo.iter] \in Blocks /\ todo.block \in Blocks \ {Genesis}
         /\ todo' = [block |-> todo.block, iter |-> Parent[todo.iter]] /\ todo' # NoTask
         /\ Parent[todo.block] \in Anc(Parent[todo.iter])
         /\ heightIndex' = heightIndex /\ hashIndex' \in [Blocks -> Seq(Blocks)]
         /\ \A b \in Blocks : hashIndex[b] # <<>> => hashIndex'[b] # <<>>
         /\ hashIndex'[todo.iter] # <<>>
         /\ \A b \in Blocks : hashIndex'[b] # <<>> => hashIndex'[b] = Path[b] /\ heightIndex[Height(b)] # NoEntry
         /\ state' \in Seq(Blocks) /\ failed' \in {"no", "rewind"}
         /\ failed' = "no" => state' = Path[Parent[todo.iter]]
         /\ crashes = 0 => failed' = "no"
<1> DEFINE r == todo.iter
<1>1. r \in Places /\ TaskFits /\ Position = r /\ todo = [block |-> todo.block, iter |-> r] /\ todo.block \in Places
  BY PlaceFacts, Zenon DEF Types, Threads
<1>2. r \in Blocks \ {Genesis} /\ todo.block \in Blocks \ {Genesis} /\ Parent[r] \in Blocks /\ Prev(r) = Parent[r]
      /\ Parent[todo.block] \in Anc(Parent[r])
  <2>1. r # None /\ Parent[todo.block] \in Anc(r) /\ r # Parent[todo.block] /\ todo.block \in Blocks \ {Genesis}
    BY <1>1, Zenon DEF TaskFits, Rewinding, Prev
  <2>2. r \in Blocks
    BY <1>1, <2>1, Zenon DEF Places
  <2>3. r # Genesis
    <3>1. ASSUME r = Genesis PROVE FALSE
      <4>1. Anc(r) = {Genesis}
        BY <3>1, AncBasics, Zenon
      <4> QED BY <2>1, <3>1, <4>1, Zenon
    <3> QED BY <3>1, Zenon
  <2>4. r \in Blocks \ {Genesis} /\ Prev(r) = Parent[r]
    BY <2>2, <2>3, Zenon DEF Prev
  <2>5. Parent[r] \in Blocks /\ Anc(r) = {r} \cup Anc(Parent[r])
    BY <2>4, AncBasics, Zenon
  <2>6. Parent[todo.block] \in Anc(Parent[r])
    BY <2>1, <2>5, Zenon
  <2> QED BY <2>1, <2>4, <2>5, <2>6, Zenon
<1>3. todo' = [block |-> todo.block, iter |-> Parent[r]] /\ todo' # NoTask
  <2>1. todo' = [todo EXCEPT !.iter = Parent[r]]
    BY <1>2, Zenon DEF RewindStep
  <2>2. todo' = [block |-> todo.block, iter |-> Parent[r]]
    BY <1>1, <2>1, Zenon
  <2> QED BY <1>2, <2>2, ParentIsBlock, Zenon DEF NoTask
<1>4. r \in Anc(r) /\ Parent[r] \in Anc(r) /\ Found(r) /\ Found(Parent[r])
  BY <1>1, <1>2, AncBasics DEF Exact
<1>5. PICK c \in Blocks : heightIndex[Height(r)] = Entry(c) /\ Height(c) = Height(r)
  BY <1>2, <1>4, EntryFacts, Zenon
<1>6. Entry(c).block = c /\ Entry(c).state = Path[c] /\ Path[c] \in Seq(Blocks) /\ Path[c] # <<>>
  BY PathBasics, Zenon DEF Entry
<1>7. heightIndex' = heightIndex /\ hashIndex' = [hashIndex EXCEPT ![c] = Path[c]] /\ Revert(r)
  BY <1>5, <1>6, Zenon DEF RewindStep, CustomRemove
<1>8. hashIndex' \in [Blocks -> Seq(Blocks)] /\ hashIndex'[c] = Path[c] /\ \A b \in Blocks : b # c => hashIndex'[b] = hashIndex[b]
  BY <1>6, <1>7, Zenon DEF Types
<1>9. hashIndex'[r] # <<>>
  <2>1. CASE Here(r)
    BY <1>5, <1>6, <1>8, <2>1, Zenon DEF Here
  <2>2. CASE ~Here(r)
    BY <1>2, <1>4, <1>6, <1>8, <2>2, Zenon DEF Found
  <2> QED BY <2>1, <2>2, Zenon
<1>10. heightIndex[Height(c)] # NoEntry
  BY <1>2, <1>4, <1>5, EntryFacts, Zenon
<1>11. AtHeight(Parent[r]) = IF Here(Parent[r]) THEN Path[Parent[r]] ELSE <<>>
  BY <1>2, EntryFacts, Zenon
<1>12. Path[Parent[r]] \in Seq(Blocks) /\ Path[Parent[r]] # <<>> /\ Path[r] = Append(Path[Parent[r]], r)
  BY <1>2, PathBasics, PathUnfolds, Zenon
<1>13. state = Path[r]
  BY <1>1, <1>2, ParentIsBlock, Zenon DEF Exact, PathOf
<1>14. state' = AtHeight(Parent[r]) /\ failed' \in {"no", "rewind"}
       /\ (failed' = "no" <=> ~(AtHeight(Parent[r]) = <<>> \/ (Kind = "coinstats" /\ state # Append(AtHeight(Parent[r]), r))))
  BY <1>7, Zenon DEF Revert
<1>15. crashes = 0 => Here(Parent[r])
  BY <1>1, <1>4, Zenon DEF BeforeCrash
<1>16. state' \in Seq(Blocks)
  BY <1>11, <1>12, <1>14
<1>17. failed' = "no" => state' = Path[Parent[r]]
  BY <1>11, <1>14, Zenon
<1>18. crashes = 0 => failed' = "no"
  BY <1>11, <1>12, <1>13, <1>14, <1>15, Zenon
<1>19. \A b \in Blocks : hashIndex[b] # <<>> => hashIndex'[b] # <<>>
  BY <1>6, <1>8, Zenon
<1>20. \A b \in Blocks : hashIndex'[b] # <<>> => hashIndex'[b] = Path[b] /\ heightIndex[Height(b)] # NoEntry
  BY <1>8, <1>10, Zenon DEF Entries
<1> HIDE DEF r
<1>21. r = todo.iter
  BY Zenon DEF r
<1> QED BY <1>2, <1>3, <1>7, <1>8, <1>9, <1>14, <1>16, <1>17, <1>18, <1>19, <1>20, <1>21, Zenon

\* What is stored stays stored while the position goes back over it.
LEMMA RewindKeeps ==
  ASSUME Types, Types', Entries, Threads, Exact, BeforeCrash, failed = "no", sync # "down", todo # NoTask,
         Rewinding, RewindStep
  PROVE  /\ \A b \in Blocks : (Here(b)' <=> Here(b)) /\ (Found(b) => Found(b)') /\ (Stored(b) => Stored(b)')
         /\ Position' = Parent[todo.iter] /\ \A b \in Anc(Position') : Found(b)'
         /\ crashes = 0 => \A b \in Anc(Position') : Here(b)'
<1>1. Position = todo.iter /\ Position' = todo'.iter /\ todo'.iter = Parent[todo.iter] /\ todo.iter \in Blocks \ {Genesis}
  BY RewindFacts, PlaceFacts DEF Position
<1>2. heightIndex' = heightIndex /\ hashIndex'[todo.iter] # <<>> /\ Parent[todo.iter] \in Blocks
      /\ \A b \in Blocks : hashIndex[b] # <<>> => hashIndex'[b] # <<>>
  BY RewindFacts, Zenon
<1>3. \A b \in Blocks : (Here(b)' <=> Here(b)) /\ (Found(b) => Found(b)')
  BY <1>2, Zenon DEF Here, Found
<1>4. Anc(todo.iter) = {todo.iter} \cup Anc(Parent[todo.iter]) /\ Anc(Parent[todo.iter]) \subseteq Blocks
  BY <1>1, <1>2, AncBasics, Zenon
<1>5. \A b \in Blocks : Stored(b) => Stored(b)'
  BY <1>1, <1>2, <1>3, <1>4, Zenon DEF Stored
<1> QED BY <1>1, <1>3, <1>4, <1>5, Zenon DEF Exact, BeforeCrash

\* CustomAppend never fails: the block follows the position.
LEMMA AppendFacts ==
  ASSUME Types, Entries, Threads, Exact, BeforeCrash, failed = "no", sync # "down", todo # NoTask,
         ~Rewinding, CustomAppend(todo.block)
  PROVE  /\ todo.block \in Blocks /\ failed' = "no" /\ state' = Path[todo.block] /\ state' \in Seq(Blocks)
         /\ heightIndex' = [heightIndex EXCEPT ![Height(todo.block)] = Entry(todo.block)]
         /\ Anc(todo.block) = {todo.block} \cup Anc(Position)
         /\ \A b \in Anc(Position) : b \in Blocks /\ Height(b) # Height(todo.block)
<1> DEFINE n == todo.block
<1>1. n \in Blocks /\ TaskFits /\ Position = todo.iter /\ todo.iter = Prev(n) /\ n # None
  BY PlaceFacts, ParentIsBlock, Zenon DEF Types, Threads, TaskFits, Rewinding
<1>2. state = PathOf(Prev(n))
  BY <1>1, Zenon DEF Exact
<1>3. Path[n] = Append(state, n) /\ Anc(n) = {n} \cup Anc(Prev(n))
      /\ (n # Genesis => state # <<>> /\ state[Len(state)] = Parent[n])
  <2>1. CASE n = Genesis
    <3>1. state = <<>>
      BY <1>2, <2>1, Zenon DEF Prev, PathOf
    <3>2. Path[n] = <<n>> /\ Anc(n) = {n} /\ Anc(Prev(n)) = {}
      BY <2>1, PathUnfolds, AncBasics, Zenon DEF Prev
    <3>3. Append(<<>>, n) = <<n>>
      OBVIOUS
    <3> QED BY <2>1, <3>1, <3>2, <3>3, Zenon
  <2>2. CASE n # Genesis
    <3>1. Prev(n) = Parent[n] /\ Parent[n] \in Blocks /\ Parent[n] # None
      BY <1>1, <2>2, ParentIsBlock, Zenon DEF Prev
    <3>2. state = Path[Parent[n]]
      BY <1>2, <3>1, Zenon DEF PathOf
    <3>3. Path[n] = Append(Path[Parent[n]], n) /\ Anc(n) = {n} \cup Anc(Parent[n])
      BY <1>1, <2>2, PathUnfolds, AncBasics, Zenon
    <3> QED BY <3>1, <3>2, <3>3, PathBasics, Zenon
  <2> QED BY <2>1, <2>2, Zenon
<1>4. state' = Append(state, n) /\ failed' = failed
      /\ heightIndex' = [heightIndex EXCEPT ![Height(n)] = [block |-> n, state |-> state']]
  BY <1>3, Zenon DEF CustomAppend
<1>5. heightIndex' = [heightIndex EXCEPT ![Height(n)] = Entry(n)] /\ state' \in Seq(Blocks)
  BY <1>1, <1>3, <1>4, PathBasics, Zenon DEF Entry
<1>6. ASSUME NEW b \in Anc(Position) PROVE b \in Blocks /\ Height(b) # Height(n)
  <2>1. n # Genesis /\ Prev(n) = Parent[n] /\ Parent[n] \in Blocks /\ b \in Anc(Parent[n]) /\ b \in Blocks
    BY <1>1, AncBasics, Zenon DEF Prev
  <2>2. Height(b) <= Height(Parent[n]) /\ Height(n) = Height(Parent[n]) + 1 /\ Height(b) \in Nat /\ Height(Parent[n]) \in Nat
    BY <1>1, <2>1, OnPath, PathBasics, Zenon
  <2> QED BY <2>1, <2>2
<1> QED BY <1>1, <1>3, <1>4, <1>5, <1>6, Zenon

\* ProcessBlock overwrites the entry of another block of this height only if it is not needed.
LEMMA AppendKeeps ==
  ASSUME Types, Entries, Threads, Exact, BeforeCrash, failed = "no", sync # "down", todo # NoTask,
         ~Rewinding, CustomAppend(todo.block), hashIndex' = hashIndex, Position' = todo.block
  PROVE  /\ \A b \in Blocks : Stored(b) => Stored(b)'
         /\ \A b \in Anc(todo.block) : Found(b)'
         /\ crashes = 0 => \A b \in Anc(todo.block) : Here(b)'
<1>0. PICK n : n = todo.block
  BY Zenon
<1>1. /\ n \in Blocks /\ heightIndex' = [heightIndex EXCEPT ![Height(n)] = Entry(n)]
      /\ Anc(n) = {n} \cup Anc(Position) /\ \A b \in Anc(Position) : b \in Blocks /\ Height(b) # Height(n)
  BY <1>0, AppendFacts, Zenon
<1>2. Height(n) \in Heights /\ \A b \in Blocks : Height(b) \in Heights
  BY <1>1, PathBasics, Zenon
<1>3. Entry(n).block = n
  BY Zenon DEF Entry
<1>4. Here(n)'
  BY <1>1, <1>2, <1>3, Zenon DEF Here, Types
<1>5. \A b \in Anc(Position) : Here(b)' <=> Here(b)
  BY <1>1, <1>2, Zenon DEF Here, Types
<1>6. \A b \in Anc(n) : Found(b)'
  BY <1>1, <1>4, <1>5, Zenon DEF Found, Exact
<1>7. ASSUME NEW b \in Blocks, Stored(b) PROVE Stored(b)'
  <2>1. CASE hashIndex[b] # <<>>
    BY <2>1, Zenon DEF Stored
  <2>2. CASE b \in Anc(Position)
    BY <1>0, <1>1, <1>6, <2>2, Zenon DEF Stored
  <2> QED BY <1>7, <2>1, <2>2, Zenon DEF Stored
<1>8. crashes = 0 => \A b \in Anc(n) : Here(b)'
  BY <1>1, <1>4, <1>5, Zenon DEF BeforeCrash
<1> QED BY <1>0, <1>6, <1>7, <1>8, Zenon

-----------------------------------------------------------------------------
(* The callbacks *)

\* What comes later does not change where the first callbacks lead.
LEMMA SamePrefix ==
  ASSUME NEW n \in 0 .. Len(queue), \A i \in 1 .. Len(queue) : queue'[i] = queue[i], Len(queue) \in Nat
  PROVE  /\ \A b : LeadTo(n, b) => LeadTo(n, b)'
         /\ best' = best /\ Fits(n) => Fits(n)'
<1>1. \A i \in 1 .. n : queue'[i] = queue[i]
  OBVIOUS
<1> QED BY <1>1, SMTT(30) DEF LeadTo, Fits, IsConnected

\* The queue without its head
LEMMA PopFacts ==
  ASSUME queue \in Seq(Event), queue # <<>>, queue' = Tail(queue)
  PROVE  /\ Len(queue) \in Nat \ {0} /\ Len(queue') = Len(queue) - 1 /\ queue' \in Seq(Event) /\ Head(queue) = queue[1]
         /\ \A i \in 1 .. Len(queue) : queue[i] \in Event
         /\ \A i \in 1 .. Len(queue) - 1 : queue'[i] = queue[i + 1] /\ (IsConnected(i)' <=> IsConnected(i + 1))
BY DEF IsConnected

LEMMA PopOrdered ==
  ASSUME queue \in Seq(Event), queue # <<>>, queue' = Tail(queue), Ordered
  PROVE  Ordered'
<1>1. ASSUME NEW i \in 1 .. Len(queue'), IsConnected(i)' PROVE queue'[i].block # Genesis
  BY <1>1, PopFacts DEF Ordered
<1>2. ASSUME NEW i \in 1 .. Len(queue'), NEW j \in 1 .. Len(queue'), i < j, IsConnected(i)', IsConnected(j)',
             \A k \in i + 1 .. j - 1 : ~IsConnected(k)'
      PROVE  Parent[queue'[j].block] \in Anc(queue'[i].block)
  <2>1. i + 1 \in 1 .. Len(queue) /\ j + 1 \in 1 .. Len(queue) /\ i + 1 < j + 1 /\ IsConnected(i + 1) /\ IsConnected(j + 1)
    BY <1>2, PopFacts
  <2>2. ASSUME NEW k \in (i + 1) + 1 .. (j + 1) - 1 PROVE ~IsConnected(k)
    <3>1. k - 1 \in i + 1 .. j - 1 /\ k - 1 \in 1 .. Len(queue) - 1 /\ (k - 1) + 1 = k
      BY PopFacts
    <3>2. ~IsConnected(k - 1)' /\ (IsConnected(k - 1)' <=> IsConnected((k - 1) + 1))
      BY <1>2, <3>1, PopFacts, Zenon
    <3> QED BY <3>1, <3>2, Zenon
  <2>3. Parent[queue[j + 1].block] \in Anc(queue[i + 1].block)
    BY <2>1, <2>2, Zenon DEF Ordered
  <2> QED BY <2>3, PopFacts, Zenon
<1> QED BY <1>1, <1>2, Zenon DEF Ordered

LEMMA PopLeads ==
  ASSUME queue \in Seq(Event), queue # <<>>, queue' = Tail(queue),
         NEW n \in 1 .. Len(queue), NEW b, LeadTo(n, b)
  PROVE  LeadTo(n - 1, b)'
<1> SUFFICES ASSUME NEW i \in 1 .. n - 1, IsConnected(i)', \A j \in i + 1 .. n - 1 : ~IsConnected(j)'
             PROVE  b \in Anc(queue'[i].block)
  BY Zenon DEF LeadTo
<1>1. i + 1 \in 1 .. n /\ IsConnected(i + 1) /\ queue'[i] = queue[i + 1]
  BY PopFacts
<1>2. ASSUME NEW j \in (i + 1) + 1 .. n PROVE ~IsConnected(j)
  <2>1. j - 1 \in i + 1 .. n - 1 /\ j - 1 \in 1 .. Len(queue) - 1 /\ (j - 1) + 1 = j
    BY PopFacts
  <2>2. ~IsConnected(j - 1)' /\ (IsConnected(j - 1)' <=> IsConnected((j - 1) + 1))
    BY <2>1, PopFacts, Zenon
  <2> QED BY <2>1, <2>2, Zenon
<1> QED BY <1>1, <1>2, Zenon DEF LeadTo

\* A callback that is ignored was not one that fits.
LEMMA PopFits ==
  ASSUME queue \in Seq(Event), queue # <<>>, queue' = Tail(queue), best' = best,
         NEW n \in 1 .. Len(queue), Fits(n), ~(IsConnected(1) /\ Parent[queue[1].block] \in Anc(best))
  PROVE  Fits(n - 1)'
<1>1. PICK i \in 1 .. n : IsConnected(i) /\ Parent[queue[i].block] \in Anc(best)
  BY Zenon DEF Fits
<1>2. i - 1 \in 1 .. n - 1 /\ i - 1 \in 1 .. Len(queue) - 1 /\ (i - 1) + 1 = i
  BY <1>1, PopFacts
<1>3. IsConnected(i - 1)' /\ queue'[i - 1] = queue[i]
  BY <1>1, <1>2, PopFacts, Zenon
<1> QED BY <1>1, <1>2, <1>3, Zenon DEF Fits

\* After a block is indexed the next callback fits, or the chain is reached.
LEMMA IndexedFits ==
  ASSUME queue \in Seq(Event), queue # <<>>, queue' = Tail(queue), best' = queue[1].block,
         Ordered, IsConnected(1), NEW n \in 1 .. Len(queue), NEW b, LeadTo(n, b)
  PROVE  b \in Anc(queue[1].block) \/ Fits(n - 1)'
<1> DEFINE C == {i \in 2 .. n : IsConnected(i)}
<1>0. Len(queue) \in Nat \ {0}
  BY PopFacts, Zenon
<1>1. CASE C = {}
  BY <1>0, <1>1 DEF LeadTo
<1>2. CASE C # {}
  <2>1. C \in SUBSET Nat
    OBVIOUS
  <2>2. PICK j \in C : \A k \in C : j <= k
    <3> HIDE DEF C
    <3> QED BY <1>2, <2>1, LeastNat, Zenon
  <2>3. j \in 2 .. n /\ IsConnected(j) /\ j \in 1 .. Len(queue) /\ 1 < j /\ 1 \in 1 .. Len(queue)
    BY <1>0
  <2>4. ASSUME NEW k \in 1 + 1 .. j - 1 PROVE ~IsConnected(k)
    <3>1. k \in 2 .. n /\ ~(j <= k)
      BY <2>3
    <3> QED BY <2>2, <3>1, Zenon
  <2>5. Parent[queue[j].block] \in Anc(queue[1].block)
    BY <2>3, <2>4, Zenon DEF Ordered
  <2>6. j - 1 \in 1 .. n - 1 /\ j - 1 \in 1 .. Len(queue) - 1 /\ (j - 1) + 1 = j
    BY <2>3, <1>0
  <2>7. IsConnected(j - 1)' /\ queue'[j - 1] = queue[j]
    BY <2>3, <2>6, PopFacts, Zenon
  <2> QED BY <2>5, <2>6, <2>7, Zenon DEF Fits
<1> QED BY <1>1, <1>2, Zenon

\* The callbacks of a move of the tip: the blocks above the fork, in order
Announced(b, f, l, k) ==
  /\ l = Len(queue) /\ l \in Nat /\ k \in Nat
  /\ f \in Blocks /\ f \in Anc(b) /\ f \in Anc(tip)
  /\ queue' \in Seq(Event) /\ Len(queue') = l + k
  /\ \A i \in 1 .. l : queue'[i] = queue[i]
  /\ \A i \in 1 .. k :
       /\ queue'[l + i].type = "connected" /\ queue'[l + i].block \in Blocks \ {Genesis}
       /\ Parent[queue'[l + i].block] = IF i = 1 THEN f ELSE queue'[l + (i - 1)].block
  /\ IF k = 0 THEN b = f ELSE queue'[l + k].block = b

\* The callbacks of a reorganisation lead from the fork to the new tip.
LEMMA MoveFacts ==
  ASSUME Types, NEW b \in Blocks, MoveTip(b)
  PROVE  \E f, l, k : Announced(b, f, l, k)
<1>0. PICK f, l, k : f = Fork(b, tip) /\ l = Len(queue) /\ k = Height(b) - Height(f)
  BY Zenon
<1> DEFINE new == [i \in 1 .. k |-> [type |-> "connected", block |-> Path[b][Height(f) + 1 + i]]]
<1>1. f \in Blocks /\ f \in Anc(b) /\ f \in Anc(tip)
  BY <1>0, ForkIs, Zenon DEF Types
<1>2. Height(f) \in Nat /\ Height(b) \in Nat /\ Height(f) <= Height(b) /\ k \in Nat
      /\ Path[b][Height(f) + 1] = f
  BY <1>0, <1>1, PathBasics, OnPath, SMTT(30)
<1>3. ASSUME NEW i \in 1 .. k
      PROVE  LET n == Path[b][Height(f) + 1 + i]
             IN n \in Blocks \ {Genesis} /\ Parent[n] = Path[b][Height(f) + i]
  <2> DEFINE h == Height(f) + i - 1
             x == Path[b][h + 1]
  <2>1. h \in 0 .. Height(b) /\ h < Height(b) /\ h \in Nat
    BY <1>0, <1>2
  <2>2. x \in Anc(b) /\ Height(x) = h
    <3> HIDE DEF h
    <3> QED BY <2>1, PathAt, Zenon
  <2>3. x # b
    BY <2>1, <2>2
  <2>4. Path[b][Height(x) + 2] \in Blocks \ {Genesis} /\ Parent[Path[b][Height(x) + 2]] = x
    <3> HIDE DEF x
    <3> QED BY <2>2, <2>3, NextOnPath, Zenon
  <2>5. Height(x) + 2 = Height(f) + 1 + i /\ h + 1 = Height(f) + i
    <3> HIDE DEF x
    <3> QED BY <1>2, <2>2
  <2> HIDE DEF h
  <2>6. x = Path[b][h + 1]
    BY Zenon
  <2> HIDE DEF x
  <2> QED BY <2>4, <2>5, <2>6, Zenon
<1>4. queue \in Seq(Event) /\ l \in Nat
  BY <1>0 DEF Types, Event
<1>5. new \in Seq(Event) /\ Len(new) = k /\ \A i \in 1 .. k : new[i] = [type |-> "connected", block |-> Path[b][Height(f) + 1 + i]]
  <2>1. new \in [1 .. k -> Event]
    BY <1>3, Zenon DEF Event
  <2>2. \A s \in [1 .. k -> Event] : s \in Seq(Event) /\ Len(s) = k
    BY <1>2
  <2>3. \A i \in 1 .. k : new[i] = [type |-> "connected", block |-> Path[b][Height(f) + 1 + i]]
    BY Zenon
  <2> HIDE DEF new
  <2> QED BY <2>1, <2>2, <2>3, Zenon
<1>6. queue' = queue \o new
  BY <1>0, Zenon DEF MoveTip
<1>7. queue' \in Seq(Event) /\ Len(queue') = l + k /\ (\A i \in 1 .. l : queue'[i] = queue[i])
      /\ \A i \in 1 .. k : queue'[l + i] = new[i]
  <2> HIDE DEF new
  <2>1. queue \in Seq(Event) /\ new \in Seq(Event) /\ Len(new) = k /\ Len(queue) = l
    BY <1>0, <1>2, <1>4, <1>5
  <2>2. /\ queue \o new \in Seq(Event) /\ Len(queue \o new) = Len(queue) + Len(new)
        /\ \A i \in 1 .. Len(queue) : (queue \o new)[i] = queue[i]
        /\ \A i \in 1 .. Len(new) : (queue \o new)[Len(queue) + i] = new[i]
    BY <2>1, SMTT(30)
  <2> QED BY <1>6, <2>1, <2>2, Zenon
<1>8. ASSUME NEW i \in 1 .. k PROVE queue'[l + i].type = "connected" /\ queue'[l + i].block = Path[b][Height(f) + 1 + i]
  BY <1>5, <1>7
<1>9. ASSUME NEW i \in 1 .. k
      PROVE  /\ queue'[l + i].type = "connected" /\ queue'[l + i].block \in Blocks \ {Genesis}
             /\ Parent[queue'[l + i].block] = IF i = 1 THEN f ELSE queue'[l + (i - 1)].block
  <2>1. queue'[l + i].type = "connected" /\ queue'[l + i].block \in Blocks \ {Genesis}
        /\ Parent[queue'[l + i].block] = Path[b][Height(f) + i]
    BY <1>3, <1>8, Zenon
  <2>2. CASE i = 1
    BY <1>2, <2>1, <2>2, Zenon
  <2>3. CASE i # 1
    <3>1. i - 1 \in 1 .. k /\ Height(f) + 1 + (i - 1) = Height(f) + i
      BY <1>2, <2>3
    <3> QED BY <1>8, <2>1, <2>3, <3>1, Zenon
  <2> QED BY <2>2, <2>3, Zenon
<1>10. IF k = 0 THEN b = f ELSE queue'[l + k].block = b
  <2>1. Len(Path[b]) = Height(b) + 1 /\ Path[b][Len(Path[b])] = b
    BY PathBasics, Zenon
  <2>2. CASE k = 0
    BY <1>0, <1>2, <2>1, <2>2
  <2>3. CASE k # 0
    <3>1. k \in 1 .. k
      BY <1>2, <2>3
    <3>2. Height(f) + 1 + k = Len(Path[b])
      BY <1>0, <1>2, <2>1
    <3> QED BY <1>8, <2>1, <2>3, <3>1, <3>2, Zenon
  <2> QED BY <2>2, <2>3, Zenon
<1>11. Announced(b, f, l, k)
  BY <1>0, <1>1, <1>2, <1>4, <1>7, <1>9, <1>10, Zenon DEF Announced
<1> QED BY <1>11, Zenon

\* They carry on where the queue, or the index, stood.
LEMMA MoveCallbacks ==
  ASSUME Types, Callbacks, NEW b \in Blocks, MoveTip(b)
  PROVE  /\ Ordered' /\ LeadTo(Len(queue), b)'
         /\ synced => b \in Anc(best) \/ Fits(Len(queue))'
         /\ queue' \in Seq(Event) /\ Len(queue) <= Len(queue') /\ Len(queue) \in Nat
         /\ \A i \in 1 .. Len(queue) : queue'[i] = queue[i]
<1>0. PICK f, l, k : Announced(b, f, l, k)
  BY MoveFacts, Zenon
<1>1. l = Len(queue)
  BY <1>0, Zenon DEF Announced
<1>2. /\ f \in Blocks /\ f \in Anc(b) /\ f \in Anc(tip) /\ l \in Nat /\ k \in Nat
      /\ queue' \in Seq(Event) /\ Len(queue') = l + k
      /\ \A i \in 1 .. l : queue'[i] = queue[i]
  BY <1>0, Zenon DEF Announced
<1>3. \A i \in 1 .. k :
              /\ IsConnected(l + i)' /\ queue'[l + i].block \in Blocks \ {Genesis}
              /\ Parent[queue'[l + i].block] = IF i = 1 THEN f ELSE queue'[l + (i - 1)].block
  BY <1>0, Zenon DEF Announced, IsConnected
<1>4. IF k = 0 THEN b = f ELSE queue'[l + k].block = b
  BY <1>0, Zenon DEF Announced
<1>5. \A i \in 1 .. l : IsConnected(i)' <=> IsConnected(i)
  BY <1>2, Zenon DEF IsConnected
<1>6. Ordered /\ LeadTo(l, tip)
  BY <1>1, Zenon DEF Callbacks
<1>7. tip \in Blocks /\ \A i \in 1 .. l : queue[i].block \in Blocks
  <2>1. tip \in Blocks /\ queue \in Seq(Event)
    BY Zenon DEF Types, Event
  <2>2. \A i \in 1 .. l : queue[i] \in Event
    BY <1>1, <2>1
  <2> QED BY <2>1, <2>2, Zenon DEF Event
<1>8. ASSUME NEW i \in 1 .. l, IsConnected(i), \A j \in i + 1 .. l : ~IsConnected(j)
      PROVE  f \in Anc(queue[i].block) /\ tip \in Anc(queue[i].block)
  <2>1. tip \in Anc(queue[i].block)
    BY <1>6, <1>8, Zenon DEF LeadTo
  <2> QED BY <1>2, <1>7, <2>1, AncTransitive, Zenon
<1>9. Ordered'
  <2>1. ASSUME NEW i \in 1 .. l + k, IsConnected(i)' PROVE queue'[i].block # Genesis
    <3>1. CASE i \in 1 .. l
      BY <1>1, <1>2, <1>5, <1>6, <2>1, <3>1, Zenon DEF Ordered
    <3>2. CASE i \notin 1 .. l
      <4>1. i - l \in 1 .. k /\ l + (i - l) = i
        BY <1>2, <3>2
      <4> QED BY <1>3, <4>1, Zenon
    <3> QED BY <3>1, <3>2, Zenon
  <2>2. ASSUME NEW i \in 1 .. l + k, NEW j \in 1 .. l + k, i < j, IsConnected(i)', IsConnected(j)',
               \A m \in i + 1 .. j - 1 : ~IsConnected(m)'
        PROVE  Parent[queue'[j].block] \in Anc(queue'[i].block)
    <3>1. CASE j \in 1 .. l
      <4>1. i \in 1 .. l /\ \A m \in i + 1 .. j - 1 : m \in 1 .. l
        BY <1>2, <2>2, <3>1
      <4>2. IsConnected(i) /\ IsConnected(j) /\ \A m \in i + 1 .. j - 1 : ~IsConnected(m)
        BY <1>5, <2>2, <3>1, <4>1, Zenon
      <4>3. Parent[queue[j].block] \in Anc(queue[i].block)
        BY <1>1, <1>6, <2>2, <3>1, <4>1, <4>2, Zenon DEF Ordered
      <4> QED BY <1>2, <3>1, <4>1, <4>3, Zenon
    <3>2. CASE j \notin 1 .. l
      <4>1. j - l \in 1 .. k /\ l + (j - l) = j
        BY <1>2, <3>2
      <4>2. CASE j - l = 1
        <5>1. i \in 1 .. l /\ j = l + 1 /\ \A m \in i + 1 .. l : m \in i + 1 .. j - 1 /\ m \in 1 .. l
          BY <1>2, <2>2, <4>1, <4>2
        <5>2. IsConnected(i) /\ \A m \in i + 1 .. l : ~IsConnected(m)
          BY <1>5, <2>2, <5>1, Zenon
        <5>3. f \in Anc(queue[i].block)
          BY <1>8, <5>1, <5>2, Zenon
        <5>4. Parent[queue'[j].block] = f
          BY <1>3, <4>1, <4>2, Zenon
        <5> QED BY <1>2, <5>1, <5>3, <5>4, Zenon
      <4>3. CASE j - l # 1
        <5>1. (j - l) - 1 \in 1 .. k /\ l + ((j - l) - 1) = j - 1
          BY <1>2, <4>1, <4>3
        <5>2. IsConnected(j - 1)' /\ queue'[j - 1].block \in Blocks
          BY <1>3, <5>1, Zenon
        <5>3. Parent[queue'[j].block] = queue'[j - 1].block
          BY <1>3, <4>1, <4>3, <5>1, Zenon
        <5>4. i = j - 1
          <6>1. i < j - 1 => j - 1 \in i + 1 .. j - 1
            BY <1>2
          <6>2. i \in Int /\ j \in Int
            BY <1>2
          <6> QED BY <2>2, <5>2, <6>1, <6>2
        <5> QED BY <5>2, <5>3, <5>4, AncBasics, Zenon
      <4> QED BY <4>2, <4>3, Zenon
    <3> QED BY <3>1, <3>2, Zenon
  <2> QED BY <1>2, <2>1, <2>2, Zenon DEF Ordered
<1>10. LeadTo(l + k, b)'
  <2> SUFFICES ASSUME NEW i \in 1 .. l + k, IsConnected(i)', \A j \in i + 1 .. l + k : ~IsConnected(j)'
               PROVE  b \in Anc(queue'[i].block)
    BY Zenon DEF LeadTo
  <2>1. CASE k = 0
    <3>1. i \in 1 .. l /\ \A j \in i + 1 .. l : j \in i + 1 .. l + k /\ j \in 1 .. l
      BY <1>2, <2>1
    <3>2. IsConnected(i) /\ \A j \in i + 1 .. l : ~IsConnected(j)
      BY <1>5, <3>1, Zenon
    <3>3. f \in Anc(queue[i].block)
      BY <1>8, <3>1, <3>2, Zenon
    <3> QED BY <1>2, <1>4, <2>1, <3>1, <3>3, Zenon
  <2>2. CASE k # 0
    <3>1. k \in 1 .. k /\ l + k \in 1 .. l + k
      BY <1>2, <2>2
    <3>2. IsConnected(l + k)' /\ queue'[l + k].block = b
      BY <1>3, <1>4, <2>2, <3>1, Zenon
    <3>3. i = l + k
      <4>1. i < l + k => l + k \in i + 1 .. l + k
        BY <1>2
      <4> QED BY <1>2, <3>2, <4>1
    <3> QED BY <3>2, <3>3, AncBasics, Zenon
  <2> QED BY <2>1, <2>2, Zenon
<1>11. ASSUME synced PROVE b \in Anc(best) \/ Fits(l + k)'
  <2>0. best' = best /\ best \in Places
    BY Zenon DEF MoveTip, Types
  <2>1. CASE Fits(l)
    <3>1. PICK i \in 1 .. l : IsConnected(i) /\ Parent[queue[i].block] \in Anc(best)
      BY <2>1, Zenon DEF Fits
    <3>2. i \in 1 .. l + k /\ IsConnected(i)' /\ queue'[i] = queue[i]
      BY <1>2, <1>5, <3>1
    <3> QED BY <2>0, <3>1, <3>2, Zenon DEF Fits
  <2>2. CASE tip \in Anc(best)
    <3>1. f \in Anc(best)
      BY <1>2, <2>0, <2>2, AncTransitive, Zenon DEF Places
    <3>2. CASE k = 0
      BY <1>4, <3>1, <3>2, Zenon
    <3>3. CASE k # 0
      <4>1. 1 \in 1 .. k /\ l + 1 \in 1 .. l + k
        BY <1>2, <3>3
      <4>2. IsConnected(l + 1)' /\ Parent[queue'[l + 1].block] = f
        BY <1>3, <4>1, Zenon
      <4> QED BY <2>0, <3>1, <4>1, <4>2, Zenon DEF Fits
    <3> QED BY <3>2, <3>3, Zenon
  <2> QED BY <1>1, <1>11, <2>1, <2>2, Zenon DEF Callbacks
<1>12. l + k = Len(queue')
  BY <1>2, Zenon
<1>13. LeadTo(Len(queue), b)'
  BY <1>10, <1>12, Zenon DEF LeadTo, IsConnected
<1>14. synced => b \in Anc(best) \/ Fits(Len(queue))'
  BY <1>11, <1>12, Zenon DEF Fits, IsConnected
<1>15. Len(queue) <= Len(queue') /\ Len(queue) \in Nat
  BY <1>1, <1>2
<1> QED BY <1>1, <1>2, <1>9, <1>13, <1>14, <1>15, Zenon

-----------------------------------------------------------------------------
(* Steps that do not index *)

LEMMA InitIInv == Init => IInv
<1> SUFFICES ASSUME Init PROVE IInv
  BY Zenon
<1>1. Genesis \in Blocks /\ None \notin Blocks /\ Anc(Genesis) = {Genesis} /\ Anc(None) = {}
  BY ParentIsBlock, AncBasics, Zenon
<1>2. Types
  <2>1. heightIndex \in [Heights -> {NoEntry} \cup {Entry(b) : b \in Blocks}]
        /\ hashIndex \in [Blocks -> Seq(Blocks)] /\ state \in Seq(Blocks) /\ queue \in Seq(Event)
    BY DEF Init
  <2> QED BY <1>1, <2>1, Zenon DEF Init, Types, NoTask, NoCaller, Places
<1>3. Entries
  BY <1>1, Zenon DEF Init, Entries
<1>4. NoEntry.block = None /\ Position = None
  BY Zenon DEF Init, NoEntry, Position, NoTask
<1>5. Threads /\ Exact /\ CommittedStored /\ BestStored /\ BeforeCrash
  BY <1>1, <1>4, Zenon DEF Init, Threads, NoTask, NoCaller, Exact, CommittedStored, BestStored, BeforeCrash
<1>6. Callbacks
  <2>1. Len(queue) = 0 /\ 1 .. 0 = {}
    BY DEF Init
  <2> QED BY <2>1, Zenon DEF Init, Callbacks, Ordered, LeadTo
<1>7. caller.pc = "idle" /\ failed = "no"
  BY Zenon DEF Init, NoCaller
<1> QED BY <1>2, <1>3, <1>5, <1>6, <1>7, Zenon DEF IInv, Working, Waiting, Answered, Reason

\* The index itself is left alone.
Untouched == UNCHANGED <<heightIndex, hashIndex, committed, best, synced, state, sync, event, at, todo, failed, crashes>>

\* These steps keep all of the invariant that is about the index itself.
LEMMA Quiet ==
  ASSUME IInv, failed = "no", Untouched, caller'.pc # "idle" => synced /\ caller'.block \in Blocks
  PROVE  /\ Threads' /\ Exact' /\ CommittedStored' /\ BestStored' /\ BeforeCrash' /\ Reason'
         /\ \A b : (Stored(b)' <=> Stored(b)) /\ (Found(b)' <=> Found(b))
<1>1. Position' = Position /\ heightIndex' = heightIndex /\ hashIndex' = hashIndex
  BY Zenon DEF Untouched, Position
<1>2. \A b : (Stored(b)' <=> Stored(b)) /\ (Found(b)' <=> Found(b)) /\ (Here(b)' <=> Here(b))
  BY <1>1, SameEntries, SameStored, Zenon
<1>3. Threads'
  BY Zenon DEF IInv, Working, Untouched, Threads, TaskFits
<1>4. Exact' /\ BeforeCrash'
  BY <1>1, <1>2, Zenon DEF IInv, Working, Untouched, Exact, BeforeCrash
<1>5. CommittedStored' /\ BestStored'
  BY <1>2, Zenon DEF IInv, Working, Untouched, CommittedStored, BestStored
<1>6. Reason'
  BY Zenon DEF IInv, Untouched, Reason
<1> QED BY <1>2, <1>3, <1>4, <1>5, <1>6, Zenon

\* A caller goes on waiting if its place in the queue stays right.
LEMMA GoesOnWaiting ==
  ASSUME NEW n, NEW c, caller'.left = n, caller'.block = c, n <= Len(queue'), LeadTo(n, c)',
         Stored(c)' \/ Fits(n)'
  PROVE  Waiting'
<1>1. LeadTo(caller.left, caller.block)'
  BY Zenon DEF LeadTo, IsConnected
<1>2. Stored(c)' => Stored(caller.block)'
  BY Zenon DEF Stored, Found, Here
<1>3. Fits(n)' => Fits(caller.left)'
  BY Zenon DEF Fits, IsConnected
<1> QED BY <1>1, <1>2, <1>3, Zenon DEF Waiting

LEMMA WaitsOn ==
  ASSUME IInv, failed = "no", caller' = caller, Len(queue) <= Len(queue'), queue' \in Seq(Event),
         \A i \in 1 .. Len(queue) : queue'[i] = queue[i],
         best' = best, \A b : Stored(b)' <=> Stored(b)
  PROVE  Waiting'
<1> SUFFICES ASSUME caller.pc = "waits" PROVE Waiting'
  BY Zenon DEF Waiting
<1>1. PICK n, c : n = caller.left /\ c = caller.block
  BY Zenon
<1>2. n <= Len(queue) /\ LeadTo(n, c) /\ (Stored(c) \/ Fits(n)) /\ n \in Nat /\ queue \in Seq(Event)
  BY <1>1, Zenon DEF IInv, Working, Waiting, Types
<1>3. n \in 0 .. Len(queue) /\ Len(queue) \in Nat /\ n <= Len(queue')
  BY <1>2
<1>4. LeadTo(n, c)' /\ (Fits(n) => Fits(n)')
  BY <1>2, <1>3, SamePrefix, Zenon
<1> QED BY <1>1, <1>2, <1>3, <1>4, GoesOnWaiting, Zenon

LEMMA MoveStep ==
  ASSUME IInv, NEW b \in Blocks, MoveTip(b)
  PROVE  IInv'
<1>1. failed = "no" /\ Untouched /\ caller' = caller /\ tip' = b
  BY Zenon DEF MoveTip, Up, Untouched, database
<1>2. Working /\ Types /\ Callbacks
  BY <1>1, Zenon DEF IInv, Working
<1>3. /\ Ordered' /\ LeadTo(Len(queue), tip)' /\ (synced => tip' \in Anc(best) \/ Fits(Len(queue))')
      /\ queue' \in Seq(Event) /\ Len(queue) <= Len(queue') /\ Len(queue) \in Nat
      /\ \A i \in 1 .. Len(queue) : queue'[i] = queue[i]
  <2>1. LeadTo(Len(queue), b)' => LeadTo(Len(queue), tip)'
    BY <1>1, Zenon DEF LeadTo
  <2> QED BY <1>1, <1>2, <2>1, MoveCallbacks, Zenon
<1>4. /\ Threads' /\ Exact' /\ CommittedStored' /\ BestStored' /\ BeforeCrash' /\ Reason'
      /\ \A c : (Stored(c)' <=> Stored(c)) /\ (Found(c)' <=> Found(c))
  BY <1>1, <1>2, Quiet, Zenon DEF Working, Threads
<1>5. Types'
  BY <1>1, <1>2, <1>3, Zenon DEF Types, MoveTip, Untouched
<1>6. Entries'
  BY <1>1, Zenon DEF IInv, Entries, MoveTip, database
<1>7. Callbacks'
  <2>1. event = "index" => queue # <<>> /\ IsConnected(1) /\ 1 \in 1 .. Len(queue)
    BY <1>2 DEF Callbacks, Types
  <2>2. event = "index" => queue' # <<>> /\ queue'[1] = queue[1]
    BY <1>3, <2>1
  <2>3. event' = event /\ todo' = todo /\ best' = best /\ synced' = synced
    BY <1>1, Zenon DEF Untouched
  <2>4. event' = "index" => queue' # <<>> /\ IsConnected(1)' /\ todo'.block = queue'[1].block /\ Parent[todo'.block] \in Anc(best')
    BY <1>2, <2>1, <2>2, <2>3, Zenon DEF Callbacks, IsConnected
  <2> QED BY <1>3, <2>3, <2>4, Zenon DEF Callbacks
<1>8. Waiting'
  BY <1>1, <1>3, <1>4, WaitsOn, Zenon DEF Untouched
<1>9. (caller'.pc = "answered" => Stored(caller.block)') /\ Answered'
  <2>1. PICK c : c = caller.block
    BY Zenon
  <2>2. (Stored(c)' <=> Stored(caller.block)') /\ (Found(c)' <=> Found(caller.block)')
    BY <1>1, <2>1, Zenon DEF Stored, Found, Here
  <2> QED BY <1>1, <1>2, <1>4, <2>1, <2>2, Zenon DEF Working, IInv, Answered
<1> QED BY <1>4, <1>5, <1>6, <1>7, <1>8, <1>9, Zenon DEF IInv, Working

\* An answer given stays true.
LEMMA StillAnswered ==
  ASSUME IInv, failed = "no", caller'.pc = "answered" => caller.pc = "answered", caller'.block = caller.block,
         \A b \in Blocks : (Stored(b) => Stored(b)') /\ (Found(b) => Found(b)')
  PROVE  (caller'.pc = "answered" => Stored(caller.block)') /\ Answered'
<1>1. PICK c : c = caller.block
  BY Zenon
<1>2. (Stored(c)' <=> Stored(caller.block)') /\ (Found(c)' <=> Found(caller.block)')
  BY <1>1, Zenon DEF Stored, Found, Here
<1> QED BY <1>1, <1>2, Zenon DEF IInv, Working, Threads, Answered

LEMMA FlushStep ==
  ASSUME IInv, FlushStateToDisk
  PROVE  IInv'
<1>1. failed = "no" /\ Untouched /\ caller' = caller /\ tip' = tip /\ flushed' = tip /\ indexed' = indexed \cup Anc(tip)
      /\ queue' = Append(queue, [type |-> "flushed", block |-> tip])
  BY Zenon DEF FlushStateToDisk, Up, Untouched, database
<1>2. Working /\ Types /\ Callbacks /\ tip \in Blocks /\ queue \in Seq(Event)
  BY <1>1, Zenon DEF IInv, Working, Types
<1>3. PICK l : l = Len(queue) /\ l \in Nat
  BY <1>2
<1>4. /\ queue' \in Seq(Event) /\ Len(queue') = l + 1 /\ (\A i \in 1 .. l : queue'[i] = queue[i])
      /\ queue'[l + 1].type = "flushed"
  <2>1. [type |-> "flushed", block |-> tip] \in Event
    BY <1>2, Zenon DEF Event
  <2> QED BY <1>1, <1>2, <1>3, <2>1
<1>5. (\A i \in 1 .. l : IsConnected(i)' <=> IsConnected(i)) /\ ~IsConnected(l + 1)'
  BY <1>4, Zenon DEF IsConnected
<1>6. Ordered'
  <2>1. \A i \in 1 .. l + 1 : IsConnected(i)' => i \in 1 .. l
    BY <1>3, <1>5
  <2>2. ASSUME NEW i \in 1 .. l + 1, NEW j \in 1 .. l + 1, i < j, IsConnected(i)', IsConnected(j)',
               \A m \in i + 1 .. j - 1 : ~IsConnected(m)'
        PROVE  Parent[queue'[j].block] \in Anc(queue'[i].block)
    <3>1. i \in 1 .. l /\ j \in 1 .. l /\ IsConnected(i) /\ IsConnected(j)
      BY <1>5, <2>1, <2>2, Zenon
    <3>2. \A m \in i + 1 .. j - 1 : m \in 1 .. l
      BY <1>3, <3>1
    <3>3. \A m \in i + 1 .. j - 1 : ~IsConnected(m)
      BY <1>5, <2>2, <3>2, Zenon
    <3> QED BY <1>2, <1>3, <1>4, <2>2, <3>1, <3>3, Zenon DEF Callbacks, Ordered
  <2>3. \A i \in 1 .. l + 1 : IsConnected(i)' => queue'[i].block # Genesis
    BY <1>2, <1>3, <1>4, <1>5, <2>1, Zenon DEF Callbacks, Ordered
  <2> QED BY <1>4, <2>2, <2>3, Zenon DEF Ordered
<1>7. LeadTo(Len(queue), tip)'
  <2>1. LeadTo(l, tip)
    BY <1>2, <1>3, Zenon DEF Callbacks
  <2>2. ASSUME NEW i \in 1 .. l + 1, IsConnected(i)', \A j \in i + 1 .. l + 1 : ~IsConnected(j)'
        PROVE  tip \in Anc(queue'[i].block)
    <3>1. i \in 1 .. l /\ IsConnected(i)
      BY <1>3, <1>5, <2>2
    <3>2. \A j \in i + 1 .. l : j \in 1 .. l /\ j \in i + 1 .. l + 1
      BY <1>3, <3>1
    <3>3. \A j \in i + 1 .. l : ~IsConnected(j)
      BY <1>5, <2>2, <3>2, Zenon
    <3> QED BY <1>4, <2>1, <3>1, <3>3, Zenon DEF LeadTo
  <2> QED BY <1>1, <1>4, <2>2, Zenon DEF LeadTo, IsConnected
<1>8. best' = best /\ synced' = synced /\ (Fits(Len(queue)) => Fits(Len(queue))')
  <2>1. best' = best /\ synced' = synced
    BY <1>1, Zenon DEF Untouched
  <2>2. Fits(l) => Fits(l + 1)'
    BY <1>3, <1>4, <1>5, <2>1 DEF Fits
  <2>3. Fits(l + 1)' => Fits(Len(queue))'
    BY <1>4, Zenon DEF Fits, IsConnected
  <2> QED BY <1>3, <2>1, <2>2, <2>3, Zenon
<1>9. Callbacks'
  <2>1. event' = event /\ todo' = todo
    BY <1>1, Zenon DEF Untouched
  <2>2. event' = "index" => queue' # <<>> /\ IsConnected(1)' /\ todo'.block = queue'[1].block /\ Parent[todo'.block] \in Anc(best')
    <3>1. event = "index" => 1 \in 1 .. l /\ queue' # <<>>
      BY <1>2, <1>3, <1>4 DEF Callbacks
    <3> QED BY <1>2, <1>4, <1>5, <1>8, <2>1, <3>1, Zenon DEF Callbacks
  <2> QED BY <1>1, <1>2, <1>6, <1>7, <1>8, <2>2, Zenon DEF Callbacks
<1>10. /\ Threads' /\ Exact' /\ CommittedStored' /\ BestStored' /\ BeforeCrash' /\ Reason'
      /\ \A c : (Stored(c)' <=> Stored(c)) /\ (Found(c)' <=> Found(c))
  BY <1>1, <1>2, Quiet, Zenon DEF Working, Threads
<1>11. Anc(tip) \subseteq Blocks
  BY <1>2, AncBasics, Zenon
<1>12. Types'
  BY <1>1, <1>2, <1>4, <1>11, Zenon DEF Types, FlushStateToDisk, Untouched
<1>13. Entries'
  BY <1>1, Zenon DEF IInv, Entries, Untouched
<1>14. Waiting'
  <2>1. Len(queue) <= Len(queue') /\ \A i \in 1 .. Len(queue) : queue'[i] = queue[i]
    BY <1>3, <1>4
  <2> QED BY <1>1, <1>4, <1>8, <1>10, <2>1, WaitsOn, Zenon
<1>15. (caller'.pc = "answered" => Stored(caller.block)') /\ Answered'
  BY <1>1, <1>10, StillAnswered, Zenon
<1> QED BY <1>6, <1>9, <1>10, <1>12, <1>13, <1>14, <1>15, Zenon DEF IInv, Working

\* The caller and the interrupt do not matter to the callbacks.
LEMMA SameCallbacks ==
  ASSUME Callbacks, Untouched, tip' = tip, queue' = queue
  PROVE  Callbacks'
BY Zenon DEF Callbacks, Ordered, LeadTo, Fits, IsConnected, Untouched

LEMMA InterruptStep ==
  ASSUME IInv, Interrupt
  PROVE  IInv'
<1>1. failed = "no" /\ Untouched /\ caller' = caller /\ tip' = tip /\ queue' = queue /\ flushed' = flushed /\ indexed' = indexed
  BY Zenon DEF Interrupt, Up, Untouched, database, chain
<1>2. Working /\ Types /\ Callbacks
  BY <1>1, Zenon DEF IInv, Working
<1>3. /\ Threads' /\ Exact' /\ CommittedStored' /\ BestStored' /\ BeforeCrash' /\ Reason'
      /\ \A c : (Stored(c)' <=> Stored(c)) /\ (Found(c)' <=> Found(c))
  BY <1>1, <1>2, Quiet, Zenon DEF Working, Threads
<1>4. Types' /\ Entries'
  BY <1>1, <1>2, Zenon DEF IInv, Types, Entries, Interrupt, Untouched
<1>5. Callbacks'
  BY <1>1, <1>2, SameCallbacks, Zenon
<1>6. Waiting'
  <2>1. best' = best /\ queue' \in Seq(Event) /\ Len(queue) <= Len(queue')
    BY <1>1, <1>2 DEF Types, Untouched
  <2> QED BY <1>1, <1>3, <2>1, WaitsOn, Zenon
<1>7. (caller'.pc = "answered" => Stored(caller.block)') /\ Answered'
  BY <1>1, <1>3, StillAnswered, Zenon
<1> QED BY <1>3, <1>4, <1>5, <1>6, <1>7, Zenon DEF IInv, Working

LEMMA CallStep ==
  ASSUME IInv, Call
  PROVE  IInv'
<1>1. failed = "no" /\ Untouched /\ tip' = tip /\ queue' = queue /\ flushed' = flushed /\ indexed' = indexed /\ synced
  BY Zenon DEF Call, Up, Untouched, database, chain
<1>2. Working /\ Types /\ Callbacks /\ tip \in Blocks /\ queue \in Seq(Event) /\ Len(queue) \in Nat
  BY <1>1 DEF IInv, Working, Types
<1>3. caller' = IF tip \in Anc(best) THEN [pc |-> "answered", block |-> tip, left |-> 0]
               ELSE [pc |-> "waits", block |-> tip, left |-> Len(queue)]
  BY Zenon DEF Call
<1>4. caller'.block = tip /\ caller' \in [pc : {"idle", "waits", "answered"}, block : Places, left : Nat]
      /\ (tip \in Anc(best) => caller'.pc = "answered") /\ (tip \notin Anc(best) => caller'.pc = "waits" /\ caller'.left = Len(queue))
  BY <1>2, <1>3, Zenon DEF Places
<1>5. /\ Threads' /\ Exact' /\ CommittedStored' /\ BestStored' /\ BeforeCrash' /\ Reason'
      /\ \A c : (Stored(c)' <=> Stored(c)) /\ (Found(c)' <=> Found(c))
  BY <1>1, <1>2, <1>4, Quiet, Zenon
<1>6. Types' /\ Entries'
  BY <1>1, <1>2, <1>4, Zenon DEF IInv, Types, Entries, Call, Untouched
<1>7. Callbacks'
  BY <1>1, <1>2, SameCallbacks, Zenon
<1>8. PICK c, n : c = tip /\ n = Len(queue)
  BY Zenon
<1>9. CASE tip \in Anc(best)
  <2>1. Stored(c) /\ c \in Blocks
    BY <1>1, <1>2, <1>8, <1>9, Zenon DEF Working, BestStored
  <2>2. Stored(c)'
    BY <1>5, <2>1, Zenon
  <2>3. Stored(caller.block)'
    BY <1>4, <1>8, <2>2, Zenon DEF Stored, Found, Here
  <2>4. Answered'
    BY <1>2, <1>4, <2>3, Zenon DEF Stored, Found, Answered
  <2>5. Waiting'
    BY <1>4, <1>9, Zenon DEF Waiting
  <2> QED BY <1>5, <1>6, <1>7, <2>3, <2>4, <2>5, Zenon DEF IInv, Working
<1>10. CASE tip \notin Anc(best)
  <2>1. LeadTo(n, c) /\ Fits(n)
    BY <1>1, <1>2, <1>8, <1>10, Zenon DEF Callbacks
  <2>2. best' = best
    BY <1>1, Zenon DEF Untouched
  <2>3. LeadTo(n, c)' /\ Fits(n)'
    BY <1>1, <2>1, <2>2, Zenon DEF LeadTo, Fits, IsConnected
  <2>4. n <= Len(queue')
    BY <1>1, <1>2, <1>8
  <2>5. Waiting'
    BY <1>4, <1>8, <1>10, <2>3, <2>4, GoesOnWaiting, Zenon
  <2>6. caller'.pc = "waits"
    BY <1>4, <1>10, Zenon
  <2> QED BY <1>5, <1>6, <1>7, <2>5, <2>6, Zenon DEF IInv, Working, Answered
<1> QED BY <1>9, <1>10, Zenon

LEMMA AnswerStep ==
  ASSUME IInv, Answer
  PROVE  IInv'
<1>1. failed = "no" /\ Untouched /\ tip' = tip /\ queue' = queue /\ flushed' = flushed /\ indexed' = indexed
      /\ caller.pc = "waits" /\ caller.left = 0
  BY Zenon DEF Answer, Up, Untouched, database, chain
<1>2. Working /\ Types /\ Callbacks /\ synced /\ caller.block \in Blocks
  BY <1>1, Zenon DEF IInv, Working, Threads
<1>3. caller' = [caller EXCEPT !.pc = "answered"] /\ caller \in [pc : {"idle", "waits", "answered"}, block : Places, left : Nat]
  BY <1>2, Zenon DEF Answer, Types
<1>4. caller'.pc = "answered" /\ caller'.block = caller.block /\ caller' \in [pc : {"idle", "waits", "answered"}, block : Places, left : Nat]
  BY <1>3, Zenon
<1>5. /\ Threads' /\ Exact' /\ CommittedStored' /\ BestStored' /\ BeforeCrash' /\ Reason'
      /\ \A c : (Stored(c)' <=> Stored(c)) /\ (Found(c)' <=> Found(c))
  BY <1>1, <1>2, <1>4, Quiet, Zenon
<1>6. Types' /\ Entries'
  BY <1>1, <1>2, <1>4, Zenon DEF IInv, Types, Entries, Answer, Untouched
<1>7. Callbacks'
  BY <1>1, <1>2, SameCallbacks, Zenon
<1>8. PICK c : c = caller.block
  BY Zenon
<1>9. Stored(c)
  <2>1. ~Fits(caller.left)
    BY <1>1 DEF Fits
  <2> QED BY <1>1, <1>2, <1>8, <2>1, Zenon DEF Working, Waiting
<1>10. Stored(c)'
  BY <1>5, <1>9, Zenon
<1>11. Stored(caller.block)'
  BY <1>4, <1>8, <1>10, Zenon DEF Stored, Found, Here
<1>12. Answered' /\ Waiting'
  BY <1>2, <1>4, <1>11, Zenon DEF Stored, Found, Answered, Waiting
<1> QED BY <1>5, <1>6, <1>7, <1>11, <1>12, Zenon DEF IInv, Working

\* A callback less to wait for
LEMMA PopCaller ==
  ASSUME Types, Pop
  PROVE  caller'.pc = caller.pc /\ caller'.block = caller.block /\ caller'.left = (IF caller.left = 0 THEN 0 ELSE caller.left - 1)
         /\ caller' \in [pc : {"idle", "waits", "answered"}, block : Places, left : Nat]
<1>1. /\ caller' = [caller EXCEPT !.left = IF @ = 0 THEN 0 ELSE @ - 1]
      /\ caller \in [pc : {"idle", "waits", "answered"}, block : Places, left : Nat]
  BY Zenon DEF Pop, Types
<1> QED BY <1>1

\* A callback that changes nothing is taken from the queue.
LEMMA PopCallbacks ==
  ASSUME Types, Callbacks, queue # <<>>, Pop, tip' = tip, best' = best, synced' = synced, event' = "idle",
         synced => ~(IsConnected(1) /\ Parent[queue[1].block] \in Anc(best))
  PROVE  Callbacks'
<1>1. queue \in Seq(Event) /\ queue' = Tail(queue)
  BY Zenon DEF Types, Pop
<1>2. Len(queue) \in Nat \ {0} /\ Len(queue') = Len(queue) - 1
  BY <1>1, PopFacts, Zenon
<1>3. Ordered'
  BY <1>1, PopOrdered, Zenon DEF Callbacks
<1>4. PICK n, t : n = Len(queue) /\ t = tip
  BY Zenon
<1>5. LeadTo(n, t) /\ n \in 1 .. Len(queue)
  BY <1>2, <1>4 DEF Callbacks
<1>6. LeadTo(n - 1, t)'
  BY <1>1, <1>5, PopLeads, Zenon
<1>7. LeadTo(Len(queue), tip)'
  BY <1>2, <1>4, <1>6, Zenon DEF LeadTo
<1>8. synced /\ Fits(n) => Fits(n - 1)'
  BY <1>1, <1>5, PopFits, Zenon
<1>9. Fits(n - 1)' => Fits(Len(queue))'
  BY <1>2, <1>4, Zenon DEF Fits
<1>10. synced' => tip' \in Anc(best') \/ Fits(Len(queue))'
  BY <1>4, <1>8, <1>9, Zenon DEF Callbacks
<1> QED BY <1>3, <1>7, <1>10, Zenon DEF Callbacks

LEMMA PopWaiting ==
  ASSUME IInv, failed = "no", queue # <<>>, Pop, best' = best, \A b : Stored(b) => Stored(b)',
         synced => ~(IsConnected(1) /\ Parent[queue[1].block] \in Anc(best))
  PROVE  Waiting'
<1>1. queue \in Seq(Event) /\ queue' = Tail(queue) /\ Types
  BY Zenon DEF IInv, Types, Pop
<1>2. Len(queue) \in Nat \ {0} /\ Len(queue') = Len(queue) - 1
  BY <1>1, PopFacts, Zenon
<1>3. caller'.pc = caller.pc /\ caller'.block = caller.block /\ caller'.left = (IF caller.left = 0 THEN 0 ELSE caller.left - 1)
  BY <1>1, PopCaller, Zenon
<1> SUFFICES ASSUME caller.pc = "waits" PROVE Waiting'
  BY <1>3, Zenon DEF Waiting
<1>4. PICK n, c : n = caller.left /\ c = caller.block
  BY Zenon
<1>5. n <= Len(queue) /\ LeadTo(n, c) /\ (Stored(c) \/ Fits(n)) /\ n \in Nat /\ synced
  BY <1>4, Zenon DEF IInv, Working, Waiting, Types, Threads
<1>6. CASE n = 0
  <2>1. caller'.left = 0 /\ 0 <= Len(queue')
    BY <1>2, <1>3, <1>4, <1>6
  <2>2. LeadTo(0, c)' /\ ~Fits(n)
    BY <1>6 DEF LeadTo, Fits
  <2>3. Stored(c)'
    BY <1>5, <2>2, Zenon
  <2> QED BY <1>3, <1>4, <2>1, <2>2, <2>3, GoesOnWaiting, Zenon
<1>7. CASE n # 0
  <2>1. n \in 1 .. Len(queue)
    BY <1>2, <1>5, <1>7
  <2>2. caller'.left = n - 1 /\ n - 1 <= Len(queue')
    BY <1>2, <1>3, <1>4, <1>5, <1>7
  <2>3. LeadTo(n - 1, c)'
    BY <1>1, <1>5, <2>1, PopLeads, Zenon
  <2>4. Fits(n) => Fits(n - 1)'
    BY <1>1, <1>5, <2>1, PopFits, Zenon
  <2> QED BY <1>3, <1>4, <1>5, <2>2, <2>3, <2>4, GoesOnWaiting, Zenon
<1> QED BY <1>6, <1>7, Zenon

LEMMA IgnoreStep ==
  ASSUME IInv, IgnoreEvent
  PROVE  IInv'
<1>1. failed = "no" /\ Untouched /\ tip' = tip /\ queue' = Tail(queue) /\ flushed' = flushed /\ indexed' = indexed
      /\ event = "idle" /\ queue # <<>> /\ Pop
  BY Zenon DEF IgnoreEvent, Up, Untouched, database, chain, Pop
<1>2. Working /\ Types /\ Callbacks /\ queue \in Seq(Event)
  BY <1>1, Zenon DEF IInv, Working, Types
<1>3. queue' \in Seq(Event) /\ Head(queue) = queue[1]
  BY <1>1, <1>2, PopFacts, Zenon
<1>4. synced => ~(IsConnected(1) /\ Parent[queue[1].block] \in Anc(best))
  BY <1>3, Zenon DEF IgnoreEvent, Ignored, IsConnected
<1>5. caller'.pc = caller.pc /\ caller'.block = caller.block
      /\ caller' \in [pc : {"idle", "waits", "answered"}, block : Places, left : Nat]
  BY <1>1, <1>2, PopCaller, Zenon
<1>6. /\ Threads' /\ Exact' /\ CommittedStored' /\ BestStored' /\ BeforeCrash' /\ Reason'
      /\ \A c : (Stored(c)' <=> Stored(c)) /\ (Found(c)' <=> Found(c))
  BY <1>1, <1>2, <1>5, Quiet, Zenon DEF Working, Threads
<1>7. Types' /\ Entries'
  BY <1>1, <1>2, <1>3, <1>5, Zenon DEF IInv, Types, Entries, IgnoreEvent, Untouched
<1>8. best' = best /\ synced' = synced /\ event' = "idle"
  BY <1>1, Zenon DEF Untouched
<1>9. Callbacks'
  BY <1>1, <1>2, <1>4, <1>8, PopCallbacks, Zenon
<1>10. Waiting'
  BY <1>1, <1>4, <1>6, <1>8, PopWaiting, Zenon
<1>11. (caller'.pc = "answered" => Stored(caller.block)') /\ Answered'
  BY <1>1, <1>5, <1>6, StillAnswered, Zenon
<1> QED BY <1>6, <1>7, <1>9, <1>10, <1>11, Zenon DEF IInv, Working

\* Steps that neither index nor move the position
LEMMA Stays ==
  ASSUME IInv, failed = "no", sync # "down", sync' # "down",
         UNCHANGED <<heightIndex, hashIndex, state, failed, crashes>>, Position' = Position,
         committed' = committed \/ committed'.block = Position,
         synced' => best' = Position \/ (synced /\ best' = best)
  PROVE  /\ Exact' /\ CommittedStored' /\ BestStored' /\ BeforeCrash' /\ Reason'
         /\ \A b : (Stored(b)' <=> Stored(b)) /\ (Found(b)' <=> Found(b))
<1>1. Exact /\ BeforeCrash /\ CommittedStored /\ BestStored /\ Types
  BY Zenon DEF IInv, Working
<1>2. \A b : (Stored(b)' <=> Stored(b)) /\ (Found(b)' <=> Found(b)) /\ (Here(b)' <=> Here(b))
  BY SameEntries, SameStored, Zenon
<1>3. Exact' /\ BeforeCrash'
  BY <1>1, <1>2, Zenon DEF Exact, BeforeCrash
<1>4. \A b \in Anc(Position) : Stored(b)
  BY <1>1, Zenon DEF Exact, Stored
<1>5. CommittedStored'
  BY <1>1, <1>2, <1>4, Zenon DEF CommittedStored
<1>6. BestStored'
  BY <1>1, <1>2, <1>4, Zenon DEF BestStored
<1>7. Reason'
  BY Zenon DEF IInv, Reason
<1> QED BY <1>2, <1>3, <1>5, <1>6, <1>7, Zenon

\* Commit writes the entry of the position, and only of a block whose index is on disk.
LEMMA CommitFacts ==
  ASSUME Types, Entries, NEW b \in Places, Commit(b), b \in Blocks => state' = Path[b]
  PROVE  /\ committed' \in {NoEntry} \cup {Entry(c) : c \in Blocks} /\ best' = b
         /\ committed' # NoEntry => committed'.block \in indexed
         /\ committed' = committed \/ committed'.block = b
<1>1. CASE MayCommit(b)
  <2>1. b \in Blocks /\ b \in indexed
    BY <1>1, Zenon DEF MayCommit, Places, Entries
  <2>2. committed' = Entry(b)
    BY <1>1, <2>1, Zenon DEF Commit, Entry
  <2> QED BY <2>1, <2>2 DEF Entry, Commit
<1>2. CASE ~MayCommit(b)
  BY <1>2, Zenon DEF Commit, Types, Entries
<1> QED BY <1>1, <1>2, Zenon

\* NextSyncBlock is None only for a block of the chain that is its tip, and builds on an ancestor otherwise.
LEMMA NextFacts ==
  ASSUME Types, NEW b \in Places
  PROVE  LET n == NextSyncBlock(b)
         IN IF n = None THEN tip \in Anc(b)
            ELSE n \in Blocks /\ IF b = None THEN n = Genesis ELSE n # Genesis /\ Parent[n] \in Anc(b)
<1>1. CASE b = None
  BY <1>1, ParentIsBlock, Zenon DEF NextSyncBlock
<1>2. CASE b # None
  <2>1. b \in Blocks /\ tip \in Blocks
    BY <1>2, Zenon DEF Places, Types
  <2> DEFINE f == Fork(b, tip)
  <2>2. f \in Anc(b) /\ f \in Anc(tip)
    BY <2>1, ForkIs, Zenon
  <2>3. CASE f = tip
    <3>1. NextSyncBlock(b) = None
      BY <1>2, <2>3, Zenon DEF NextSyncBlock
    <3> QED BY <2>2, <2>3, <3>1, Zenon
  <2>4. CASE f # tip
    <3>1. NextSyncBlock(b) = Path[tip][Height(f) + 2]
      BY <1>2, <2>4, Zenon DEF NextSyncBlock
    <3> HIDE DEF f
    <3>2. Path[tip][Height(f) + 2] \in Blocks \ {Genesis} /\ Parent[Path[tip][Height(f) + 2]] = f
      BY <2>1, <2>2, <2>4, NextOnPath, Zenon
    <3> QED BY <1>2, <2>2, <3>1, <3>2, ParentIsBlock, Zenon
  <2> QED BY <2>3, <2>4, Zenon
<1> QED BY <1>1, <1>2, Zenon

-----------------------------------------------------------------------------
(* Init, the sync thread between two blocks, and the callbacks that start something *)

\* Before m_synced is set the callbacks do nothing, and no caller waits for them.
LEMMA Unsynced ==
  ASSUME IInv, failed = "no", sync # "done"
  PROVE  /\ ~synced /\ event = "idle" /\ caller.pc = "idle" /\ Working /\ Types /\ Entries
         /\ sync # "index" => todo = NoTask /\ Position = at
         /\ Callbacks
BY PlaceFacts, Zenon DEF IInv, Working, Threads, Types

LEMMA CallbacksWait ==
  ASSUME Callbacks, tip' = tip, queue' = queue, event' = "idle", synced' => tip \in Anc(best')
  PROVE  Callbacks'
BY ZenonT(40) DEF Callbacks, Ordered, LeadTo, IsConnected

LEMMA StartStep ==
  ASSUME IInv, Start
  PROVE  IInv'
<1>1. failed = "no" /\ sync = "down" /\ UNCHANGED <<heightIndex, hashIndex, committed, tip, flushed, indexed, queue, event, todo, caller, crashes, interrupt>>
  BY Zenon DEF Start, database, chain
<1>2. ~synced /\ event = "idle" /\ caller.pc = "idle" /\ Working /\ Types /\ Entries /\ todo = NoTask /\ Callbacks
  BY <1>1, Unsynced, Zenon
<1>3. PICK b : b = committed.block
  BY Zenon
<1>4. best' = b /\ at' = b /\ synced' = (b = tip) /\ sync' = IF b = tip THEN "done" ELSE "next"
  BY <1>3, Zenon DEF Start
<1>5. b \in Places /\ (b = None \/ (b \in Blocks /\ committed = Entry(b) /\ committed # NoEntry /\ committed.state = Path[b]))
  <2>1. committed = NoEntry \/ \E c \in Blocks : committed = Entry(c)
    BY <1>2, Zenon DEF Types
  <2> QED BY <1>3, <2>1, ParentIsBlock DEF NoEntry, Entry, Places
<1>6. Position' = b
  BY <1>1, <1>2, <1>4, Zenon DEF Position
<1>7. \A c : (Found(c)' <=> Found(c)) /\ (Here(c)' <=> Here(c))
  BY <1>1, SameEntries, Zenon
<1>8. \A c \in Anc(b) : Found(c)
  BY <1>1, <1>2, <1>3, Zenon DEF Working, CommittedStored
<1>9. /\ state' = IF b = None THEN <<>> ELSE IF Kind = "coinstats" THEN LookUpOne(b) ELSE AtHeight(b)
      /\ failed' = IF b # None /\ (b \notin indexed \/ state' = <<>> \/ (Kind = "coinstats" /\ state' # committed.state))
                   THEN "init" ELSE "no"
  BY <1>3, Zenon DEF Start
<1>10. CASE b = None
  <2>1. state' = <<>> /\ failed' = "no" /\ b # tip
    BY <1>2, <1>9, <1>10, ParentIsBlock, Zenon DEF Types
  <2>2. state' \in Seq(Blocks) /\ state' = PathOf(b) /\ Anc(b) = {}
    BY <1>10, <2>1, AncBasics DEF PathOf
  <2>3. Types' /\ Entries'
    BY <1>1, <1>2, <1>4, <1>5, <2>1, <2>2, Zenon DEF Types, Entries
  <2>4. Threads' /\ Exact' /\ BestStored'
    BY <1>1, <1>2, <1>4, <1>6, <1>7, <2>1, <2>2, Zenon DEF Threads, Working, Exact, BestStored
  <2>5. CommittedStored' /\ BeforeCrash'
    BY <1>1, <1>3, <1>4, <1>6, <2>1, <2>2, Zenon DEF CommittedStored, BeforeCrash
  <2>6. Callbacks'
    BY <1>1, <1>2, <1>4, <2>1, CallbacksWait, Zenon
  <2> QED BY <1>1, <1>2, <2>1, <2>3, <2>4, <2>5, <2>6, Zenon DEF IInv, Working, Waiting, Answered, Reason
<1>11. CASE b # None
  <2>0. b \in Blocks /\ committed = Entry(b) /\ committed.state = Path[b] /\ b \in indexed /\ crashes # 0 /\ b # None
    BY <1>1, <1>2, <1>3, <1>5, <1>11, ParentIsBlock, Zenon DEF Entries, Working, BeforeCrash
  <2>1. Found(b) /\ b \in Anc(b)
    BY <1>8, <2>0, AncBasics, Zenon
  <2>2. LookUpOne(b) = Path[b] /\ AtHeight(b) = IF Here(b) THEN Path[b] ELSE <<>>
    BY <1>2, <2>0, <2>1, EntryFacts, Zenon
  <2>3. Path[b] \in Seq(Blocks) /\ Path[b] # <<>>
    BY <2>0, PathBasics, Zenon
  <2>4. state' \in Seq(Blocks) /\ failed' \in {"no", "init"} /\ (failed' = "no" => state' = Path[b])
        /\ (failed' = "init" => Kind = "filter")
    <3>1. CASE Kind = "coinstats"
      BY <1>9, <2>0, <2>2, <2>3, <3>1, Zenon
    <3>2. CASE Kind = "filter"
      BY <1>9, <2>0, <2>2, <2>3, <3>2
    <3> QED BY <3>1, <3>2, IndexAssumption, Zenon
  <2>5. Types' /\ Entries'
    BY <1>1, <1>2, <1>4, <1>5, <2>4, Zenon DEF Types, Entries
  <2>6. Reason' /\ caller'.pc = "idle"
    BY <1>1, <1>2, <2>0, <2>4 DEF Reason, Types
  <2>7. ASSUME failed' = "no" PROVE Working'
    <3>1. Exact'
      BY <1>4, <1>6, <1>7, <1>8, <2>0, <2>4, <2>7, Zenon DEF Exact, PathOf
    <3>2. \A c \in Anc(b) : Stored(c)'
      BY <1>6, <1>7, <1>8, Zenon DEF Stored
    <3>3. CommittedStored' /\ BestStored'
      BY <1>1, <1>3, <1>4, <3>2, Zenon DEF CommittedStored, BestStored
    <3>4. BeforeCrash' /\ Threads'
      BY <1>1, <1>2, <1>4, <2>0, Zenon DEF BeforeCrash, Threads, Working
    <3>5. Callbacks'
      BY <1>1, <1>2, <1>4, <2>1, CallbacksWait, Zenon
    <3> QED BY <2>6, <3>1, <3>3, <3>4, <3>5, Zenon DEF Working, Waiting
  <2> QED BY <2>5, <2>6, <2>7, Zenon DEF IInv, Answered
<1> QED BY <1>10, <1>11, Zenon

LEMMA CrashStep ==
  ASSUME IInv, Crash
  PROVE  IInv'
<1>1. failed = "no" /\ sync # "down" /\ UNCHANGED <<heightIndex, hashIndex, committed, flushed, indexed, failed>>
      /\ crashes' = crashes + 1 /\ tip' = flushed /\ queue' = <<>> /\ sync' = "down" /\ event' = "idle" /\ synced' = FALSE
      /\ best' = None /\ state' = <<>> /\ at' = None /\ todo' = NoTask /\ interrupt' = FALSE /\ caller' = NoCaller
  BY Zenon DEF Crash, Up, database
<1>2. Working /\ Types /\ Entries
  BY <1>1, Zenon DEF IInv
<1>3. Types'
  <2>1. queue' \in Seq(Event) /\ state' \in Seq(Blocks)
    BY <1>1
  <2>2. todo' \in [block : Places, iter : Places] /\ best' \in Places /\ at' \in Places
        /\ caller' \in [pc : {"idle", "waits", "answered"}, block : Places, left : Nat]
    BY <1>1, Zenon DEF NoTask, NoCaller, Places
  <2>3. crashes' \in Nat /\ tip' \in Blocks
    BY <1>1, <1>2 DEF Types
  <2> QED BY <1>1, <1>2, <2>1, <2>2, <2>3, Zenon DEF Types
<1>4. Entries'
  BY <1>1, <1>2, Zenon DEF Entries
<1>5. Position' = None /\ Anc(None) = {}
  BY <1>1, AncBasics, Zenon DEF Position
<1>6. \A b : Found(b)' <=> Found(b)
  BY <1>1, SameEntries, Zenon
<1>7. Threads' /\ Exact' /\ BestStored'
  BY <1>1, <1>5, Zenon DEF Threads, NoTask, NoCaller, Exact, BestStored
<1>8. CommittedStored'
  <2>1. \A b \in Anc(committed.block) : Found(b)
    BY <1>1, <1>2, Zenon DEF Working, CommittedStored, Stored, Found
  <2> QED BY <1>1, <1>6, <2>1, Zenon DEF CommittedStored
<1>9. BeforeCrash'
  BY <1>1, <1>2 DEF BeforeCrash, Types
<1>10. Callbacks'
  <2>1. Len(queue') = 0 /\ 1 .. 0 = {}
    BY <1>1
  <2> QED BY <1>1, <2>1, Zenon DEF Callbacks, Ordered, LeadTo
<1> QED BY <1>1, <1>3, <1>4, <1>7, <1>8, <1>9, <1>10, Zenon DEF IInv, Working, Waiting, Answered, Reason, NoCaller

LEMMA InterruptedStep ==
  ASSUME IInv, SyncInterrupted
  PROVE  IInv'
<1>1. failed = "no" /\ sync = "next" /\ UNCHANGED <<heightIndex, hashIndex, tip, flushed, indexed, queue, event, todo, caller, crashes, interrupt, state, failed, at, synced>>
      /\ sync' = "done" /\ Commit(at)
  BY Zenon DEF SyncInterrupted, chain, Up
<1>2. ~synced /\ event = "idle" /\ caller.pc = "idle" /\ Working /\ Types /\ Entries /\ todo = NoTask /\ Position = at /\ Callbacks
  BY <1>1, Unsynced, Zenon
<1>3. at \in Places /\ (at \in Blocks => state' = Path[at])
  BY <1>1, <1>2, ParentIsBlock, Zenon DEF Types, Working, Exact, PathOf
<1>4. /\ committed' \in {NoEntry} \cup {Entry(c) : c \in Blocks} /\ best' = at
      /\ committed' # NoEntry => committed'.block \in indexed
      /\ committed' = committed \/ committed'.block = at
  BY <1>1, <1>2, <1>3, CommitFacts, Zenon
<1>5. Position' = Position
  BY <1>1, <1>2, Zenon DEF Position
<1>6. /\ Exact' /\ CommittedStored' /\ BestStored' /\ BeforeCrash' /\ Reason'
  BY <1>1, <1>2, <1>4, <1>5, Stays, Zenon
<1>7. Types' /\ Entries'
  BY <1>1, <1>2, <1>3, <1>4, Zenon DEF Types, Entries
<1>8. Threads'
  BY <1>1, <1>2, Zenon DEF Working, Threads
<1>9. Callbacks'
  BY <1>1, <1>2, CallbacksWait, Zenon
<1> QED BY <1>1, <1>2, <1>6, <1>7, <1>8, <1>9, Zenon DEF IInv, Working, Waiting, Answered

\* A task of the sync thread fits its position.
LEMMA BeginFacts ==
  ASSUME Types, NEW n, n = NextSyncBlock(at), n # None, todo' = [block |-> n, iter |-> at], at' = at
  PROVE  n \in Blocks /\ todo' \in [block : Places, iter : Places] /\ todo' # NoTask /\ TaskFits' /\ Position' = at
<1>1. at \in Places
  BY Zenon DEF Types
<1>2. n \in Blocks /\ IF at = None THEN n = Genesis ELSE n # Genesis /\ Parent[n] \in Anc(at)
  BY <1>1, NextFacts, Zenon
<1>3. todo'.block = n /\ todo'.iter = at /\ todo' # NoTask
  BY <1>2, ParentIsBlock, Zenon DEF NoTask
<1> QED BY <1>1, <1>2, <1>3, Zenon DEF Places, TaskFits, Position

LEMMA SyncNextStep ==
  ASSUME IInv, SyncNext
  PROVE  IInv'
<1>1. failed = "no" /\ sync = "next" /\ UNCHANGED <<heightIndex, hashIndex, tip, flushed, indexed, queue, event, caller, crashes, interrupt, state, failed, at, synced>>
  BY Zenon DEF SyncNext, chain, Up
<1>2. ~synced /\ event = "idle" /\ caller.pc = "idle" /\ Working /\ Types /\ Entries /\ todo = NoTask /\ Position = at /\ Callbacks
  BY <1>1, Unsynced, Zenon
<1>3. at \in Places /\ (at \in Blocks => state' = Path[at])
  BY <1>1, <1>2, ParentIsBlock, Zenon DEF Types, Working, Exact, PathOf
<1>4. Callbacks'
  BY <1>1, <1>2, CallbacksWait, Zenon
<1>5. PICK n : n = NextSyncBlock(at)
  BY Zenon
<1>6. CASE n = None
  <2>1. sync' = "check" /\ Commit(at) /\ todo' = todo
    BY <1>5, <1>6, Zenon DEF SyncNext
  <2>2. /\ committed' \in {NoEntry} \cup {Entry(c) : c \in Blocks} /\ best' = at
        /\ committed' # NoEntry => committed'.block \in indexed
        /\ committed' = committed \/ committed'.block = at
    BY <1>2, <1>3, <2>1, CommitFacts, Zenon
  <2>3. Position' = Position
    BY <1>1, <1>2, <2>1, Zenon DEF Position
  <2>4. /\ Exact' /\ CommittedStored' /\ BestStored' /\ BeforeCrash' /\ Reason'
    BY <1>1, <1>2, <2>1, <2>2, <2>3, Stays, Zenon
  <2>5. Types' /\ Entries'
    BY <1>1, <1>2, <1>3, <2>1, <2>2, Zenon DEF Types, Entries
  <2>6. Threads'
    BY <1>1, <1>2, <2>1, <2>2, Zenon DEF Working, Threads
  <2> QED BY <1>1, <1>2, <1>4, <2>4, <2>5, <2>6, Zenon DEF IInv, Working, Waiting, Answered
<1>7. CASE n # None
  <2>1. sync' = "index" /\ todo' = [block |-> n, iter |-> at] /\ best' = best /\ committed' = committed
    BY <1>5, <1>7, Zenon DEF SyncNext, Begin
  <2>2. n \in Blocks /\ todo' \in [block : Places, iter : Places] /\ todo' # NoTask /\ TaskFits' /\ Position' = at
    BY <1>1, <1>2, <1>5, <1>7, <2>1, BeginFacts, Zenon
  <2>3. /\ Exact' /\ CommittedStored' /\ BestStored' /\ BeforeCrash' /\ Reason'
    BY <1>1, <1>2, <2>1, <2>2, Stays, Zenon
  <2>4. Types' /\ Entries'
    BY <1>1, <1>2, <2>1, <2>2, Zenon DEF Types, Entries
  <2>5. Threads'
    BY <1>1, <1>2, <2>1, <2>2, Zenon DEF Working, Threads
  <2> QED BY <1>1, <1>2, <1>4, <2>3, <2>4, <2>5, Zenon DEF IInv, Working, Waiting, Answered
<1> QED BY <1>6, <1>7, Zenon

LEMMA SyncCheckStep ==
  ASSUME IInv, SyncCheck
  PROVE  IInv'
<1>1. failed = "no" /\ sync = "check" /\ UNCHANGED <<heightIndex, hashIndex, committed, best, tip, flushed, indexed, queue, event, caller, crashes, interrupt, state, failed, at>>
  BY Zenon DEF SyncCheck, chain, Up, database
<1>2. ~synced /\ event = "idle" /\ caller.pc = "idle" /\ Working /\ Types /\ Entries /\ todo = NoTask /\ Position = at /\ Callbacks
  BY <1>1, Unsynced, Zenon
<1>3. at \in Places /\ best = at
  BY <1>1, <1>2, Zenon DEF Types, Working, Threads
<1>5. PICK n : n = NextSyncBlock(at)
  BY Zenon
<1>6. CASE n = None
  <2>1. sync' = "done" /\ synced' = TRUE /\ todo' = todo /\ tip \in Anc(at)
    BY <1>2, <1>3, <1>5, <1>6, NextFacts, Zenon DEF SyncCheck
  <2>3. Position' = Position
    BY <1>1, <1>2, <1>3, <2>1, Zenon DEF Position
  <2>4. /\ Exact' /\ CommittedStored' /\ BestStored' /\ BeforeCrash' /\ Reason'
    BY <1>1, <1>2, <1>3, <2>1, <2>3, Stays, Zenon
  <2>5. Types' /\ Entries'
    BY <1>1, <1>2, <1>3, <2>1, Zenon DEF Types, Entries
  <2>6. Threads'
    BY <1>1, <1>2, <2>1, Zenon DEF Working, Threads
  <2>7. Callbacks'
    BY <1>1, <1>2, <1>3, <2>1, CallbacksWait, Zenon
  <2> QED BY <1>1, <1>2, <2>4, <2>5, <2>6, <2>7, Zenon DEF IInv, Working, Waiting, Answered
<1>7. CASE n # None
  <2>1. sync' = "index" /\ todo' = [block |-> n, iter |-> at] /\ synced' = synced
    BY <1>5, <1>7, Zenon DEF SyncCheck, Begin
  <2>2. n \in Blocks /\ todo' \in [block : Places, iter : Places] /\ todo' # NoTask /\ TaskFits' /\ Position' = at
    BY <1>1, <1>2, <1>5, <1>7, <2>1, BeginFacts, Zenon
  <2>3. /\ Exact' /\ CommittedStored' /\ BestStored' /\ BeforeCrash' /\ Reason'
    BY <1>1, <1>2, <2>1, <2>2, Stays, Zenon
  <2>4. Types' /\ Entries'
    BY <1>1, <1>2, <2>1, <2>2, Zenon DEF Types, Entries
  <2>5. Threads'
    BY <1>1, <1>2, <2>1, <2>2, Zenon DEF Working, Threads
  <2>6. Callbacks'
    BY <1>1, <1>2, <2>1, CallbacksWait, Zenon
  <2> QED BY <1>1, <1>2, <2>3, <2>4, <2>5, <2>6, Zenon DEF IInv, Working, Waiting, Answered
<1> QED BY <1>6, <1>7, Zenon

\* Once m_synced is set the sync thread has ended.
LEMMA Synced ==
  ASSUME IInv, failed = "no", synced
  PROVE  /\ sync = "done" /\ Working /\ Types /\ Entries /\ Callbacks
         /\ event = "idle" => todo = NoTask /\ Position = best
         /\ event = "index" => todo # NoTask /\ Position = todo.iter
BY PlaceFacts, Zenon DEF IInv, Working, Threads, Types

LEMMA BlockConnectedStep ==
  ASSUME IInv, BlockConnected
  PROVE  IInv'
<1>1. failed = "no" /\ UNCHANGED <<heightIndex, hashIndex, committed, best, synced, state, sync, at, interrupt, caller, failed, crashes, tip, flushed, indexed, queue>>
      /\ event = "idle" /\ queue # <<>> /\ event' = "index" /\ todo' = [block |-> Head(queue).block, iter |-> best]
  BY Zenon DEF BlockConnected, Up, database, chain
<1>2. synced /\ Head(queue).type = "connected" /\ Parent[Head(queue).block] \in Anc(best)
  BY Zenon DEF BlockConnected, Ignored
<1>3. sync = "done" /\ Working /\ Types /\ Entries /\ todo = NoTask /\ Position = best /\ Callbacks
  BY <1>1, <1>2, Synced, Zenon
<1>4. queue \in Seq(Event) /\ Head(queue) = queue[1] /\ queue[1] \in Event /\ Len(queue) \in Nat /\ 1 \in 1 .. Len(queue)
  BY <1>1, <1>3 DEF Types
<1>5. IsConnected(1) /\ queue[1].block \in Blocks \ {Genesis}
  BY <1>2, <1>3, <1>4, Zenon DEF IsConnected, Callbacks, Ordered, Event
<1>6. todo'.block = queue[1].block /\ todo'.iter = best /\ todo' # NoTask /\ best # None /\ best \in Places
      /\ todo' \in [block : Places, iter : Places]
  <2>1. best # None /\ best \in Places
    BY <1>2, <1>3, AncBasics, Zenon DEF Types
  <2> QED BY <1>1, <1>4, <1>5, <2>1, ParentIsBlock, Zenon DEF NoTask, Places
<1>7. Position' = Position
  BY <1>3, <1>6, Zenon DEF Position
<1>8. /\ Exact' /\ CommittedStored' /\ BestStored' /\ BeforeCrash' /\ Reason'
      /\ \A b : (Stored(b)' <=> Stored(b)) /\ (Found(b)' <=> Found(b))
  BY <1>1, <1>3, <1>7, Stays, Zenon
<1>9. Types' /\ Entries'
  BY <1>1, <1>3, <1>6, Zenon DEF Types, Entries
<1>10. Threads'
  BY <1>1, <1>2, <1>3, <1>4, <1>5, <1>6, Zenon DEF Working, Threads, TaskFits
<1>11. Callbacks'
  BY <1>1, <1>2, <1>3, <1>4, <1>5, <1>6, ZenonT(40) DEF Callbacks, Ordered, LeadTo, Fits, IsConnected
<1>12. Waiting'
  <2>1. queue' \in Seq(Event) /\ Len(queue) <= Len(queue') /\ \A i \in 1 .. Len(queue) : queue'[i] = queue[i]
    BY <1>1, <1>4
  <2> QED BY <1>1, <1>8, <2>1, WaitsOn, Zenon
<1>13. (caller'.pc = "answered" => Stored(caller.block)') /\ Answered'
  BY <1>1, <1>8, StillAnswered, Zenon
<1> QED BY <1>8, <1>9, <1>10, <1>11, <1>12, <1>13, Zenon DEF IInv, Working

LEMMA FlushedStep ==
  ASSUME IInv, ChainStateFlushed
  PROVE  IInv'
<1>1. failed = "no" /\ UNCHANGED <<heightIndex, hashIndex, synced, state, sync, event, at, todo, interrupt, failed, crashes, tip, flushed, indexed>>
      /\ event = "idle" /\ queue # <<>> /\ Commit(best) /\ Pop
  BY Zenon DEF ChainStateFlushed, Up, chain
<1>2. synced /\ Head(queue).type = "flushed"
  BY Zenon DEF ChainStateFlushed, Ignored
<1>3. sync = "done" /\ Working /\ Types /\ Entries /\ todo = NoTask /\ Position = best /\ Callbacks
  BY <1>1, <1>2, Synced, Zenon
<1>4. queue \in Seq(Event) /\ Head(queue) = queue[1] /\ queue' \in Seq(Event) /\ ~IsConnected(1)
  <2>1. queue \in Seq(Event) /\ queue' = Tail(queue)
    BY <1>1, <1>3, Zenon DEF Types, Pop
  <2> QED BY <1>1, <1>2, <2>1, PopFacts, Zenon DEF IsConnected
<1>5. best \in Places /\ (best \in Blocks => state' = Path[best])
  BY <1>1, <1>3, ParentIsBlock, Zenon DEF Types, Working, Exact, PathOf
<1>6. /\ committed' \in {NoEntry} \cup {Entry(c) : c \in Blocks} /\ best' = best
      /\ committed' # NoEntry => committed'.block \in indexed
      /\ committed' = committed \/ committed'.block = best
  BY <1>1, <1>3, <1>5, CommitFacts, Zenon
<1>7. Position' = Position
  BY <1>1, <1>6, Zenon DEF Position
<1>8. /\ Exact' /\ CommittedStored' /\ BestStored' /\ BeforeCrash' /\ Reason'
      /\ \A b : (Stored(b)' <=> Stored(b)) /\ (Found(b)' <=> Found(b))
  BY <1>1, <1>3, <1>6, <1>7, Stays, Zenon
<1>9. caller'.pc = caller.pc /\ caller'.block = caller.block
      /\ caller' \in [pc : {"idle", "waits", "answered"}, block : Places, left : Nat]
  BY <1>1, <1>3, PopCaller, Zenon
<1>10. Types' /\ Entries'
  BY <1>1, <1>3, <1>4, <1>5, <1>6, <1>9, Zenon DEF Types, Entries
<1>11. Threads'
  BY <1>1, <1>3, <1>6, <1>9, Zenon DEF Working, Threads
<1>12. Callbacks'
  BY <1>1, <1>3, <1>4, <1>6, PopCallbacks, Zenon
<1>13. Waiting'
  BY <1>1, <1>4, <1>6, <1>8, PopWaiting, Zenon
<1>14. (caller'.pc = "answered" => Stored(caller.block)') /\ Answered'
  BY <1>1, <1>8, <1>9, StillAnswered, Zenon
<1> QED BY <1>8, <1>10, <1>11, <1>12, <1>13, <1>14, Zenon DEF IInv, Working

-----------------------------------------------------------------------------
(* Indexing: Rewind and ProcessBlock, in either thread *)

LEMMA RewindIInv ==
  ASSUME IInv, failed = "no", sync # "down", sync = "index" \/ event = "index", Rewinding, RewindStep,
         best' = (IF failed' = "no" /\ todo'.iter = Prev(todo.block) THEN todo'.iter ELSE best),
         UNCHANGED <<tip, flushed, indexed, queue, committed, synced, sync, event, at, interrupt, caller, crashes>>
  PROVE  IInv'
<1>1. Working /\ Types /\ Entries /\ Threads /\ Exact /\ BeforeCrash /\ Callbacks /\ todo # NoTask
  BY Zenon DEF IInv, Working, Threads
<1>2. /\ todo.iter \in Blocks \ {Genesis} /\ Parent[todo.iter] \in Blocks /\ todo.block \in Blocks \ {Genesis}
      /\ todo' = [block |-> todo.block, iter |-> Parent[todo.iter]] /\ todo' # NoTask
      /\ Parent[todo.block] \in Anc(Parent[todo.iter])
      /\ heightIndex' = heightIndex /\ hashIndex' \in [Blocks -> Seq(Blocks)]
      /\ state' \in Seq(Blocks) /\ failed' \in {"no", "rewind"}
      /\ (failed' = "no" => state' = Path[Parent[todo.iter]]) /\ (crashes = 0 => failed' = "no")
  BY <1>1, RewindFacts, Zenon
<1>3. \A b \in Blocks : hashIndex'[b] # <<>> => hashIndex'[b] = Path[b] /\ heightIndex[Height(b)] # NoEntry
  BY <1>1, RewindFacts, Zenon
<1>4. todo'.block = todo.block /\ todo'.iter = Parent[todo.iter] /\ todo' \in [block : Places, iter : Places] /\ best' \in Places
  BY <1>1, <1>2, Zenon DEF Places, Types
<1>5. Types'
  BY <1>1, <1>2, <1>4, Zenon DEF Types
<1>6. Entries'
  BY <1>1, <1>2, <1>3, Zenon DEF Entries
<1>7. /\ \A b \in Blocks : (Here(b)' <=> Here(b)) /\ (Found(b) => Found(b)') /\ (Stored(b) => Stored(b)')
      /\ Position' = Parent[todo.iter] /\ \A b \in Anc(Position') : Found(b)'
      /\ crashes = 0 => \A b \in Anc(Position') : Here(b)'
  BY <1>1, <1>5, RewindKeeps, Zenon
<1>8. (caller'.pc = "answered" => Stored(caller.block)') /\ Answered'
  BY <1>7, StillAnswered, Zenon
<1>9. Reason'
  BY <1>1, <1>2, SMTT(30) DEF Reason, Types
<1>10. ASSUME failed' = "no" PROVE Working'
  <2>1. TaskFits' /\ Threads'
    <3>1. TaskFits'
      BY <1>2, <1>4, ParentIsBlock, Zenon DEF TaskFits
    <3>2. sync # "check"
      BY <1>1, Zenon DEF Threads
    <3> QED BY <1>1, <1>2, <3>1, <3>2, Zenon DEF Threads
  <2>2. Exact' /\ BeforeCrash'
    BY <1>2, <1>7, <1>10, ParentIsBlock, Zenon DEF Exact, PathOf, BeforeCrash
  <2>3. CommittedStored'
    <3>1. committed.block \in Places
      BY <1>1 DEF Types, NoEntry, Entry, Places
    <3>2. Anc(committed.block) \subseteq Blocks
      BY <3>1, AncBasics, Zenon DEF Places
    <3> QED BY <1>1, <1>7, <3>2, Zenon DEF Working, CommittedStored
  <2>4. BestStored'
    <3>1. \A b \in Anc(Position') : Stored(b)'
      BY <1>7, Zenon DEF Stored
    <3>2. Anc(best) \subseteq Blocks
      BY <1>1, AncBasics, Zenon DEF Types, Places
    <3>3. best' = best \/ best' = Position'
      BY <1>4, <1>7, Zenon
    <3> QED BY <1>1, <1>7, <3>1, <3>2, <3>3, Zenon DEF Working, BestStored
  <2>5. synced => event = "index" /\ queue # <<>> /\ IsConnected(1) /\ todo.block = queue[1].block /\ 1 \in 1 .. Len(queue)
                  /\ Parent[queue[1].block] \in Anc(best')
    <3>1. synced => event = "index"
      BY <1>1, Zenon DEF Threads
    <3>2. event = "index" => queue # <<>> /\ IsConnected(1) /\ todo.block = queue[1].block /\ Parent[todo.block] \in Anc(best)
      BY <1>1, Zenon DEF Callbacks
    <3>3. queue # <<>> => 1 \in 1 .. Len(queue)
      BY <1>1 DEF Types
    <3>4. best' = best \/ (best' = Parent[todo.block] /\ Parent[todo.block] \in Blocks)
      BY <1>2, <1>4, ParentIsBlock, Zenon DEF Prev
    <3> QED BY <3>1, <3>2, <3>3, <3>4, AncBasics, Zenon
  <2>6. Callbacks'
    <3>1. Ordered' /\ LeadTo(Len(queue), tip)'
      BY <1>1, Zenon DEF Callbacks, Ordered, LeadTo, IsConnected
    <3>2. synced => Fits(Len(queue))'
      BY <2>5, Zenon DEF Fits, IsConnected
    <3>3. event = "index" => synced
      BY <1>1, Zenon DEF Threads
    <3>4. event' = "index" => queue' # <<>> /\ IsConnected(1)' /\ todo'.block = queue'[1].block /\ Parent[todo'.block] \in Anc(best')
      BY <1>4, <2>5, <3>3, Zenon DEF IsConnected
    <3> QED BY <3>1, <3>2, <3>4, Zenon DEF Callbacks
  <2>7. Waiting'
    <3> SUFFICES ASSUME caller.pc = "waits" PROVE Waiting'
      BY Zenon DEF Waiting
    <3>1. PICK n, c : n = caller.left /\ c = caller.block
      BY Zenon
    <3>2. n <= Len(queue) /\ LeadTo(n, c) /\ (Stored(c) \/ Fits(n)) /\ n \in Nat /\ synced /\ c \in Blocks
      BY <1>1, <3>1, Zenon DEF Working, Waiting, Types, Threads
    <3>3. LeadTo(n, c)'
      BY <3>2, Zenon DEF LeadTo, IsConnected
    <3>4. Fits(n) => Fits(n)'
      <4>1. Fits(n) => 1 \in 1 .. n
        BY <3>2 DEF Fits
      <4> QED BY <2>5, <3>2, <4>1, Zenon DEF Fits, IsConnected
    <3>5. Stored(c) => Stored(c)'
      BY <1>7, <3>2, Zenon
    <3> QED BY <3>1, <3>2, <3>3, <3>4, <3>5, GoesOnWaiting, Zenon
  <2> QED BY <1>8, <2>1, <2>2, <2>3, <2>4, <2>6, <2>7, Zenon DEF Working
<1> QED BY <1>5, <1>6, <1>8, <1>9, <1>10, Zenon DEF IInv

LEMMA SyncRewindStep ==
  ASSUME IInv, SyncRewind
  PROVE  IInv'
BY RewindIInv, Zenon DEF SyncRewind, Up, chain

LEMMA EventRewindStep ==
  ASSUME IInv, EventRewind
  PROVE  IInv'
BY RewindIInv, Zenon DEF EventRewind, Up, chain

\* ProcessBlock, whichever thread runs it: n is the block indexed.
Indexed(n) ==
  /\ n \in Blocks /\ failed' = "no" /\ state' = Path[n] /\ state' \in Seq(Blocks)
  /\ heightIndex' \in [Heights -> {NoEntry} \cup {Entry(b) : b \in Blocks}]
  /\ \A h \in Heights : heightIndex'[h] # NoEntry => Height(heightIndex'[h].block) = h
  /\ \A b \in Blocks : hashIndex'[b] # <<>> => hashIndex'[b] = Path[b] /\ heightIndex'[Height(b)] # NoEntry
  /\ \A b \in Blocks : Stored(b) => Stored(b)' /\ Found(b)'
  /\ \A b \in Anc(n) : Found(b)' /\ Stored(b)'
  /\ crashes = 0 => \A b \in Anc(n) : Here(b)'

LEMMA AppendIndexes ==
  ASSUME IInv, failed = "no", sync # "down", sync = "index" \/ event = "index", ~Rewinding,
         CustomAppend(todo.block), hashIndex' = hashIndex, NEW n, n = todo.block, Position' = n
  PROVE  Indexed(n)
<1>1. Working /\ Types /\ Entries /\ Threads /\ Exact /\ BeforeCrash /\ todo # NoTask
  BY Zenon DEF IInv, Working, Threads
<1>2. /\ n \in Blocks /\ failed' = "no" /\ state' = Path[n] /\ state' \in Seq(Blocks)
      /\ heightIndex' = [heightIndex EXCEPT ![Height(n)] = Entry(n)]
  BY <1>1, AppendFacts, Zenon
<1>3. /\ \A b \in Blocks : Stored(b) => Stored(b)'
      /\ \A b \in Anc(n) : Found(b)'
      /\ crashes = 0 => \A b \in Anc(n) : Here(b)'
  BY <1>1, AppendKeeps, Zenon
<1>4. Height(n) \in Heights /\ Entry(n) # NoEntry /\ Entry(n).block = n
  BY <1>2, PathBasics, ParentIsBlock, Zenon DEF Entry, NoEntry
<1>5. /\ heightIndex' \in [Heights -> {NoEntry} \cup {Entry(b) : b \in Blocks}]
      /\ heightIndex'[Height(n)] = Entry(n) /\ \A h \in Heights : h # Height(n) => heightIndex'[h] = heightIndex[h]
  BY <1>1, <1>2, <1>4, Zenon DEF Types
<1>6. \A h \in Heights : heightIndex'[h] # NoEntry => Height(heightIndex'[h].block) = h
  BY <1>1, <1>4, <1>5 DEF Entries
<1>7. \A b \in Blocks : Height(b) \in Heights
  BY PathBasics, Zenon
<1>8. \A b \in Blocks : hashIndex'[b] # <<>> => hashIndex'[b] = Path[b] /\ heightIndex'[Height(b)] # NoEntry
  BY <1>1, <1>4, <1>5, <1>7, Zenon DEF Entries
<1>9. \A b : Stored(b)' => Found(b)'
  BY Zenon DEF Stored, Found
<1>10. \A b \in Anc(n) : Stored(b)'
  BY <1>3, Zenon DEF Stored
<1> QED BY <1>2, <1>3, <1>5, <1>6, <1>8, <1>9, <1>10, Zenon DEF Indexed

LEMMA SyncAppendStep ==
  ASSUME IInv, SyncAppend
  PROVE  IInv'
<1>1. failed = "no" /\ sync = "index" /\ ~Rewinding /\ CustomAppend(todo.block) /\ todo' = NoTask
      /\ UNCHANGED <<tip, flushed, indexed, queue, hashIndex, synced, event, interrupt, caller, crashes>>
  BY Zenon DEF SyncAppend, Up, chain
<1>2. ~synced /\ event = "idle" /\ caller.pc = "idle" /\ Working /\ Types /\ Entries /\ Callbacks
  BY <1>1, Unsynced, Zenon
<1>3. failed' = "no"
  BY <1>1, <1>2, AppendFacts, Zenon DEF Working, Threads
<1>4. PICK n : n = todo.block
  BY Zenon
<1>5. at' = n /\ sync' = "next" /\ (Commit(n) \/ (best' = best /\ committed' = committed))
  BY <1>3, <1>4, Zenon DEF SyncAppend
<1>6. Position' = n
  BY <1>1, <1>2, <1>5, Zenon DEF Position
<1>7. Indexed(n)
  BY <1>1, <1>4, <1>6, AppendIndexes, Zenon
<1>8. n \in Places /\ n \in Blocks /\ state' = Path[n]
  BY <1>7, Zenon DEF Indexed, Places
<1>9. /\ committed' \in {NoEntry} \cup {Entry(c) : c \in Blocks} /\ best' \in Places
      /\ committed' # NoEntry => committed'.block \in indexed
      /\ committed' = committed \/ committed'.block = n
  <2>1. CASE Commit(n)
    BY <1>2, <1>8, <2>1, CommitFacts, Zenon
  <2>2. CASE best' = best /\ committed' = committed
    BY <1>2, <2>2, Zenon DEF Types, Entries
  <2> QED BY <1>5, <2>1, <2>2, Zenon
<1>10. Types'
  BY <1>1, <1>2, <1>5, <1>7, <1>8, <1>9, Zenon DEF Types, Indexed, NoTask, Places
<1>11. Entries'
  BY <1>1, <1>2, <1>7, <1>9, Zenon DEF Entries, Indexed
<1>12. Threads' /\ BestStored'
  BY <1>1, <1>2, <1>5, Zenon DEF Threads, Working, BestStored
<1>13. Exact' /\ BeforeCrash'
  BY <1>1, <1>5, <1>6, <1>7, <1>8, ParentIsBlock, Zenon DEF Exact, BeforeCrash, PathOf, Indexed
<1>14. CommittedStored'
  <2>1. committed.block \in Places
    BY <1>2 DEF Types, NoEntry, Entry, Places
  <2>2. Anc(committed.block) \subseteq Blocks
    BY <2>1, AncBasics, Zenon DEF Places
  <2>3. \A b \in Anc(committed.block) : Stored(b)
    BY <1>1, <1>2, Zenon DEF Working, CommittedStored
  <2> QED BY <1>5, <1>7, <1>9, <2>2, <2>3, Zenon DEF CommittedStored, Indexed
<1>15. Callbacks'
  BY <1>1, <1>2, CallbacksWait, Zenon
<1> QED BY <1>1, <1>2, <1>3, <1>10, <1>11, <1>12, <1>13, <1>14, <1>15, Zenon DEF IInv, Working, Waiting, Answered, Reason

LEMMA EventAppendStep ==
  ASSUME IInv, EventAppend
  PROVE  IInv'
<1>1. failed = "no" /\ sync # "down" /\ event = "index" /\ ~Rewinding /\ CustomAppend(todo.block) /\ todo' = NoTask
      /\ UNCHANGED <<tip, flushed, indexed, hashIndex, committed, synced, sync, at, interrupt, crashes>>
      /\ event' = "idle" /\ Pop
  BY Zenon DEF EventAppend, Up, chain
<1>2. synced /\ sync = "done" /\ Working /\ Types /\ Entries /\ Callbacks /\ todo # NoTask
  <2>1. synced
    BY <1>1, Zenon DEF IInv, Working, Threads
  <2> QED BY <1>1, <2>1, Synced, Zenon
<1>3. failed' = "no"
  BY <1>1, <1>2, AppendFacts, Zenon DEF Working, Threads
<1>4. PICK n : n = todo.block
  BY Zenon
<1>5. best' = n
  BY <1>3, <1>4, Zenon DEF EventAppend
<1>6. Position' = n
  BY <1>1, <1>2, <1>5, Zenon DEF Position
<1>7. Indexed(n)
  BY <1>1, <1>4, <1>6, AppendIndexes, Zenon
<1>8. n \in Places /\ n \in Blocks /\ state' = Path[n]
  BY <1>7, Zenon DEF Indexed, Places
<1>9. queue \in Seq(Event) /\ queue' = Tail(queue) /\ queue # <<>> /\ IsConnected(1) /\ n = queue[1].block /\ Ordered
  BY <1>1, <1>2, <1>4, Zenon DEF Types, Pop, Callbacks
<1>10. Len(queue) \in Nat \ {0} /\ Len(queue') = Len(queue) - 1 /\ queue' \in Seq(Event)
  BY <1>9, PopFacts, Zenon
<1>11. caller'.pc = caller.pc /\ caller'.block = caller.block /\ caller'.left = (IF caller.left = 0 THEN 0 ELSE caller.left - 1)
      /\ caller' \in [pc : {"idle", "waits", "answered"}, block : Places, left : Nat]
  BY <1>1, <1>2, PopCaller, Zenon
<1>12. Types'
  BY <1>1, <1>2, <1>5, <1>7, <1>8, <1>10, <1>11, Zenon DEF Types, Indexed, NoTask, Places
<1>13. Entries'
  BY <1>1, <1>2, <1>7, Zenon DEF Entries, Indexed
<1>14. Threads' /\ BestStored'
  BY <1>1, <1>2, <1>5, <1>7, <1>11, Zenon DEF Threads, Working, BestStored, Indexed
<1>15. Exact' /\ BeforeCrash'
  BY <1>1, <1>6, <1>7, <1>8, ParentIsBlock, Zenon DEF Exact, BeforeCrash, PathOf, Indexed
<1>16. CommittedStored'
  <2>1. committed.block \in Places
    BY <1>2, SMTT(30) DEF Types, NoEntry, Entry, Places
  <2>2. Anc(committed.block) \subseteq Blocks
    BY <2>1, AncBasics, Zenon DEF Places
  <2>3. \A b \in Anc(committed.block) : Stored(b)
    BY <1>1, <1>2, Zenon DEF Working, CommittedStored
  <2> QED BY <1>1, <1>7, <2>2, <2>3, Zenon DEF CommittedStored, Indexed
<1>17. Callbacks'
  <2>1. Ordered'
    BY <1>9, PopOrdered, Zenon
  <2>2. PICK l, t : l = Len(queue) /\ t = tip
    BY Zenon
  <2>3. LeadTo(l, t) /\ l \in 1 .. Len(queue)
    <3>1. LeadTo(l, t)
      BY <1>2, <2>2, Zenon DEF Callbacks
    <3> QED BY <1>10, <2>2, <3>1
  <2>4. LeadTo(l - 1, t)'
    BY <1>9, <2>3, PopLeads, Zenon
  <2>5. LeadTo(Len(queue), tip)'
    BY <1>1, <1>10, <2>2, <2>4, Zenon DEF LeadTo
  <2>6. t \in Anc(n) \/ Fits(l - 1)'
    BY <1>5, <1>9, <2>3, IndexedFits, Zenon
  <2>7. Fits(l - 1)' => Fits(Len(queue))'
    BY <1>10, <2>2, Zenon DEF Fits
  <2>8. tip' \in Anc(best') \/ Fits(Len(queue))'
    BY <1>1, <1>5, <2>2, <2>6, <2>7, Zenon
  <2> QED BY <1>1, <2>1, <2>5, <2>8, Zenon DEF Callbacks
<1>18. Waiting'
  <2> SUFFICES ASSUME caller.pc = "waits" PROVE Waiting'
    BY <1>11, Zenon DEF Waiting
  <2>1. PICK m, c : m = caller.left /\ c = caller.block
    BY Zenon
  <2>2. m <= Len(queue) /\ LeadTo(m, c) /\ (Stored(c) \/ Fits(m)) /\ m \in Nat /\ c \in Blocks
    BY <1>2, <2>1, Zenon DEF Working, Waiting, Types, Threads
  <2>3. Stored(c) => Stored(c)'
    BY <1>7, <2>2, Zenon DEF Indexed
  <2>4. CASE m = 0
    <3>1. caller'.left = 0 /\ 0 <= Len(queue')
      BY <1>10, <1>11, <2>1, <2>4
    <3>2. LeadTo(0, c)' /\ ~Fits(m)
      BY <2>4 DEF LeadTo, Fits
    <3> QED BY <1>11, <2>1, <2>2, <2>3, <3>1, <3>2, GoesOnWaiting, Zenon
  <2>5. CASE m # 0
    <3>1. m \in 1 .. Len(queue)
      BY <1>10, <2>2, <2>5
    <3>2. caller'.left = m - 1 /\ m - 1 <= Len(queue')
      BY <1>10, <1>11, <2>1, <2>2, <2>5
    <3>3. LeadTo(m - 1, c)'
      BY <1>9, <2>2, <3>1, PopLeads, Zenon
    <3>4. c \in Anc(n) \/ Fits(m - 1)'
      BY <1>5, <1>9, <2>2, <3>1, IndexedFits, Zenon
    <3>5. c \in Anc(n) => Stored(c)'
      BY <1>7, Zenon DEF Indexed
    <3> QED BY <1>11, <2>1, <3>2, <3>3, <3>4, <3>5, GoesOnWaiting, Zenon
  <2> QED BY <2>4, <2>5, Zenon
<1>19. (caller'.pc = "answered" => Stored(caller.block)') /\ Answered'
  <2>1. PICK c : c = caller.block
    BY Zenon
  <2>2. (Stored(c)' <=> Stored(caller.block)') /\ (Found(c)' <=> Found(caller.block)')
    BY <1>11, <2>1, Zenon DEF Stored, Found, Here
  <2>3. caller.pc = "answered" => Stored(c) /\ c \in Blocks
    BY <1>2, <2>1, Zenon DEF Working, Threads
  <2>4. caller.pc = "answered" => Stored(c)' /\ Found(c)'
    BY <1>7, <2>3, Zenon DEF Indexed
  <2> QED BY <1>11, <2>1, <2>2, <2>3, <2>4, Zenon DEF Answered
<1> QED BY <1>3, <1>12, <1>13, <1>14, <1>15, <1>16, <1>17, <1>18, <1>19, Zenon DEF IInv, Working, Reason

\* Every step keeps the invariant.
LEMMA NextIInv == IInv /\ [Next]_vars => IInv'
<1> SUFFICES ASSUME IInv, [Next]_vars PROVE IInv'
  BY Zenon
<1>1. CASE UNCHANGED vars
  <2>1. /\ UNCHANGED <<tip, flushed, indexed, queue, heightIndex, hashIndex, committed, best, synced, state>>
        /\ UNCHANGED <<sync, event, at, todo, interrupt, caller, failed, crashes>>
    BY <1>1, Zenon DEF vars, chain, database
  <2>2. Types' /\ Entries' /\ Reason'
    <3>1. Types'
      BY <2>1, ZenonT(40) DEF IInv, Types
    <3>2. Entries'
      BY <2>1, Zenon DEF IInv, Entries
    <3>3. Reason'
      BY <2>1, Zenon DEF IInv, Reason
    <3> QED BY <3>1, <3>2, <3>3, Zenon
  <2>3. Position' = Position
    BY <2>1, Zenon DEF Position
  <2>4. \A b : (Stored(b)' <=> Stored(b)) /\ (Found(b)' <=> Found(b)) /\ (Here(b)' <=> Here(b))
    BY <2>1, <2>3, SameEntries, SameStored, Zenon
  <2>5. Answered'
    BY <2>1, Zenon DEF IInv, Answered, Found, Here
  <2>6. ASSUME Working PROVE Working'
    <3>1. Untouched
      BY <2>1, Zenon DEF Untouched
    <3>2. Threads'
      BY <2>1, <2>6, Zenon DEF Working, Threads, TaskFits
    <3>3. Exact' /\ CommittedStored' /\ BestStored' /\ BeforeCrash'
      BY <2>1, <2>3, <2>4, <2>6, Zenon DEF Working, Exact, CommittedStored, BestStored, BeforeCrash
    <3>4. Callbacks'
      BY <2>1, <2>6, <3>1, SameCallbacks, Zenon DEF Working
    <3>5. Waiting' /\ (caller'.pc = "answered" => Stored(caller.block)')
      BY <2>1, <2>3, <2>6, Zenon DEF Working, Waiting, Stored, Found, Here, LeadTo, Fits, IsConnected
    <3> QED BY <3>2, <3>3, <3>4, <3>5, Zenon DEF Working
  <2> QED BY <2>1, <2>2, <2>5, <2>6, Zenon DEF IInv
<1>2. CASE Next
  BY Zenon, <1>2, MoveStep, FlushStep, InterruptStep, CrashStep, StartStep, InterruptedStep, SyncNextStep, SyncCheckStep,
     SyncRewindStep, SyncAppendStep, IgnoreStep, BlockConnectedStep, EventRewindStep, EventAppendStep, FlushedStep,
     CallStep, AnswerStep DEF Next, SyncThread, CallbackThread
<1> QED BY <1>1, <1>2, Zenon

\* The invariant holds in every state.
LEMMA InvariantHolds == Spec => []IInv
BY InitIInv, NextIInv, PTL DEF Spec

\* Through every interleaving of the sync thread, the callbacks, reorganisations, interrupts and
\* crashes the running state of the index is the fold over the chain up to the block it stands
\* at, and the database answers with the right entry for every ancestor of that block.
THEOREM IndexAlwaysExact == Spec => []IndexExact
<1>1. IInv => IndexExact
  <2> SUFFICES ASSUME IInv, Up PROVE state = PathOf(Position) /\ \A b \in Anc(Position) : LookUpOne(b) = Path[b]
    BY Zenon DEF IndexExact
  <2>1. Types /\ Entries /\ Exact /\ sync # "down"
    BY Zenon DEF IInv, Working, Up
  <2>2. \A b \in Anc(Position) : b \in Blocks
    BY <2>1, PlaceFacts, AncBasics, Zenon DEF Places
  <2> QED BY <2>1, <2>2, EntryFacts, Zenon DEF Exact
<1> QED BY <1>1, InvariantHolds, PTL

\* No index fails for good before a first crash.  After one a Rewind may fail, where the height
\* index has lost the entry of the parent, and blockfilterindex may refuse to start; ProcessBlock
\* never fails, and neither does the Init of coinstatsindex.
THEOREM FailureNeedsCrash == Spec => []Reason
BY InvariantHolds, PTL DEF IInv

\* For coinstatsindex only RevertBlock after a crash may fail: its Init accepts what any crash
\* left, and nothing is committed that the chainstate on disk does not know.
THEOREM OnlyRewindFails ==
  ASSUME Kind = "coinstats"
  PROVE  Spec => []OnlyRewindAfterCrash
<1>1. Reason => OnlyRewindAfterCrash
  BY Zenon DEF Reason, OnlyRewindAfterCrash
<1> QED BY <1>1, FailureNeedsCrash, PTL

\* Once BlockUntilSyncedToCurrentChain has returned true the index has the entry of the block
\* that was the tip when it was called, whatever is rewound or fails afterwards.
THEOREM AnswerAlwaysFound == Spec => []AnswerFound
<1>1. IInv => AnswerFound
  <2> SUFFICES ASSUME IInv, caller.pc = "answered" PROVE LookUpOne(caller.block) = Path[caller.block]
    BY Zenon DEF AnswerFound
  <2>1. Types /\ Entries /\ caller.block \in Blocks /\ Found(caller.block)
    BY Zenon DEF IInv, Answered
  <2> QED BY <2>1, EntryFacts, Zenon
<1> QED BY <1>1, InvariantHolds, PTL
=============================================================================
