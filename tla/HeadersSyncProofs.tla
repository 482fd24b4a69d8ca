-------------------------- MODULE HeadersSyncProofs --------------------------
(***************************************************************************)
(* Theorems about HeadersSync, for every peer and every commitment period, *)
(* offset, buffer and message size: what is released is one chain with the *)
(* right difficulties, covered by the first pass, and memory is bounded.   *)
(*                                                                         *)
(* Heights count the committed headers (Kept).  The queue of bits is in    *)
(* step with the first pass between two heights (InStep): from the start   *)
(* to its last header in PRESYNC, and from the last header of the second   *)
(* pass on in REDOWNLOAD.  So the bit that the second pass takes from the  *)
(* queue is that of the header of the first pass at the same height, which *)
(* is what Agree accumulates.                                              *)
(***************************************************************************)
EXTENDS HeadersSync, FiniteSetTheorems, SequenceTheorems, WellFoundedInduction, TLAPS

-----------------------------------------------------------------------------
(* Loops over a message *)

\* What holds before a loop and is kept by each of its n rounds holds throughout.
LEMMA Rounds ==
  ASSUME NEW n \in Nat, NEW S, 0 \in S, \A i \in 1 .. n : i - 1 \in S => i \in S
  PROVE  \A i \in 0 .. n : i \in S
<1> DEFINE Bad == {i \in Nat : i <= n /\ i \notin S}
<1> SUFFICES ASSUME Bad # {} PROVE FALSE
  OBVIOUS
<1> DEFINE R == {ss \in Nat \X Nat : ss[1] < ss[2]}
<1>1. IsWellFoundedOn(R, Nat)
  BY NatLessThanWellFounded, Zenon DEF OpToRel
<1>2. PICK i \in Bad : \A j \in Bad : ~(<<j, i>> \in R)
  <2>1. Bad \subseteq Nat
    BY Zenon
  <2> HIDE DEF R, Bad
  <2> QED BY <1>1, <2>1, WFMin, Zenon
<1>3. i \in Nat /\ i <= n /\ i \notin S /\ i # 0
  BY <1>2, Zenon
<1>4. i - 1 \in Nat /\ i - 1 <= n /\ i - 1 < i /\ i \in 1 .. n
  BY <1>3
<1>5. i - 1 \notin Bad
  <2>1. <<i - 1, i>> \in R
    BY <1>3, <1>4, Zenon
  <2> HIDE DEF R, Bad
  <2> QED BY <1>2, <2>1, Zenon
<1> QED BY <1>3, <1>4, <1>5, Zenon

\* A loop of n rounds, the i-th of which takes the value x to F[i][x]
Loop(f, n, c, F) == f[0] = c /\ \A i \in 1 .. n : f[i] = F[i][f[i - 1]]

\* There is such a loop.
LEMMA LoopExists ==
  ASSUME NEW n \in Nat, NEW T, NEW c \in T, NEW F, \A i \in 1 .. n : F[i] \in [T -> T]
  PROVE  \E f \in [0 .. n -> T] : Loop(f, n, c, F)
<1> DEFINE S == {k \in Nat : \E f \in [0 .. k -> T] : Loop(f, k, c, F)}
<1>1. 0 \in S
  <2> DEFINE f == [i \in 0 .. 0 |-> c]
  <2>1. f \in [0 .. 0 -> T] /\ f[0] = c /\ 1 .. 0 = {}
    OBVIOUS
  <2>2. Loop(f, 0, c, F)
    BY <2>1, Zenon DEF Loop
  <2> QED BY <2>1, <2>2, Zenon
<1>2. ASSUME NEW k \in 1 .. n, k - 1 \in S PROVE k \in S
  <2>0. k \in Nat /\ k \in 0 .. k /\ k - 1 \in 0 .. k - 1 /\ 0 .. k = (0 .. k - 1) \cup {k} /\ k \notin 0 .. k - 1
        /\ 1 .. k = (1 .. k - 1) \cup {k} /\ 0 \in 0 .. k - 1
    OBVIOUS
  <2>1. PICK f \in [0 .. k - 1 -> T] : Loop(f, k - 1, c, F)
    BY <1>2, Zenon
  <2> DEFINE g == [i \in 0 .. k |-> IF i = k THEN F[k][f[k - 1]] ELSE f[i]]
  <2>2. F[k][f[k - 1]] \in T
    BY <2>0, <2>1, Zenon
  <2>3. g \in [0 .. k -> T]
    BY <2>0, <2>1, <2>2, Zenon
  <2>4. g[0] = c
    BY <2>0, <2>1, Zenon DEF Loop
  <2>5. ASSUME NEW i \in 1 .. k PROVE g[i] = F[i][g[i - 1]]
    <3>1. i \in 0 .. k /\ i - 1 \in 0 .. k /\ i - 1 # k /\ (i = k \/ i \in 1 .. k - 1)
      BY <2>0
    <3>2. g[i - 1] = f[i - 1]
      BY <3>1, Zenon
    <3>3. g[i] = IF i = k THEN F[k][f[k - 1]] ELSE f[i]
      BY <3>1, Zenon
    <3>4. i # k => f[i] = F[i][f[i - 1]]
      BY <2>1, <3>1, Zenon DEF Loop
    <3> HIDE DEF g
    <3> QED BY <3>2, <3>3, <3>4, Zenon
  <2>6. Loop(g, k, c, F)
    <3> HIDE DEF g
    <3> QED BY <2>4, <2>5, Zenon DEF Loop
  <2> QED BY <2>0, <2>3, <2>6, Zenon
<1>3. n \in 0 .. n
  OBVIOUS
<1> HIDE DEF S
<1>4. n \in S
  BY <1>1, <1>2, <1>3, Rounds, Zenon
<1> QED BY <1>4, Zenon DEF S

-----------------------------------------------------------------------------
(* Work *)

Header == [time : Nat, bits : AllBits]
Chains == Seq(Header)
Bits == {SaltedBit(hash) : hash \in Chains}

\* GetBlockProof of a header
LEMMA ProofIsNat == \A h \in Header : Proofs[h.bits] \in Nat
<1> SUFFICES ASSUME NEW h \in Header PROVE Proofs[h.bits] \in Nat
  OBVIOUS
<1>1. h.bits \in AllBits
  BY DEF Header
<1> QED BY <1>1, HeadersSyncAssumption, Zenon

\* A chain is a function on its heights.
LEMMA ChainFacts ==
  ASSUME NEW s \in Chains
  PROVE  Len(s) \in Nat /\ DOMAIN s = 1 .. Len(s) /\ \A i \in 1 .. Len(s) : s[i] \in Header
BY LenProperties, ElementOfSeq, Zenon DEF Chains

\* The sums of a sequence of numbers
LEMMA SumAdds ==
  ASSUME NEW v \in Seq(Nat)
  PROVE  /\ \A i \in 0 .. Len(v) : SumUpTo(v, i) \in Nat
         /\ SumUpTo(v, 0) = 0
         /\ \A i \in 1 .. Len(v) : SumUpTo(v, i) = SumUpTo(v, i - 1) + v[i]
<1> DEFINE n == Len(v)
           F == [i \in 1 .. n |-> [x \in Nat |-> x + v[i]]]
           K(h) == [i \in 0 .. n |-> IF i = 0 THEN 0 ELSE h[i - 1] + v[i]]
           g == CHOOSE h : h = [i \in 0 .. n |-> IF i = 0 THEN 0 ELSE h[i - 1] + v[i]]
<1>0. n \in Nat /\ \A i \in 1 .. n : v[i] \in Nat
  BY LenProperties, ElementOfSeq, Zenon
<1>1. \A i \in 1 .. n : F[i] \in [Nat -> Nat]
  <2> SUFFICES ASSUME NEW i \in 1 .. n PROVE F[i] \in [Nat -> Nat]
    BY Zenon
  <2>1. \A x \in Nat : x + v[i] \in Nat
    BY <1>0
  <2> QED BY <2>1, Zenon
<1>2. PICK f \in [0 .. n -> Nat] : Loop(f, n, 0, F)
  <2> HIDE DEF F, n
  <2>1. 0 \in Nat
    OBVIOUS
  <2> QED BY <1>0, <1>1, <2>1, LoopExists, Zenon
<1>3. f = K(f)
  <2>1. \A i \in 0 .. n : i = 0 \/ (i \in 1 .. n /\ i - 1 \in 0 .. n)
    BY <1>0
  <2>2. f[0] = 0 /\ \A i \in 1 .. n : f[i] = F[i][f[i - 1]]
    BY <1>2, Zenon DEF Loop
  <2>3. ASSUME NEW i \in 0 .. n PROVE f[i] = IF i = 0 THEN 0 ELSE f[i - 1] + v[i]
    <3>1. CASE i = 0
      BY <2>2, <3>1, Zenon
    <3>2. CASE i \in 1 .. n /\ i - 1 \in 0 .. n
      <4>1. f[i - 1] \in Nat
        BY <1>2, <3>2, Zenon
      <4>2. F[i][f[i - 1]] = f[i - 1] + v[i]
        BY <3>2, <4>1, Zenon
      <4>3. i # 0
        BY <3>2
      <4> QED BY <2>2, <3>2, <4>2, <4>3, Zenon
    <3> QED BY <2>1, <3>1, <3>2, Zenon
  <2> QED BY <2>3, Zenon
<1>4. g = K(g)
  <2>1. g = CHOOSE h : h = K(h)
    OBVIOUS
  <2> HIDE DEF g, K
  <2> QED BY <1>3, <2>1, Zenon
<1>5. ASSUME NEW i PROVE SumUpTo(v, i) = g[i]
  BY Zenon DEF SumUpTo
<1>6. g[0] = 0 /\ \A i \in 1 .. n : g[i] = g[i - 1] + v[i]
  <2>1. 0 \in 0 .. n /\ \A i \in 1 .. n : i \in 0 .. n /\ i # 0
    BY <1>0
  <2> HIDE DEF g
  <2> QED BY <1>4, <2>1, Zenon
<1>7. \A i \in 0 .. n : g[i] \in Nat
  <2> DEFINE S == {i \in 0 .. n : g[i] \in Nat}
  <2> HIDE DEF g, n
  <2>1. 0 \in S
    BY <1>0, <1>6
  <2>2. ASSUME NEW i \in 1 .. n, i - 1 \in S PROVE i \in S
    <3>1. g[i - 1] \in Nat /\ v[i] \in Nat /\ g[i] = g[i - 1] + v[i] /\ i \in 0 .. n
      BY <1>0, <1>6, <2>2
    <3>2. g[i] \in Nat
      BY <3>1
    <3> QED BY <3>1, <3>2, Zenon
  <2> HIDE DEF S
  <2>3. \A i \in 0 .. n : i \in S
    BY <1>0, <2>1, <2>2, Rounds, Zenon
  <2> QED BY <2>3, Zenon DEF S
<1> HIDE DEF g
<1> QED BY <1>5, <1>6, <1>7, Zenon

\* The work adds up header by header, and only grows.
LEMMA WorkAdds ==
  ASSUME NEW s \in Chains
  PROVE  /\ \A i \in 0 .. Len(s) : WorkUpTo(s, i) \in Nat /\ WorkUpTo(s, i) <= ChainWork(s)
         /\ WorkUpTo(s, 0) = 0
         /\ \A i \in 1 .. Len(s) : WorkUpTo(s, i) = WorkUpTo(s, i - 1) + Proofs[s[i].bits]
<1> DEFINE v == [i \in 1 .. Len(s) |-> Proofs[s[i].bits]]
<1>1. Len(s) \in Nat /\ \A i \in 1 .. Len(s) : Proofs[s[i].bits] \in Nat
  BY ChainFacts, ProofIsNat, Zenon
<1>2. v \in Seq(Nat) /\ Len(v) = Len(s) /\ \A i \in 1 .. Len(s) : v[i] = Proofs[s[i].bits]
  BY <1>1
<1>3. \A i : WorkUpTo(s, i) = SumUpTo(v, i)
  BY Zenon DEF WorkUpTo
<1> HIDE DEF v
<1>4. /\ \A i \in 0 .. Len(s) : WorkUpTo(s, i) \in Nat
      /\ WorkUpTo(s, 0) = 0
      /\ \A i \in 1 .. Len(s) : WorkUpTo(s, i) = WorkUpTo(s, i - 1) + Proofs[s[i].bits]
  <2>1. /\ \A i \in 0 .. Len(v) : SumUpTo(v, i) \in Nat
        /\ SumUpTo(v, 0) = 0
        /\ \A i \in 1 .. Len(v) : SumUpTo(v, i) = SumUpTo(v, i - 1) + v[i]
    BY <1>2, SumAdds, Zenon
  <2> QED BY <1>2, <1>3, <2>1, Zenon
<1>5. ASSUME NEW i \in 0 .. Len(s) PROVE WorkUpTo(s, i) <= ChainWork(s)
  <2> DEFINE n == Len(s) - i
             S == {k \in 0 .. n : WorkUpTo(s, i) <= WorkUpTo(s, i + k)}
  <2>1. n \in Nat /\ i + n = Len(s) /\ n \in 0 .. n
    BY <1>1
  <2>2. 0 \in S
    BY <1>1, <1>4
  <2>3. ASSUME NEW k \in 1 .. n, k - 1 \in S PROVE k \in S
    <3>0. PICK j : j = i + k
      OBVIOUS
    <3>1. j \in 1 .. Len(s) /\ i + (k - 1) = j - 1 /\ j - 1 \in 0 .. Len(s) /\ k \in 0 .. n
      BY <1>1, <3>0
    <3>2. WorkUpTo(s, j) = WorkUpTo(s, j - 1) + Proofs[s[j].bits] /\ Proofs[s[j].bits] \in Nat
          /\ WorkUpTo(s, j - 1) \in Nat /\ WorkUpTo(s, i) \in Nat
      BY <1>1, <1>4, <3>1, Zenon
    <3>3. WorkUpTo(s, i) <= WorkUpTo(s, j - 1)
      BY <2>3, <3>1, Zenon
    <3>4. WorkUpTo(s, i) <= WorkUpTo(s, j)
      BY <3>2, <3>3
    <3> QED BY <3>0, <3>1, <3>4, Zenon
  <2> HIDE DEF S, n
  <2>4. n \in S
    BY <2>1, <2>2, <2>3, Rounds, Zenon
  <2>5. WorkUpTo(s, i) <= WorkUpTo(s, i + n)
    BY <2>4, Zenon DEF S
  <2> QED BY <2>1, <2>5, Zenon DEF ChainWork
<1> QED BY <1>4, <1>5, Zenon

\* The work of a chain that is extended
LEMMA WorkOfBoth ==
  ASSUME NEW s \in Chains, NEW t \in Chains
  PROVE  ChainWork(s \o t) = ChainWork(s) + ChainWork(t) /\ ChainWork(s) \in Nat /\ ChainWork(t) \in Nat
<1> DEFINE c == s \o t
<1>1. /\ Len(s) \in Nat /\ Len(t) \in Nat /\ c \in Chains /\ Len(c) = Len(s) + Len(t)
      /\ \A i \in 1 .. Len(s) + Len(t) : c[i] = IF i <= Len(s) THEN s[i] ELSE t[i - Len(s)]
  BY ChainFacts, ConcatProperties, Zenon DEF Chains
<1> HIDE DEF c
<1>2. \A i \in 0 .. Len(s) : WorkUpTo(c, i) = WorkUpTo(s, i)
  <2> DEFINE S == {i \in 0 .. Len(s) : WorkUpTo(c, i) = WorkUpTo(s, i)}
  <2>1. 0 \in S
    <3>1. WorkUpTo(c, 0) = WorkUpTo(s, 0)
      BY <1>1, WorkAdds, Zenon
    <3> QED BY <1>1, <3>1
  <2>2. ASSUME NEW i \in 1 .. Len(s), i - 1 \in S PROVE i \in S
    <3>1. i \in 1 .. Len(c) /\ c[i] = s[i] /\ i \in 0 .. Len(s)
      BY <1>1
    <3>2. WorkUpTo(c, i) = WorkUpTo(c, i - 1) + Proofs[c[i].bits] /\ WorkUpTo(s, i) = WorkUpTo(s, i - 1) + Proofs[s[i].bits]
      BY <1>1, <3>1, WorkAdds, Zenon
    <3> QED BY <2>2, <3>1, <3>2, Zenon
  <2> HIDE DEF S
  <2>3. \A i \in 0 .. Len(s) : i \in S
    BY <1>1, <2>1, <2>2, Rounds, Zenon
  <2> QED BY <2>3, Zenon DEF S
<1>3. \A i \in 0 .. Len(t) : WorkUpTo(c, Len(s) + i) = ChainWork(s) + WorkUpTo(t, i)
  <2> DEFINE S == {i \in 0 .. Len(t) : WorkUpTo(c, Len(s) + i) = ChainWork(s) + WorkUpTo(t, i)}
  <2>0. ChainWork(s) \in Nat
    <3>1. Len(s) \in 0 .. Len(s)
      BY <1>1
    <3> QED BY <3>1, WorkAdds, Zenon DEF ChainWork
  <2>1. 0 \in S
    <3>1. WorkUpTo(t, 0) = 0 /\ Len(s) \in 0 .. Len(s) /\ Len(s) + 0 = Len(s) /\ 0 \in 0 .. Len(t)
      BY <1>1, WorkAdds
    <3>2. WorkUpTo(c, Len(s)) = ChainWork(s)
      BY <1>2, <3>1, Zenon DEF ChainWork
    <3>3. ChainWork(s) + 0 = ChainWork(s)
      BY <2>0
    <3> QED BY <3>1, <3>2, <3>3, Zenon
  <2>2. ASSUME NEW i \in 1 .. Len(t), i - 1 \in S PROVE i \in S
    <3>0. PICK j : j = Len(s) + i
      OBVIOUS
    <3>1. j \in 1 .. Len(c) /\ c[j] = t[i] /\ i \in 0 .. Len(t) /\ i - 1 \in 0 .. Len(t)
          /\ j - 1 = Len(s) + (i - 1) /\ t[i] \in Header
      BY <1>1, <3>0, ChainFacts
    <3>2. WorkUpTo(c, j) = WorkUpTo(c, j - 1) + Proofs[c[j].bits]
      BY <1>1, <3>1, WorkAdds, Zenon
    <3>3. WorkUpTo(t, i) = WorkUpTo(t, i - 1) + Proofs[t[i].bits] /\ WorkUpTo(t, i - 1) \in Nat
      BY <3>1, WorkAdds, Zenon
    <3>4. WorkUpTo(c, j - 1) = ChainWork(s) + WorkUpTo(t, i - 1)
      BY <2>2, <3>1, Zenon
    <3>5. Proofs[t[i].bits] \in Nat
      BY <3>1, ProofIsNat, Zenon
    <3>6. WorkUpTo(c, j) = (ChainWork(s) + WorkUpTo(t, i - 1)) + Proofs[t[i].bits]
      BY <3>1, <3>2, <3>4, Zenon
    <3>7. WorkUpTo(c, j) = ChainWork(s) + WorkUpTo(t, i)
      BY <2>0, <3>3, <3>5, <3>6
    <3> QED BY <3>0, <3>1, <3>7, Zenon
  <2> HIDE DEF S
  <2>3. \A i \in 0 .. Len(t) : i \in S
    BY <1>1, <2>1, <2>2, Rounds, Zenon
  <2> QED BY <2>3, Zenon DEF S
<1>4. Len(t) \in 0 .. Len(t) /\ Len(s) \in 0 .. Len(s)
  BY <1>1
<1>5. ChainWork(c) = ChainWork(s) + ChainWork(t)
  BY <1>1, <1>3, <1>4, Zenon DEF ChainWork
<1>6. ChainWork(s) \in Nat /\ ChainWork(t) \in Nat
  BY <1>4, WorkAdds, Zenon DEF ChainWork
<1> QED BY <1>5, <1>6, Zenon DEF c

-----------------------------------------------------------------------------
(* Chains and their prefixes *)

\* A prefix of a chain is a chain.
LEMMA PrefixFacts ==
  ASSUME NEW s \in Chains, NEW n \in 0 .. Len(s)
  PROVE  /\ SubSeq(s, 1, n) \in Chains /\ Len(SubSeq(s, 1, n)) = n
         /\ \A i \in 1 .. n : SubSeq(s, 1, n)[i] = s[i]
<1>1. Len(s) \in Nat /\ \A i \in 1 .. n : s[i] \in Header
  BY ChainFacts
<1>2. s \in Seq(Header) /\ n \in Nat /\ n <= Len(s)
  BY <1>1 DEF Chains
<1>3. SubSeq(s, 1, n) \in Seq(Header)
  BY <1>1, <1>2
<1>4. Len(SubSeq(s, 1, n)) = n /\ \A i \in 1 .. n : SubSeq(s, 1, n)[i] = s[i]
  BY <1>1, <1>2
<1> QED BY <1>3, <1>4, Zenon DEF Chains

\* A chain extended by a message is a chain.
LEMMA BothFacts ==
  ASSUME NEW s \in Chains, NEW t \in Chains
  PROVE  /\ s \o t \in Chains /\ Len(s \o t) = Len(s) + Len(t) /\ Len(s) \in Nat /\ Len(t) \in Nat
         /\ \A i \in 1 .. Len(s) : (s \o t)[i] = s[i]
         /\ \A i \in 1 .. Len(t) : (s \o t)[Len(s) + i] = t[i]
<1>1. Len(s) \in Nat /\ Len(t) \in Nat
  BY ChainFacts, Zenon
<1>2. /\ s \o t \in Chains /\ Len(s \o t) = Len(s) + Len(t)
      /\ \A i \in 1 .. Len(s) + Len(t) : (s \o t)[i] = IF i <= Len(s) THEN s[i] ELSE t[i - Len(s)]
  BY ConcatProperties, Zenon DEF Chains
<1>3. ASSUME NEW i \in 1 .. Len(s) PROVE (s \o t)[i] = s[i]
  <2>1. i \in 1 .. Len(s) + Len(t) /\ i <= Len(s)
    BY <1>1
  <2> QED BY <1>2, <2>1, Zenon
<1>4. ASSUME NEW i \in 1 .. Len(t) PROVE (s \o t)[Len(s) + i] = t[i]
  <2>1. PICK j : j = Len(s) + i
    OBVIOUS
  <2>2. j \in 1 .. Len(s) + Len(t) /\ ~(j <= Len(s)) /\ j - Len(s) = i
    BY <1>1, <2>1
  <2>3. (s \o t)[j] = t[i]
    BY <1>2, <2>2, Zenon
  <2> QED BY <2>1, <2>3, Zenon
<1> QED BY <1>1, <1>2, <1>3, <1>4, Zenon

\* Two chains with the same headers
LEMMA SameChain ==
  ASSUME NEW s \in Chains, NEW t \in Chains, Len(s) = Len(t), \A i \in 1 .. Len(s) : s[i] = t[i]
  PROVE  s = t
BY SeqEqual, Zenon DEF Chains

\* A chain and its extension have the same prefixes.
LEMMA PrefixOfBoth ==
  ASSUME NEW s \in Chains, NEW t \in Chains, NEW n \in 0 .. Len(s)
  PROVE  SubSeq(s \o t, 1, n) = SubSeq(s, 1, n)
<1>1. PICK c : c = s \o t
  BY Zenon
<1>2. c \in Chains /\ n \in 0 .. Len(c) /\ \A i \in 1 .. n : c[i] = s[i]
  <2>1. c \in Chains /\ Len(c) = Len(s) + Len(t) /\ Len(s) \in Nat /\ Len(t) \in Nat
        /\ \A i \in 1 .. Len(s) : c[i] = s[i]
    BY <1>1, BothFacts, Zenon
  <2>2. n \in 0 .. Len(c) /\ \A i \in 1 .. n : i \in 1 .. Len(s)
    BY <2>1
  <2> QED BY <2>1, <2>2, Zenon
<1>3. /\ SubSeq(c, 1, n) \in Chains /\ SubSeq(s, 1, n) \in Chains /\ Len(SubSeq(c, 1, n)) = n /\ Len(SubSeq(s, 1, n)) = n
      /\ \A i \in 1 .. n : SubSeq(c, 1, n)[i] = c[i] /\ SubSeq(s, 1, n)[i] = s[i]
  BY <1>2, PrefixFacts, Zenon
<1>4. PICK p, q : p = SubSeq(c, 1, n) /\ q = SubSeq(s, 1, n)
  BY Zenon
<1>5. p \in Chains /\ q \in Chains /\ Len(p) = Len(q) /\ \A i \in 1 .. Len(p) : p[i] = q[i]
  BY <1>2, <1>3, <1>4, Zenon
<1>6. p = q
  BY <1>5, SameChain, Zenon
<1> QED BY <1>1, <1>4, <1>6, Zenon

\* The hash of the i-th header of a message is the chain up to it.
LEMMA HashIs ==
  ASSUME NEW s \in Chains, NEW t \in Chains, NEW i \in 0 .. Len(t)
  PROVE  /\ Hash(s, t, i) = SubSeq(s \o t, 1, Len(s) + i)
         /\ Hash(s, t, i) \in Chains /\ Len(Hash(s, t, i)) = Len(s) + i
<1>1. PICK c, u, n : c = s \o t /\ u = SubSeq(t, 1, i) /\ n = Len(s) + i
  BY Zenon
<1>2. u \in Chains /\ Len(u) = i /\ \A k \in 1 .. i : u[k] = t[k]
  BY <1>1, PrefixFacts, Zenon
<1>3. /\ c \in Chains /\ Len(c) = Len(s) + Len(t) /\ Len(s) \in Nat /\ Len(t) \in Nat
      /\ \A k \in 1 .. Len(s) : c[k] = s[k]
      /\ \A k \in 1 .. Len(t) : c[Len(s) + k] = t[k]
  BY <1>1, BothFacts, Zenon
<1>4. n \in 0 .. Len(c) /\ i \in Nat
  BY <1>1, <1>3
<1>5. PICK p, h : p = SubSeq(c, 1, n) /\ h = s \o u
  BY Zenon
<1>6. p \in Chains /\ Len(p) = n /\ \A k \in 1 .. n : p[k] = c[k]
  BY <1>4, <1>3, <1>5, PrefixFacts, Zenon
<1>7. /\ h \in Chains /\ Len(h) = Len(s) + i
      /\ \A k \in 1 .. Len(s) : h[k] = s[k]
      /\ \A k \in 1 .. i : h[Len(s) + k] = u[k]
  BY <1>2, <1>5, BothFacts, Zenon
<1>8. ASSUME NEW k \in 1 .. Len(h) PROVE h[k] = p[k]
  <2>1. CASE k \in 1 .. Len(s)
    <3>1. k \in 1 .. n
      BY <1>1, <1>3, <1>4, <2>1
    <3> QED BY <1>3, <1>6, <1>7, <2>1, <3>1, Zenon
  <2>2. CASE k \notin 1 .. Len(s)
    <3>1. PICK j : j = k - Len(s)
      OBVIOUS
    <3>2. j \in 1 .. i /\ k = Len(s) + j /\ k \in 1 .. n /\ j \in 1 .. Len(t)
      BY <1>1, <1>3, <1>4, <1>7, <2>2, <3>1
    <3> QED BY <1>2, <1>3, <1>6, <1>7, <3>2, ZenonT(40)
  <2> QED BY <2>1, <2>2, Zenon
<1>9. h = p
  BY <1>1, <1>6, <1>7, <1>8, SameChain, Zenon
<1> QED BY <1>1, <1>5, <1>7, <1>9, Zenon DEF Hash

-----------------------------------------------------------------------------
(* Commitments *)

\* A height with a commitment, and how many there are up to a height
Marked(off, m) == m % Period = off
Kept(off, n) == Cardinality({m \in 1 .. n : Marked(off, m)})

\* Kept grows by one at every committed height, and nowhere else.
LEMMA KeptFacts ==
  ASSUME NEW off, NEW n \in Nat
  PROVE  /\ Kept(off, n) \in Nat /\ Kept(off, 0) = 0
         /\ n # 0 => Kept(off, n) = Kept(off, n - 1) + IF Marked(off, n) THEN 1 ELSE 0
         /\ \A m \in 0 .. n : Kept(off, m) \in Nat /\ Kept(off, m) <= Kept(off, n)
         /\ Marked(off, n) => \A m \in 0 .. n - 1 : Kept(off, m) < Kept(off, n)
<1> DEFINE K(k) == {m \in 1 .. k : Marked(off, m)}
<1>1. \A k \in Nat : IsFiniteSet(K(k)) /\ Cardinality(K(k)) \in Nat
  <2> SUFFICES ASSUME NEW k \in Nat PROVE IsFiniteSet(K(k)) /\ Cardinality(K(k)) \in Nat
    OBVIOUS
  <2>1. IsFiniteSet(1 .. k)
    BY FS_Interval
  <2>2. IsFiniteSet(K(k))
    <3>1. K(k) \in SUBSET (1 .. k)
      OBVIOUS
    <3> HIDE DEF K
    <3> QED BY <2>1, <3>1, FS_Subset, Zenon
  <2> HIDE DEF K
  <2> QED BY <2>2, FS_CardinalityType, Zenon
<1>2. Cardinality(K(0)) = 0
  <2>1. K(0) = {}
    OBVIOUS
  <2> QED BY <2>1, FS_EmptySet, Zenon
<1>3. ASSUME NEW k \in Nat, k # 0 PROVE Cardinality(K(k)) = Cardinality(K(k - 1)) + IF Marked(off, k) THEN 1 ELSE 0
  <2>0. k - 1 \in Nat /\ k \notin K(k - 1)
    BY <1>3
  <2>1. CASE Marked(off, k)
    <3>1. K(k) = K(k - 1) \cup {k}
      BY <1>3, <2>1
    <3> HIDE DEF K
    <3>2. Cardinality(K(k)) = Cardinality(K(k - 1)) + 1
      BY <1>1, <2>0, <3>1, FS_AddElement, Zenon
    <3> QED BY <2>1, <3>2, Zenon
  <2>2. CASE ~Marked(off, k)
    <3>1. K(k) = K(k - 1)
      BY <1>3, <2>2
    <3> HIDE DEF K
    <3> QED BY <1>1, <2>0, <2>2, <3>1
  <2> QED BY <2>1, <2>2, Zenon
<1>4. ASSUME NEW k \in Nat, NEW m \in 0 .. k PROVE Cardinality(K(m)) <= Cardinality(K(k))
  <2>1. K(m) \in SUBSET K(k)
    OBVIOUS
  <2> HIDE DEF K
  <2> QED BY <1>1, <2>1, FS_Subset, Zenon
<1>5. ASSUME Marked(off, n), NEW m \in 0 .. n - 1 PROVE Cardinality(K(m)) < Cardinality(K(n))
  <2>1. n # 0 /\ n - 1 \in Nat /\ m \in Nat
    OBVIOUS
  <2> HIDE DEF K
  <2>2. Cardinality(K(n)) = Cardinality(K(n - 1)) + 1
    BY <1>3, <1>5, <2>1, Zenon
  <2>3. Cardinality(K(m)) <= Cardinality(K(n - 1)) /\ Cardinality(K(m)) \in Nat /\ Cardinality(K(n - 1)) \in Nat
    BY <1>1, <1>4, <2>1, Zenon
  <2> QED BY <2>2, <2>3
<1>6. \A k : Kept(off, k) = Cardinality(K(k))
  BY Zenon DEF Kept
<1>7. \A m \in 0 .. n : m \in Nat
  OBVIOUS
<1> HIDE DEF K
<1>8. Kept(off, n) \in Nat /\ Kept(off, 0) = 0 /\ \A m \in 0 .. n : Kept(off, m) \in Nat
  BY <1>1, <1>2, <1>6, <1>7, Zenon
<1>9. n # 0 => Kept(off, n) = Kept(off, n - 1) + IF Marked(off, n) THEN 1 ELSE 0
  BY <1>3, <1>6, Zenon
<1>10. \A m \in 0 .. n : Kept(off, m) <= Kept(off, n)
  BY <1>4, <1>6, Zenon
<1>11. ASSUME Marked(off, n), NEW m \in 0 .. n - 1 PROVE Kept(off, m) < Kept(off, n)
  <2>1. Cardinality(K(m)) < Cardinality(K(n))
    BY <1>5, <1>11, Zenon
  <2>2. Kept(off, m) = Cardinality(K(m)) /\ Kept(off, n) = Cardinality(K(n))
    BY <1>6, Zenon
  <2> QED BY <2>1, <2>2
<1> QED BY <1>8, <1>9, <1>10, <1>11, Zenon

\* The queue q has, in order, the bits of the headers of c at the committed heights above from, up
\* to height n.
InStep(off, q, c, from, n) ==
  /\ Len(q) = Kept(off, n) - Kept(off, from)
  /\ \A m \in from + 1 .. n : Marked(off, m) => q[Kept(off, m) - Kept(off, from)] = SaltedBit(SubSeq(c, 1, m))

\* It is so for an extension of the chain as well.
LEMMA InStepOfBoth ==
  ASSUME NEW off, NEW q, NEW s \in Chains, NEW t \in Chains, NEW from \in Nat, InStep(off, q, s, from, Len(s))
  PROVE  InStep(off, q, s \o t, from, Len(s))
<1>1. Len(s) \in Nat
  BY ChainFacts, Zenon
<1>2. \A m \in from + 1 .. Len(s) : m \in 0 .. Len(s)
  BY <1>1
<1>3. \A m \in from + 1 .. Len(s) : SubSeq(s \o t, 1, m) = SubSeq(s, 1, m)
  BY <1>2, PrefixOfBoth, Zenon
<1> QED BY <1>3, Zenon DEF InStep

\* A height that has no commitment changes nothing.
LEMMA StepUnmarked ==
  ASSUME NEW off, NEW q, NEW c, NEW from \in Nat, NEW n \in Nat, n # 0, InStep(off, q, c, from, n - 1), ~Marked(off, n)
  PROVE  InStep(off, q, c, from, n)
<1>1. Kept(off, n) = Kept(off, n - 1) + 0 /\ n - 1 \in Nat
  BY KeptFacts
<1>2. Kept(off, n - 1) \in Nat
  BY <1>1, KeptFacts, Zenon
<1>3. Kept(off, n) = Kept(off, n - 1)
  BY <1>1, <1>2
<1>4. \A m \in from + 1 .. n : m = n \/ m \in from + 1 .. n - 1
  OBVIOUS
<1> QED BY <1>3, <1>4, Zenon DEF InStep

\* At a height that has one the bit is appended.
LEMMA StepMarked ==
  ASSUME NEW off, NEW q \in Seq(Bits), NEW c, NEW n \in Nat, n # 0, InStep(off, q, c, 0, n - 1), Marked(off, n),
         SaltedBit(SubSeq(c, 1, n)) \in Bits
  PROVE  InStep(off, Append(q, SaltedBit(SubSeq(c, 1, n))), c, 0, n)
<1>1. PICK b \in Bits : b = SaltedBit(SubSeq(c, 1, n))
  OBVIOUS
<1>2. PICK p : p = Append(q, b)
  BY Zenon
<1>3. n - 1 \in Nat /\ Kept(off, 0) = 0 /\ Kept(off, n) = Kept(off, n - 1) + 1
  BY KeptFacts
<1>4. Kept(off, n - 1) \in Nat /\ Len(q) = Kept(off, n - 1)
  <2>1. Kept(off, n - 1) \in Nat
    BY <1>3, KeptFacts, Zenon
  <2>2. Len(q) = Kept(off, n - 1) - Kept(off, 0)
    BY Zenon DEF InStep
  <2> QED BY <1>3, <2>1, <2>2
<1>5. Len(p) = Len(q) + 1 /\ p[Len(q) + 1] = b /\ \A i \in 1 .. Len(q) : p[i] = q[i]
  BY <1>2
<1>6. Len(p) = Kept(off, n) - Kept(off, 0) /\ p[Kept(off, n)] = b
  BY <1>3, <1>4, <1>5
<1>7. ASSUME NEW m \in 0 + 1 .. n, Marked(off, m) PROVE p[Kept(off, m) - Kept(off, 0)] = SaltedBit(SubSeq(c, 1, m))
  <2>0. PICK k : k = Kept(off, m)
    OBVIOUS
  <2>1. m \in Nat /\ m # 0 /\ 0 \in 0 .. m - 1 /\ (m = n \/ (m \in 0 + 1 .. n - 1 /\ m \in 0 .. n - 1))
    OBVIOUS
  <2>2. k \in Nat /\ 0 < k /\ k - Kept(off, 0) = k
    <3>1. k \in Nat /\ Kept(off, 0) < k
      BY <1>7, <2>0, <2>1, KeptFacts
    <3> QED BY <1>3, <3>1
  <2>3. CASE m = n
    BY <1>1, <1>6, <2>0, <2>2, <2>3, Zenon
  <2>4. CASE m \in 0 + 1 .. n - 1 /\ m \in 0 .. n - 1
    <3>1. k <= Kept(off, n - 1)
      BY <1>3, <2>0, <2>4, KeptFacts, Zenon
    <3>2. k \in 1 .. Len(q)
      BY <1>4, <2>2, <3>1
    <3>3. q[k] = SaltedBit(SubSeq(c, 1, m))
      <4>1. q[Kept(off, m) - Kept(off, 0)] = SaltedBit(SubSeq(c, 1, m))
        BY <1>7, <2>4, Zenon DEF InStep
      <4> QED BY <2>0, <2>2, <4>1, Zenon
    <3> QED BY <1>5, <2>0, <2>2, <3>2, <3>3, Zenon
  <2> QED BY <2>1, <2>3, <2>4, Zenon
<1>8. InStep(off, p, c, 0, n)
  BY <1>6, <1>7, Zenon DEF InStep
<1> QED BY <1>1, <1>2, <1>8, Zenon

\* A committed header is one at a committed height.
LEMMA CommittedIs ==
  ASSUME NEW s \in Chains, NEW t \in Chains, NEW i \in 0 .. Len(t)
  PROVE  Committed(Hash(s, t, i)) <=> Marked(offset, Len(s) + i)
BY HashIs, Zenon DEF Committed, Marked

\* The first pass keeps the bits in step with the chain.
LEMMA AddedFacts ==
  ASSUME last \in Chains, commitments \in Seq(Bits), NEW batch \in Chains,
         InStep(offset, commitments, last, 0, Len(last))
  PROVE  /\ Added(batch) \in Seq(Bits)
         /\ InStep(offset, Added(batch), last \o batch, 0, Len(last \o batch))
<1> DEFINE n == Len(batch)
           T == Seq(Bits)
           D(i) == Committed(Hash(last, batch, i))
           B(i) == SaltedBit(Hash(last, batch, i))
           F == [i \in 1 .. n |-> [x \in T |-> IF D(i) THEN Append(x, B(i)) ELSE x]]
           K(h) == [i \in 0 .. n |-> IF i = 0 THEN commitments ELSE IF D(i) THEN Append(h[i - 1], B(i)) ELSE h[i - 1]]
           g == CHOOSE h : h = [i \in 0 .. n |-> IF i = 0 THEN commitments
                                ELSE IF Committed(Hash(last, batch, i)) THEN Append(h[i - 1], SaltedBit(Hash(last, batch, i)))
                                ELSE h[i - 1]]
<1>0. n \in Nat /\ Len(last) \in Nat /\ \A i \in 1 .. n : i \in 0 .. n
  <2>1. n \in Nat /\ Len(last) \in Nat
    BY ChainFacts, Zenon
  <2> QED BY <2>1
<1>a. \A i \in 1 .. n : B(i) \in Bits
  BY <1>0, HashIs, Zenon DEF Bits
<1>1. \A i \in 1 .. n : F[i] \in [T -> T]
  <2> SUFFICES ASSUME NEW i \in 1 .. n PROVE F[i] \in [T -> T]
    OBVIOUS
  <2>1. ASSUME NEW x \in T PROVE Append(x, B(i)) \in T
    <3> HIDE DEF B
    <3>1. B(i) \in Bits
      BY <1>a, Zenon
    <3> QED BY <3>1, AppendProperties, Zenon
  <2> HIDE DEF T, D, B
  <2> QED BY <2>1, Zenon
<1>2. PICK f \in [0 .. n -> T] : Loop(f, n, commitments, F)
  <2>1. commitments \in T
    OBVIOUS
  <2> HIDE DEF F, n, T
  <2> QED BY <1>0, <1>1, <2>1, LoopExists, Zenon
<1>3. f = K(f)
  <2>1. \A i \in 0 .. n : i = 0 \/ (i \in 1 .. n /\ i - 1 \in 0 .. n)
    BY <1>0
  <2>2. f[0] = commitments /\ \A i \in 1 .. n : f[i] = F[i][f[i - 1]]
    BY <1>2, Zenon DEF Loop
  <2>3. ASSUME NEW i \in 0 .. n PROVE f[i] = IF i = 0 THEN commitments ELSE IF D(i) THEN Append(f[i - 1], B(i)) ELSE f[i - 1]
    <3>1. CASE i = 0
      BY <2>2, <3>1, Zenon
    <3>2. CASE i \in 1 .. n /\ i - 1 \in 0 .. n
      <4>1. f[i - 1] \in T
        BY <1>2, <3>2, Zenon
      <4>2. F[i][f[i - 1]] = IF D(i) THEN Append(f[i - 1], B(i)) ELSE f[i - 1]
        <5> HIDE DEF T, D, B
        <5> QED BY <3>2, <4>1, Zenon
      <4>3. i # 0
        BY <3>2
      <4> HIDE DEF F, D, B
      <4> QED BY <2>2, <3>2, <4>2, <4>3, Zenon
    <3> QED BY <2>1, <3>1, <3>2, Zenon
  <2> HIDE DEF D, B
  <2> QED BY <2>3, Zenon
<1>4. g = K(g)
  <2>1. g = CHOOSE h : h = K(h)
    OBVIOUS
  <2> HIDE DEF g, K
  <2> QED BY <1>3, <2>1, Zenon
<1>5. Added(batch) = g[n]
  BY Zenon DEF Added
<1>6. g[0] = commitments /\ \A i \in 1 .. n : g[i] = IF D(i) THEN Append(g[i - 1], B(i)) ELSE g[i - 1]
  <2>1. 0 \in 0 .. n /\ \A i \in 1 .. n : i \in 0 .. n /\ i # 0
    BY <1>0
  <2> HIDE DEF g, D, B
  <2> QED BY <1>4, <2>1, Zenon
<1> HIDE DEF g, n
<1>7. PICK c : c = last \o batch
  BY Zenon
<1>8. c \in Chains /\ Len(c) = Len(last) + n
  BY <1>7, BothFacts, Zenon DEF n
<1> DEFINE S == {i \in 0 .. n : g[i] \in T /\ InStep(offset, g[i], c, 0, Len(last) + i)}
<1>9. 0 \in S
  <2>1. InStep(offset, commitments, c, 0, Len(last)) /\ 0 \in Nat
    <3>1. 0 \in Nat
      OBVIOUS
    <3> QED BY <1>7, <3>1, InStepOfBoth, Zenon
  <2>2. Len(last) + 0 = Len(last) /\ 0 \in 0 .. n
    BY <1>0
  <2> QED BY <1>6, <2>1, <2>2, Zenon
<1>10. ASSUME NEW i \in 1 .. n, i - 1 \in S PROVE i \in S
  <2>1. PICK m : m = Len(last) + i
    OBVIOUS
  <2>2. m \in Nat /\ m # 0 /\ Len(last) + (i - 1) = m - 1 /\ 0 \in Nat /\ i \in 0 .. n
    BY <1>0, <2>1
  <2>3. g[i - 1] \in Seq(Bits) /\ InStep(offset, g[i - 1], c, 0, m - 1)
    BY <1>10, <2>2, Zenon
  <2>4. (D(i) <=> Marked(offset, m)) /\ B(i) = SaltedBit(SubSeq(c, 1, m)) /\ B(i) \in Bits
    <3>1. i \in 0 .. Len(batch)
      BY <2>2, Zenon DEF n
    <3>2. D(i) <=> Marked(offset, m)
      BY <2>1, <3>1, CommittedIs, Zenon
    <3>3. Hash(last, batch, i) = SubSeq(c, 1, m)
      BY <1>7, <2>1, <3>1, HashIs, Zenon
    <3> QED BY <1>a, <3>2, <3>3, Zenon
  <2>5. g[i] = IF D(i) THEN Append(g[i - 1], B(i)) ELSE g[i - 1]
    BY <1>6, Zenon
  <2> HIDE DEF D, B
  <2>6. CASE D(i)
    <3>1. SaltedBit(SubSeq(c, 1, m)) \in Bits
      BY <2>4, Zenon
    <3>2. InStep(offset, Append(g[i - 1], SaltedBit(SubSeq(c, 1, m))), c, 0, m)
      BY <2>2, <2>3, <2>4, <2>6, <3>1, StepMarked, Zenon
    <3>3. g[i] = Append(g[i - 1], B(i))
      BY <2>5, <2>6, Zenon
    <3>4. g[i] \in T
      <4>1. PICK x, b : x = g[i - 1] /\ b = B(i)
        OBVIOUS
      <4>2. x \in Seq(Bits) /\ b \in Bits
        BY <2>3, <2>4, <4>1, Zenon
      <4>3. Append(x, b) \in Seq(Bits)
        BY <4>2, AppendProperties, Zenon
      <4> QED BY <3>3, <4>1, <4>3, Zenon
    <3>5. InStep(offset, g[i], c, 0, m)
      BY <2>4, <3>2, <3>3, Zenon
    <3> QED BY <2>1, <2>2, <3>4, <3>5, Zenon
  <2>7. CASE ~D(i)
    <3>1. InStep(offset, g[i - 1], c, 0, m)
      BY <2>2, <2>3, <2>4, <2>7, StepUnmarked, Zenon
    <3>2. g[i] = g[i - 1]
      BY <2>5, <2>7, Zenon
    <3> QED BY <2>1, <2>2, <2>3, <3>1, <3>2, Zenon
  <2> QED BY <2>6, <2>7, Zenon
<1>11. n \in S
  <2> HIDE DEF S
  <2>1. \A i \in 0 .. n : i \in S
    BY <1>0, <1>9, <1>10, Rounds, Zenon
  <2>2. n \in 0 .. n
    BY <1>0
  <2> QED BY <2>1, <2>2, Zenon
<1> QED BY <1>5, <1>7, <1>8, <1>11, Zenon

\* What is left of a queue, or of the buffer, when its first k are gone
LEMMA RestFacts ==
  ASSUME NEW S, NEW s \in Seq(S), NEW k \in Nat, k <= Len(s)
  PROVE  /\ SubSeq(s, k + 1, Len(s)) \in Seq(S) /\ Len(SubSeq(s, k + 1, Len(s))) = Len(s) - k
         /\ \A i \in 1 .. Len(s) - k : SubSeq(s, k + 1, Len(s))[i] = s[k + i]
<1>1. PICK n, m : n = Len(s) /\ m = k + 1
  OBVIOUS
<1>2. n \in Nat /\ m \in Nat /\ n \in Int /\ m \in Int /\ k <= n
  <2>1. n \in Nat
    BY <1>1, LenProperties, Zenon
  <2> QED BY <1>1, <2>1
<1>3. \A i \in m .. n : s[i] \in S
  <2>1. \A i \in m .. n : i \in 1 .. n
    BY <1>1, <1>2
  <2> QED BY <1>1, <2>1, ElementOfSeq, Zenon
<1>4. PICK r : r = SubSeq(s, m, n)
  BY Zenon
<1>5. r \in Seq(S) /\ Len(r) = (IF m <= n THEN n - m + 1 ELSE 0) /\ \A i \in 1 .. n - m + 1 : r[i] = s[m + i - 1]
  <2>1. /\ SubSeq(s, m, n) \in Seq(S) /\ Len(SubSeq(s, m, n)) = (IF m <= n THEN n - m + 1 ELSE 0)
        /\ \A i \in 1 .. n - m + 1 : SubSeq(s, m, n)[i] = s[m + i - 1]
    BY <1>2, <1>3, SubSeqProperties
  <2> QED BY <1>4, <2>1, Zenon
<1>6. (IF m <= n THEN n - m + 1 ELSE 0) = n - k /\ \A i \in 1 .. n - k : i \in 1 .. n - m + 1 /\ m + i - 1 = k + i
  BY <1>1, <1>2
<1>7. r \in Seq(S) /\ Len(r) = n - k /\ \A i \in 1 .. n - k : r[i] = s[k + i]
  BY <1>5, <1>6
<1> QED BY <1>1, <1>4, <1>7, Zenon

\* How the queue is counted down in the second pass
LEMMA TakenCounts ==
  ASSUME NEW batch \in Chains
  PROVE  /\ \A i \in 0 .. Len(batch) : Taken(batch, i) \in Nat
         /\ Taken(batch, 0) = 0
         /\ \A i \in 1 .. Len(batch) : Taken(batch, i) = Taken(batch, i - 1) + IF IsDue(batch, i) THEN 1 ELSE 0
<1> DEFINE v == [i \in 1 .. Len(batch) |-> IF IsDue(batch, i) THEN 1 ELSE 0]
<1>1. Len(batch) \in Nat /\ \A i \in 1 .. Len(batch) : (IF IsDue(batch, i) THEN 1 ELSE 0) \in Nat
  <2>1. Len(batch) \in Nat
    BY ChainFacts, Zenon
  <2> QED BY <2>1
<1>2. v \in Seq(Nat) /\ Len(v) = Len(batch) /\ \A i \in 1 .. Len(batch) : v[i] = IF IsDue(batch, i) THEN 1 ELSE 0
  BY <1>1
<1>3. ASSUME NEW i PROVE Taken(batch, i) = SumUpTo(v, i)
  BY Zenon DEF Taken
<1> HIDE DEF v
<1>4. /\ \A i \in 0 .. Len(batch) : SumUpTo(v, i) \in Nat
      /\ SumUpTo(v, 0) = 0
      /\ \A i \in 1 .. Len(batch) : SumUpTo(v, i) = SumUpTo(v, i - 1) + v[i]
  BY <1>2, SumAdds, Zenon
<1>5. \A i \in 1 .. Len(batch) : Taken(batch, i) = Taken(batch, i - 1) + v[i]
  BY <1>3, <1>4
<1> QED BY <1>2, <1>3, <1>4, <1>5

\* Before the required work is reached every committed height takes one.
LEMMA TakenIsKept ==
  ASSUME lastHash \in Chains, NEW batch \in Chains, redownloadWork \in Nat, ~Everything(batch, Len(batch))
  PROVE  /\ \A i \in 1 .. Len(batch) : IsDue(batch, i) <=> Marked(offset, Len(lastHash) + i)
         /\ \A i \in 0 .. Len(batch) : Taken(batch, i) = Kept(offset, Len(lastHash) + i) - Kept(offset, Len(lastHash))
<1>0. Len(lastHash) \in Nat /\ Len(batch) \in Nat /\ MinWork \in Nat
  BY ChainFacts, HeadersSyncAssumption, Zenon
<1>1. ASSUME NEW i \in 1 .. Len(batch) PROVE IsDue(batch, i) <=> Marked(offset, Len(lastHash) + i)
  <2>1. i \in 0 .. Len(batch) /\ Len(batch) \in 0 .. Len(batch)
    BY <1>0
  <2>2. PICK x, y : x = WorkUpTo(batch, i) /\ y = WorkUpTo(batch, Len(batch))
    OBVIOUS
  <2>3. x \in Nat /\ y \in Nat /\ x <= y
    <3>1. WorkUpTo(batch, i) \in Nat /\ WorkUpTo(batch, Len(batch)) \in Nat /\ WorkUpTo(batch, i) <= ChainWork(batch)
      BY <2>1, WorkAdds, Zenon
    <3>2. ChainWork(batch) = y
      BY <2>2, Zenon DEF ChainWork
    <3> QED BY <2>2, <3>1, <3>2, Zenon
  <2>4. ~all /\ ~(redownloadWork + y >= MinWork)
    BY <2>2, Zenon DEF Everything
  <2>5. ~(redownloadWork + x >= MinWork)
    BY <1>0, <2>3, <2>4
  <2>6. ~Everything(batch, i)
    BY <2>2, <2>4, <2>5, Zenon DEF Everything
  <2>7. Committed(Hash(lastHash, batch, i)) <=> Marked(offset, Len(lastHash) + i)
    BY <2>1, CommittedIs, Zenon
  <2> QED BY <2>6, <2>7, Zenon DEF IsDue, Due
<1> DEFINE S == {i \in 0 .. Len(batch) : Taken(batch, i) = Kept(offset, Len(lastHash) + i) - Kept(offset, Len(lastHash))}
<1>2. 0 \in S
  <2>1. Kept(offset, Len(lastHash)) \in Nat /\ Taken(batch, 0) = 0
    BY <1>0, KeptFacts, TakenCounts, Zenon
  <2> QED BY <1>0, <2>1
<1>3. ASSUME NEW i \in 1 .. Len(batch), i - 1 \in S PROVE i \in S
  <2>1. PICK m : m = Len(lastHash) + i
    OBVIOUS
  <2>2. m \in Nat /\ m # 0 /\ m - 1 \in Nat /\ Len(lastHash) + (i - 1) = m - 1 /\ i \in 0 .. Len(batch)
    BY <1>0, <2>1
  <2>3. PICK k, j, z, d : k = Kept(offset, m) /\ j = Kept(offset, m - 1) /\ z = Kept(offset, Len(lastHash))
                          /\ d = IF Marked(offset, m) THEN 1 ELSE 0
    OBVIOUS
  <2>4. k = j + d /\ j \in Nat /\ z \in Nat /\ d \in Nat
    <3>1. k = j + d
      BY <2>2, <2>3, KeptFacts, Zenon
    <3>2. j \in Nat /\ z \in Nat
      BY <1>0, <2>2, <2>3, KeptFacts, Zenon
    <3>3. d \in Nat
      BY <2>3
    <3> QED BY <3>1, <3>2, <3>3
  <2>5. Taken(batch, i - 1) = j - z
    BY <1>3, <2>2, <2>3, Zenon
  <2>6. Taken(batch, i) = Taken(batch, i - 1) + d
    <3>1. d = IF IsDue(batch, i) THEN 1 ELSE 0
      BY <1>1, <2>1, <2>3, Zenon
    <3> QED BY <3>1, TakenCounts, Zenon
  <2>7. Taken(batch, i) = k - z
    BY <2>4, <2>5, <2>6
  <2> QED BY <2>1, <2>2, <2>3, <2>7, Zenon
<1>4. \A i \in 0 .. Len(batch) : i \in S
  <2> HIDE DEF S
  <2> QED BY <1>0, <1>2, <1>3, Rounds, Zenon
<1> QED BY <1>1, <1>4, Zenon

\* An accepted batch never takes more than there is.
LEMMA TakenBound ==
  ASSUME NEW batch \in Chains, commitments \in Seq(Bits), Accepted(batch)
  PROVE  \A i \in 0 .. Len(batch) : Taken(batch, i) <= Len(commitments)
<1>0. Len(batch) \in Nat /\ Len(commitments) \in Nat
  BY ChainFacts, LenProperties, Zenon
<1> DEFINE S == {i \in 0 .. Len(batch) : Taken(batch, i) <= Len(commitments)}
<1>1. 0 \in S
  <2>1. Taken(batch, 0) = 0
    BY TakenCounts, Zenon
  <2> QED BY <1>0, <2>1
<1>2. ASSUME NEW i \in 1 .. Len(batch), i - 1 \in S PROVE i \in S
  <2>1. i \in 0 .. Len(batch) /\ i - 1 \in 0 .. Len(batch)
    BY <1>0
  <2>2. Taken(batch, i) = Taken(batch, i - 1) + IF IsDue(batch, i) THEN 1 ELSE 0
    BY TakenCounts, Zenon
  <2>3. CASE IsDue(batch, i)
    BY <2>1, <2>3, Zenon DEF Accepted
  <2>4. CASE ~IsDue(batch, i)
    <3>1. Taken(batch, i - 1) \in Nat /\ Taken(batch, i - 1) <= Len(commitments)
      BY <1>2, <2>1, TakenCounts, Zenon
    <3>2. Taken(batch, i) = Taken(batch, i - 1)
      BY <2>2, <2>4, <3>1
    <3> QED BY <2>1, <3>1, <3>2
  <2> QED BY <2>3, <2>4, Zenon
<1>3. \A i \in 0 .. Len(batch) : i \in S
  <2> HIDE DEF S
  <2> QED BY <1>0, <1>1, <1>2, Rounds, Zenon
<1> QED BY <1>3, Zenon

\* Every committed header of c has the bit of the header of s at its height.
Agree(off, c, s) ==
  \A m \in 1 .. Len(c) : Marked(off, m) => m <= Len(s) /\ SaltedBit(SubSeq(c, 1, m)) = SaltedBit(SubSeq(s, 1, m))

LEMMA Shifted ==
  \A f, t, n \in Int : (n - f) - (t - f) = n - t /\ (t - f) + (n - t) = n - f
OBVIOUS

\* The queue stays in step when its first bits are taken.
LEMMA InStepRest ==
  ASSUME NEW off, NEW q \in Seq(Bits), NEW c, NEW from \in Nat, NEW to \in Nat, NEW n \in Nat, NEW k \in Nat,
         from <= to, InStep(off, q, c, from, n), k = Kept(off, to) - Kept(off, from), k <= Len(q)
  PROVE  InStep(off, SubSeq(q, k + 1, Len(q)), c, to, n) /\ SubSeq(q, k + 1, Len(q)) \in Seq(Bits)
<1>1. PICK r, kf, kt, kn, len : r = SubSeq(q, k + 1, Len(q)) /\ kf = Kept(off, from) /\ kt = Kept(off, to) /\ kn = Kept(off, n)
                                /\ len = Len(q)
  BY Zenon
<1>2. kf \in Nat /\ kt \in Nat /\ kn \in Nat /\ len \in Nat /\ len = kn - kf /\ k = kt - kf /\ k <= len
  <2>1. kf \in Nat /\ kt \in Nat /\ kn \in Nat
    BY <1>1, KeptFacts, Zenon
  <2>2. len \in Nat
    BY <1>1, LenProperties, Zenon
  <2>3. len = kn - kf
    BY <1>1, Zenon DEF InStep
  <2> QED BY <1>1, <2>1, <2>2, <2>3, Zenon
<1>3. r \in Seq(Bits) /\ Len(r) = len - k /\ \A i \in 1 .. len - k : r[i] = q[k + i]
  <2>1. /\ SubSeq(q, k + 1, Len(q)) \in Seq(Bits) /\ Len(SubSeq(q, k + 1, Len(q))) = Len(q) - k
        /\ \A i \in 1 .. Len(q) - k : SubSeq(q, k + 1, Len(q))[i] = q[k + i]
    BY RestFacts, Zenon
  <2> QED BY <1>1, <2>1, Zenon
<1>4. Len(r) = kn - kt
  BY <1>2, <1>3
<1>5. ASSUME NEW m \in to + 1 .. n, Marked(off, m) PROVE r[Kept(off, m) - Kept(off, to)] = SaltedBit(SubSeq(c, 1, m))
  <2>1. m \in Nat /\ m \in from + 1 .. n /\ to \in 0 .. m - 1 /\ m \in 0 .. n
    OBVIOUS
  <2>2. PICK x : x = Kept(off, m)
    OBVIOUS
  <2>3. x \in Nat /\ kt < x /\ x <= kn
    <3>1. kt < x
      <4>1. Kept(off, to) < Kept(off, m)
        BY <1>5, <2>1, KeptFacts, Zenon
      <4> QED BY <1>1, <2>2, <4>1
    <3>2. x \in Nat /\ x <= kn
      BY <1>1, <2>1, <2>2, KeptFacts, Zenon
    <3> QED BY <3>1, <3>2
  <2>4. x - kt \in 1 .. len - k /\ k + (x - kt) = x - kf
    <3>1. kf \in Int /\ kt \in Int /\ kn \in Int /\ x \in Int
      BY <1>2, <2>3
    <3>2. len - k = kn - kt
      <4>1. (kn - kf) - (kt - kf) = kn - kt
        BY <3>1, Shifted, Zenon
      <4> QED BY <1>2, <4>1, Zenon
    <3>3. x - kt \in 1 .. kn - kt
      BY <2>3, <3>1
    <3>4. k + (x - kt) = x - kf
      <4>1. (kt - kf) + (x - kt) = x - kf
        BY <3>1, Shifted, Zenon
      <4> QED BY <1>2, <4>1, Zenon
    <3> QED BY <3>2, <3>3, <3>4, Zenon
  <2>5. q[x - kf] = SaltedBit(SubSeq(c, 1, m))
    BY <1>1, <1>5, <2>1, <2>2, Zenon DEF InStep
  <2>6. r[x - kt] = q[k + (x - kt)]
    BY <1>3, <2>4, Zenon
  <2> QED BY <1>1, <2>2, <2>4, <2>5, <2>6, Zenon
<1>6. InStep(off, r, c, to, n)
  BY <1>1, <1>4, <1>5, Zenon DEF InStep
<1> QED BY <1>1, <1>3, <1>6, Zenon

-----------------------------------------------------------------------------
(* The sequences of a message *)

\* Two prefixes
LEMMA PrefixOfPrefix ==
  ASSUME NEW s \in Chains, NEW n \in 0 .. Len(s), NEW m \in 0 .. n
  PROVE  SubSeq(SubSeq(s, 1, n), 1, m) = SubSeq(s, 1, m)
<1>1. PICK p : p = SubSeq(s, 1, n)
  BY Zenon
<1>2. p \in Chains /\ Len(p) = n /\ \A i \in 1 .. n : p[i] = s[i]
  BY <1>1, PrefixFacts, Zenon
<1>3. Len(s) \in Nat
  BY ChainFacts, Zenon
<1>4. m \in 0 .. Len(s) /\ m \in 0 .. Len(p) /\ \A i \in 1 .. m : i \in 1 .. n
  BY <1>2, <1>3
<1>5. PICK a, b : a = SubSeq(p, 1, m) /\ b = SubSeq(s, 1, m)
  BY Zenon
<1>6. /\ a \in Chains /\ b \in Chains /\ Len(a) = m /\ Len(b) = m
      /\ \A i \in 1 .. m : a[i] = p[i] /\ b[i] = s[i]
  BY <1>2, <1>4, <1>5, PrefixFacts, Zenon
<1>7. a = b
  BY <1>2, <1>4, <1>6, SameChain, Zenon
<1> QED BY <1>1, <1>5, <1>7, Zenon

\* A chain is its first n headers and the rest.
LEMMA PrefixAndRest ==
  ASSUME NEW s \in Chains, NEW n \in 0 .. Len(s)
  PROVE  SubSeq(s, 1, n) \o SubSeq(s, n + 1, Len(s)) = s
<1>1. PICK p, r : p = SubSeq(s, 1, n) /\ r = SubSeq(s, n + 1, Len(s))
  BY Zenon
<1>2. Len(s) \in Nat /\ n \in Nat /\ n <= Len(s)
  <2>1. Len(s) \in Nat
    BY ChainFacts, Zenon
  <2> QED BY <2>1
<1>3. p \in Chains /\ Len(p) = n /\ \A i \in 1 .. n : p[i] = s[i]
  BY <1>1, PrefixFacts, Zenon
<1>4. r \in Chains /\ Len(r) = Len(s) - n /\ \A i \in 1 .. Len(s) - n : r[i] = s[n + i]
  BY <1>1, <1>2, RestFacts, Zenon DEF Chains
<1>5. PICK c : c = p \o r
  BY Zenon
<1>6. /\ c \in Chains /\ Len(c) = Len(p) + Len(r)
      /\ \A i \in 1 .. Len(p) : c[i] = p[i]
      /\ \A i \in 1 .. Len(r) : c[Len(p) + i] = r[i]
  BY <1>3, <1>4, <1>5, BothFacts, ZenonT(40)
<1>7. Len(c) = Len(s)
  BY <1>2, <1>3, <1>4, <1>6
<1>8. ASSUME NEW i \in 1 .. Len(c) PROVE c[i] = s[i]
  <2>1. i \in 1 .. n \/ (i - n \in 1 .. Len(s) - n /\ n + (i - n) = i)
    BY <1>2, <1>7
  <2>2. CASE i \in 1 .. n
    BY <1>3, <1>6, <2>2, Zenon
  <2>3. CASE i - n \in 1 .. Len(s) - n /\ n + (i - n) = i
    <3>1. c[Len(p) + (i - n)] = r[i - n] /\ r[i - n] = s[n + (i - n)]
      BY <1>4, <1>6, <2>3, Zenon
    <3> QED BY <1>3, <2>3, <3>1, Zenon
  <2> QED BY <2>1, <2>2, <2>3, Zenon
<1>9. c = s
  BY <1>6, <1>7, <1>8, SameChain, Zenon
<1> QED BY <1>1, <1>5, <1>9, Zenon

\* Chains one after the other
LEMMA Joined ==
  ASSUME NEW s \in Chains, NEW t \in Chains, NEW u \in Chains
  PROVE  (s \o t) \o u = s \o (t \o u)
<1>1. s \in Seq(Header) /\ t \in Seq(Header) /\ u \in Seq(Header)
  BY Zenon DEF Chains
<1> QED BY <1>1, ConcatAssociative, SMTT(30)

\* The headers that leave the buffer and those that stay make up the chain that was there.
LEMMA MovedOn ==
  ASSUME NEW p \in Chains, NEW b \in Chains, NEW n \in 0 .. Len(b)
  PROVE  /\ Hash(p, b, n) \in Chains /\ SubSeq(b, n + 1, Len(b)) \in Chains
         /\ Len(Hash(p, b, n)) = Len(p) + n /\ Len(SubSeq(b, n + 1, Len(b))) = Len(b) - n
         /\ Hash(p, b, n) \o SubSeq(b, n + 1, Len(b)) = p \o b
<1>1. PICK u, r : u = SubSeq(b, 1, n) /\ r = SubSeq(b, n + 1, Len(b))
  BY Zenon
<1>2. u \in Chains
  BY <1>1, PrefixFacts, Zenon
<1>3. r \in Chains /\ Len(r) = Len(b) - n
  <2>1. Len(b) \in Nat
    BY ChainFacts, Zenon
  <2>2. n \in Nat /\ n <= Len(b)
    BY <2>1
  <2> QED BY <1>1, <2>2, RestFacts, Zenon DEF Chains
<1>4. u \o r = b
  BY <1>1, PrefixAndRest, Zenon
<1>5. (p \o u) \o r = p \o (u \o r)
  BY <1>2, <1>3, Joined, ZenonT(40)
<1>6. Hash(p, b, n) = p \o u
  BY <1>1, Zenon DEF Hash
<1>7. Hash(p, b, n) \in Chains /\ Len(Hash(p, b, n)) = Len(p) + n
  BY HashIs, Zenon
<1> QED BY <1>1, <1>3, <1>4, <1>5, <1>6, <1>7, Zenon

\* The time that the second pass reads from the buffer is that of the header before.
LEMMA TimeBefore ==
  ASSUME NEW p \in Chains, NEW b \in Chains, b # <<>> \/ p = <<>>
  PROVE  PreviousTime(b) = TimeOf(p \o b)
<1>1. PICK c : c = p \o b
  BY Zenon
<1>2. /\ c \in Chains /\ Len(c) = Len(p) + Len(b) /\ Len(p) \in Nat /\ Len(b) \in Nat
      /\ \A i \in 1 .. Len(b) : c[Len(p) + i] = b[i]
  BY <1>1, BothFacts, Zenon
<1>3. CASE b # <<>>
  <2>1. Len(b) # 0
    BY <1>3, EmptySeq, Zenon DEF Chains
  <2>2. Len(b) \in 1 .. Len(b) /\ Len(c) # 0
    BY <1>2, <2>1
  <2>3. c[Len(c)] = b[Len(b)]
    BY <1>2, <2>2, Zenon
  <2>4. c # <<>>
    BY <1>2, <2>2, EmptySeq, Zenon DEF Chains
  <2> QED BY <1>1, <1>3, <2>3, <2>4, Zenon DEF PreviousTime, TimeOf
<1>4. CASE b = <<>> /\ p = <<>>
  <2>1. c = <<>>
    BY <1>1, <1>4, ConcatEmptySeq, Zenon DEF Chains
  <2> QED BY <1>1, <1>4, <2>1, Zenon DEF PreviousTime, TimeOf
<1> QED BY <1>3, <1>4, Zenon

\* What the peer sends is a chain of headers.
LEMMA BatchIsChain ==
  ASSUME peer \in Chains, last \in Chains, lastHash \in Chains
  PROVE  Batch \in Chains
<1>1. From \in Chains
  <2>1. Locator \in Chains
    BY Zenon DEF Locator
  <2>2. <<>> \in Chains
    BY EmptySeq, Zenon DEF Chains
  <2> QED BY <2>1, <2>2, Zenon DEF From
<1>2. PICK m, e, f : m = Len(From) + 1 /\ e = Min({Len(From) + MaxResults, Len(peer)}) /\ f = Len(From)
  OBVIOUS
<1>3. f \in Nat /\ Len(peer) \in Nat /\ MaxResults \in Nat
  BY <1>1, <1>2, ChainFacts, HeadersSyncAssumption
<1>4. e \in Int /\ e <= Len(peer) /\ m \in Int /\ 1 <= m
  <2>1. PICK a, b : a = f + MaxResults /\ b = Len(peer)
    BY Zenon
  <2>2. a \in Nat /\ b \in Nat
    BY <1>3, <2>1
  <2>3. \E x \in {a, b} : \A y \in {a, b} : x <= y
    <3>1. CASE a <= b
      BY <2>2, <3>1
    <3>2. CASE b <= a
      BY <2>2, <3>2
    <3> QED BY <2>2, <3>1, <3>2
  <2>4. e = CHOOSE x \in {a, b} : \A y \in {a, b} : x <= y
    BY <1>2, <2>1 DEF Min
  <2>5. e \in {a, b} /\ \A y \in {a, b} : e <= y
    BY <2>3, <2>4, Zenon
  <2> QED BY <1>2, <1>3, <2>1, <2>2, <2>5
<1>5. \A i \in m .. e : peer[i] \in Header
  <2>1. \A i \in m .. e : i \in 1 .. Len(peer)
    BY <1>3, <1>4
  <2> QED BY <2>1, ChainFacts, Zenon
<1>6. SubSeq(peer, m, e) \in Seq(Header)
  BY <1>4, <1>5, SubSeqProperties, Zenon
<1> QED BY <1>2, <1>6, Zenon DEF Batch, Chains

-----------------------------------------------------------------------------
(* The inductive invariant *)

FullHeader == [prev : Chains, header : Header]

\* Every header of the chain has the difficulty that its parent asks for.
Grown(c) == \A i \in 1 .. Len(c) : c[i].bits = Required(SubSeq(c, 1, i - 1))

Types ==
  /\ peer \in Chains /\ last \in Chains /\ buffer \in Chains /\ firstPrev \in Chains /\ lastHash \in Chains
  /\ seen \in Chains /\ got \in Chains /\ released \in Seq(FullHeader)
  /\ commitments \in Seq(Bits) /\ work \in Nat /\ redownloadWork \in Nat
  /\ state \in {"PRESYNC", "REDOWNLOAD", "FINAL"}

\* The chain of the peer is within the table of difficulties.
PeerInTable ==
  Len(peer) <= MaxHeight /\ \A i \in 1 .. Len(peer) : peer[i].time <= i * Max(Steps)

\* The first pass: the queue has the bits of the committed headers received, and the sum is their work.
FirstPass ==
  state = "PRESYNC" =>
    /\ seen = last /\ work = ChainWork(last)
    /\ InStep(offset, commitments, last, 0, Len(last))
    /\ released = <<>> /\ got = <<>> /\ ~all

\* The second pass: the queue has the bits of the first pass above the last header received; up to it
\* the bits agree.  The buffer has the headers received that were not released; once one was it is full.
SecondPass ==
  state = "REDOWNLOAD" =>
    /\ seen = last /\ ChainWork(last) >= MinWork
    /\ InStep(offset, commitments, last, Len(lastHash), Len(last))
    /\ got = lastHash /\ redownloadWork = ChainWork(lastHash) /\ ~all
    /\ lastHash = firstPrev \o buffer /\ Len(released) = Len(firstPrev)
    /\ Grown(lastHash) /\ Agree(offset, lastHash, last)
    /\ Len(buffer) = 0 => Len(lastHash) = 0
    /\ Len(released) # 0 => Len(buffer) = BufferSize

\* What was released is the beginning of the chain of the second pass.
Released(r, c) ==
  /\ Len(r) <= Len(c)
  /\ \A i \in 1 .. Len(r) : /\ r[i] = [prev |-> SubSeq(c, 1, i - 1), header |-> c[i]]
                            /\ c[i].bits = Required(SubSeq(c, 1, i - 1))

\* Why it could be released: as ReleasedIsCovered, for the whole of the second pass
Covered(r, c) ==
  Len(r) # 0 =>
    \/ ChainWork(c) >= MinWork
    \/ Len(c) = Len(r) + BufferSize /\ ChainWork(seen) >= MinWork /\ Agree(offset, c, seen)

HeadersInv ==
  Types /\ PeerInTable /\ FirstPass /\ SecondPass /\ Released(released, got) /\ Covered(released, got) /\ MemoryBounded

\* The empty chain
LEMMA EmptyFacts ==
  /\ <<>> \in Chains /\ Len(<<>>) = 0 /\ ChainWork(<<>>) = 0
  /\ <<>> \in Seq(FullHeader) /\ <<>> \in Seq(Bits)
<1>1. <<>> \in Chains /\ <<>> \in Seq(FullHeader) /\ <<>> \in Seq(Bits)
  BY EmptySeq, Zenon DEF Chains
<1>2. Len(<<>>) = 0
  OBVIOUS
<1>3. WorkUpTo(<<>>, 0) = 0
  BY <1>1, WorkAdds, Zenon
<1> QED BY <1>1, <1>2, <1>3, Zenon DEF ChainWork

\* A sync starts with an empty queue and an empty buffer.
LEMMA InitHolds == Init => HeadersInv
<1> SUFFICES ASSUME Init PROVE HeadersInv
  OBVIOUS
<1>0. PICK e : e = <<>>
  OBVIOUS
<1>1. /\ e \in Chains /\ Len(e) = 0 /\ ChainWork(e) = 0 /\ e \in Seq(FullHeader) /\ e \in Seq(Bits)
  BY <1>0, EmptyFacts, Zenon
<1>2. /\ peer = e /\ last = e /\ work = 0 /\ commitments = e /\ buffer = e /\ firstPrev = e /\ lastHash = e
      /\ redownloadWork = 0 /\ all = FALSE /\ released = e /\ seen = e /\ got = e /\ state = "PRESYNC"
  BY <1>0, Zenon DEF Init
<1>3. 0 \in Nat /\ 1 .. 0 = {} /\ 0 + 1 .. 0 = {} /\ 0 <= 0 /\ MaxHeight >= 0 /\ BufferSize >= 0 /\ MaxCommitments >= 0
  <2>1. BlocksPerSecond * MaxSeconds \in Nat
    BY HeadersSyncAssumption
  <2>2. MaxCommitments \in Nat
    BY <2>1, HeadersSyncAssumption DEF MaxCommitments
  <2> QED BY <2>2, HeadersSyncAssumption
<1>4. Types
  BY <1>1, <1>2, <1>3, Zenon DEF Types
<1>5. PeerInTable
  <2>1. 0 <= MaxHeight
    BY <1>3, HeadersSyncAssumption
  <2> QED BY <1>1, <1>2, <1>3, <2>1, Zenon DEF PeerInTable
<1>6. FirstPass
  <2>1. Kept(offset, 0) - Kept(offset, 0) = 0
    <3>1. Kept(offset, 0) = 0
      BY <1>3, KeptFacts, Zenon
    <3> QED BY <3>1
  <2>2. InStep(offset, e, e, 0, 0)
    BY <1>1, <1>3, <2>1, Zenon DEF InStep
  <2>3. seen = last /\ work = ChainWork(last) /\ released = e /\ got = e /\ ~all
    BY <1>1, <1>2, Zenon
  <2>4. InStep(offset, commitments, last, 0, Len(last))
    BY <1>1, <1>2, <2>2, Zenon
  <2> QED BY <1>0, <2>3, <2>4, Zenon DEF FirstPass
<1>7. SecondPass
  <2>1. state # "REDOWNLOAD"
    BY <1>2
  <2> QED BY <2>1, Zenon DEF SecondPass
<1>8. Released(released, got) /\ Covered(released, got)
  BY <1>1, <1>2, <1>3, Zenon DEF Released, Covered
<1>9. MemoryBounded
  <2>1. 0 <= MaxCommitments /\ 0 <= BufferSize
    BY <1>3, HeadersSyncAssumption DEF MaxCommitments
  <2> QED BY <1>1, <1>2, <2>1, Zenon DEF MemoryBounded
<1> QED BY <1>4, <1>5, <1>6, <1>7, <1>8, <1>9, Zenon DEF HeadersInv

\* The difficulty of the next block of the peer is one of the table.
LEMMA RequiredInTable ==
  ASSUME Types, PeerInTable, Len(peer) < MaxHeight
  PROVE  TimeOf(peer) \in Nat /\ TimeOf(peer) <= Len(peer) * Max(Steps) /\ Max(Steps) \in Nat /\ Required(peer) \in AllBits
<1>1. PICK M, n, t : M = Max(Steps) /\ n = Len(peer) /\ t = TimeOf(peer)
  OBVIOUS
<1>2. M \in Nat
  <2>1. M = CHOOSE x \in Steps : \A y \in Steps : x >= y
    BY <1>1 DEF Max
  <2>2. \E x \in Steps : \A y \in Steps : x >= y
    BY HeadersSyncAssumption
  <2>3. M \in Steps
    BY <2>1, <2>2, Zenon
  <2> QED BY <2>3, HeadersSyncAssumption
<1>3. n \in Nat /\ n < MaxHeight /\ MaxHeight \in Nat /\ peer \in Chains
  BY <1>1, ChainFacts, HeadersSyncAssumption, Zenon DEF Types
<1>4. t \in Nat /\ t <= n * M
  <2>1. CASE peer = <<>>
    <3>1. t = 0 /\ n = 0
      BY <1>1, <2>1, EmptyFacts, Zenon DEF TimeOf
    <3>2. n * M = 0
      BY <1>2, <3>1
    <3> QED BY <3>1, <3>2
  <2>2. CASE peer # <<>>
    <3>1. t = peer[n].time
      BY <1>1, <2>2, Zenon DEF TimeOf
    <3>2. n # 0
      BY <1>1, <1>3, <2>2, EmptySeq, Zenon DEF Chains
    <3>3. n \in 1 .. n
      BY <1>3, <3>2
    <3>4. peer[n] \in Header
      BY <1>1, <1>3, <3>3, ChainFacts, Zenon
    <3>5. peer[n].time \in Nat
      BY <3>4 DEF Header
    <3>6. peer[n].time <= n * Max(Steps)
      BY <1>1, <3>3, Zenon DEF PeerInTable
    <3> QED BY <1>1, <3>1, <3>5, <3>6, Zenon
  <2> QED BY <2>1, <2>2, Zenon
<1>5. n \in 0 .. MaxHeight /\ t \in Times
  <2>1. (MaxHeight - n) * M \in Nat /\ (MaxHeight - n) * M = MaxHeight * M - n * M /\ n * M \in Nat /\ MaxHeight * M \in Nat
    BY <1>2, <1>3
  <2>2. t \in 0 .. MaxHeight * M
    BY <1>4, <2>1
  <2> QED BY <1>1, <1>3, <2>2 DEF Times
<1>6. NextBits[n] = [time \in Times |-> GetNextWorkRequired(n, time)]
  BY <1>5, Zenon DEF NextBits
<1>7. NextBits[n][t] \in Range(NextBits[n])
  BY <1>5, <1>6 DEF Range
<1>8. Required(peer) \in AllBits
  BY <1>1, <1>5, <1>7, Zenon DEF Required, AllBits
<1> QED BY <1>1, <1>2, <1>4, <1>8, Zenon

\* The peer finds a block: nothing changes for the node.
LEMMA PeerMinesKeeps == HeadersInv /\ PeerMines => HeadersInv'
<1> SUFFICES ASSUME HeadersInv, PeerMines PROVE HeadersInv'
  OBVIOUS
<1>1. UNCHANGED node /\ Len(peer) < MaxHeight /\ Types /\ PeerInTable
  BY Zenon DEF PeerMines, HeadersInv
<1>2. /\ UNCHANGED <<state, offset, last, work, commitments, buffer, firstPrev>>
      /\ UNCHANGED <<lastHash, redownloadWork, all, released, seen, got, complete>>
  BY <1>1 DEF node
<1>3. PICK step \in Steps, bits \in {Required(peer)} \cup WrongBits :
        peer' = Append(peer, [time |-> TimeOf(peer) + step, bits |-> bits])
  BY Zenon DEF PeerMines
<1>4. PICK h, t, M, n : h = [time |-> TimeOf(peer) + step, bits |-> bits] /\ t = TimeOf(peer) /\ M = Max(Steps) /\ n = Len(peer)
  BY Zenon
<1>5. t \in Nat /\ t <= n * M /\ M \in Nat /\ Required(peer) \in AllBits
  BY <1>1, <1>4, RequiredInTable, Zenon
<1>6. step \in Nat /\ step <= M
  <2>1. M = CHOOSE x \in Steps : \A y \in Steps : x >= y
    BY <1>4 DEF Max
  <2>2. \E x \in Steps : \A y \in Steps : x >= y
    BY HeadersSyncAssumption
  <2>3. M >= step
    BY <2>1, <2>2, Zenon
  <2> QED BY <1>5, <2>3, HeadersSyncAssumption
<1>7. h \in Header /\ h.time = t + step
  <2>1. bits \in AllBits
    <3>1. WrongBits \subseteq AllBits
      BY Zenon DEF AllBits
    <3> QED BY <1>5, <3>1, Zenon
  <2> QED BY <1>4, <1>5, <1>6, <2>1 DEF Header
<1>8. peer \in Seq(Header) /\ peer' = Append(peer, h)
  BY <1>1, <1>3, <1>4, Zenon DEF Types, Chains
<1>9. /\ peer' \in Seq(Header) /\ Len(peer') = n + 1 /\ n \in Nat /\ \A i \in 1 .. n : peer'[i] = peer[i]
      /\ peer'[n + 1] = h
  BY <1>4, <1>7, <1>8
<1>10. Types'
  BY <1>1, <1>2, <1>9, Zenon DEF Types, Chains
<1>11. PeerInTable'
  <2>1. Len(peer') <= MaxHeight
    BY <1>1, <1>4, <1>9, HeadersSyncAssumption
  <2>2. ASSUME NEW i \in 1 .. Len(peer') PROVE peer'[i].time <= i * M
    <3>1. CASE i \in 1 .. n
      BY <1>1, <1>4, <1>9, <3>1, Zenon DEF PeerInTable
    <3>2. CASE i = n + 1
      <4>1. (n + 1) * M = n * M + M /\ n * M \in Nat
        BY <1>5, <1>9
      <4>2. t + step <= (n + 1) * M
        BY <1>5, <1>6, <4>1
      <4> QED BY <1>7, <1>9, <3>2, <4>2, Zenon
    <3>3. i \in 1 .. n \/ i = n + 1
      BY <1>9
    <3> QED BY <3>1, <3>2, <3>3, Zenon
  <2> QED BY <1>4, <2>1, <2>2, Zenon DEF PeerInTable
<1>12. (FirstPass /\ SecondPass /\ MemoryBounded)'
  <2>1. FirstPass'
    BY <1>2, Zenon DEF HeadersInv, FirstPass
  <2>2. SecondPass'
    BY <1>2, Zenon DEF HeadersInv, SecondPass
  <2>3. MemoryBounded'
    BY <1>2, Zenon DEF HeadersInv, MemoryBounded
  <2> QED BY <2>1, <2>2, <2>3, Zenon
<1>13. (Released(released, got) /\ Covered(released, got))'
  BY <1>2, Zenon DEF HeadersInv, Released, Covered
<1> QED BY <1>10, <1>11, <1>12, <1>13, Zenon DEF HeadersInv

\* The peer gives up its last blocks: nothing changes for the node.
LEMMA PeerReorgsKeeps == HeadersInv /\ PeerReorgs => HeadersInv'
<1> SUFFICES ASSUME HeadersInv, PeerReorgs PROVE HeadersInv'
  OBVIOUS
<1>1. UNCHANGED node /\ Types /\ PeerInTable
  BY Zenon DEF PeerReorgs, HeadersInv
<1>2. /\ UNCHANGED <<state, offset, last, work, commitments, buffer, firstPrev>>
      /\ UNCHANGED <<lastHash, redownloadWork, all, released, seen, got, complete>>
  BY <1>1 DEF node
<1>3. PICK n \in 0 .. Len(peer) - 1 : peer' = SubSeq(peer, 1, n)
  BY Zenon DEF PeerReorgs
<1>4. peer \in Chains /\ Len(peer) \in Nat
  BY <1>1, ChainFacts, Zenon DEF Types
<1>5. n \in 0 .. Len(peer) /\ n <= Len(peer) /\ \A i \in 1 .. n : i \in 1 .. Len(peer)
  BY <1>4
<1>6. peer' \in Chains /\ Len(peer') = n /\ \A i \in 1 .. n : peer'[i] = peer[i]
  BY <1>3, <1>4, <1>5, PrefixFacts, Zenon
<1>7. Types'
  BY <1>1, <1>2, <1>6, Zenon DEF Types
<1>8. PeerInTable'
  <2>1. Len(peer') <= MaxHeight
    BY <1>1, <1>4, <1>5, <1>6, HeadersSyncAssumption DEF PeerInTable
  <2> QED BY <1>1, <1>5, <1>6, <2>1, Zenon DEF PeerInTable
<1>9. (FirstPass /\ SecondPass /\ MemoryBounded)'
  <2>1. FirstPass'
    BY <1>2, Zenon DEF HeadersInv, FirstPass
  <2>2. SecondPass'
    BY <1>2, Zenon DEF HeadersInv, SecondPass
  <2>3. MemoryBounded'
    BY <1>2, Zenon DEF HeadersInv, MemoryBounded
  <2> QED BY <2>1, <2>2, <2>3, Zenon
<1>10. (Released(released, got) /\ Covered(released, got))'
  BY <1>2, Zenon DEF HeadersInv, Released, Covered
<1> QED BY <1>7, <1>8, <1>9, <1>10, Zenon DEF HeadersInv

\* After Finalize what was released keeps its properties, and nothing is stored.
LEMMA FinalizedKeeps ==
  ASSUME HeadersInv, Cleared, UNCHANGED peer, seen' \in Chains, got' \in Chains, released' \in Seq(FullHeader),
         work' \in Nat, redownloadWork' \in Nat, Released(released', got'), Covered(released, got)'
  PROVE  HeadersInv'
<1>0. PICK e : e = <<>>
  OBVIOUS
<1>1. e \in Chains /\ Len(e) = 0 /\ e \in Seq(Bits)
  BY <1>0, EmptyFacts, Zenon
<1>2. /\ state' = "FINAL" /\ last' = e /\ commitments' = e /\ buffer' = e /\ firstPrev' = e /\ lastHash' = e
  BY <1>0, Zenon DEF Cleared
<1>3. Types'
  BY <1>1, <1>2, Zenon DEF Types, HeadersInv
<1>4. PeerInTable'
  BY Zenon DEF PeerInTable, HeadersInv
<1>5. FirstPass' /\ SecondPass'
  <2>1. state' # "PRESYNC" /\ state' # "REDOWNLOAD"
    BY <1>2
  <2> QED BY <2>1, Zenon DEF FirstPass, SecondPass
<1>6. MemoryBounded'
  <2>1. 0 <= MaxCommitments
    <3>1. BlocksPerSecond * MaxSeconds \in Nat
      BY HeadersSyncAssumption
    <3> QED BY <3>1, HeadersSyncAssumption DEF MaxCommitments
  <2>2. 0 <= BufferSize
    BY HeadersSyncAssumption
  <2> QED BY <1>1, <1>2, <2>1, <2>2, Zenon DEF MemoryBounded
<1>7. Released(released, got)'
  BY Zenon DEF Released
<1> QED BY <1>3, <1>4, <1>5, <1>6, <1>7, Zenon DEF HeadersInv

\* The peer has nothing more to send, and the sync ends.
LEMMA EmptyHeadersKeeps == HeadersInv /\ EmptyHeaders => HeadersInv'
<1> SUFFICES ASSUME HeadersInv, EmptyHeaders PROVE HeadersInv'
  OBVIOUS
<1>1. Cleared /\ UNCHANGED <<peer, reorgs, offset, work, redownloadWork, released, seen, got, complete>>
  BY Zenon DEF EmptyHeaders
<1>2. UNCHANGED peer /\ UNCHANGED offset /\ UNCHANGED work /\ UNCHANGED redownloadWork /\ UNCHANGED released
      /\ UNCHANGED seen /\ UNCHANGED got
  BY <1>1
<1>3. /\ seen' \in Chains /\ got' \in Chains /\ released' \in Seq(FullHeader)
      /\ work' \in Nat /\ redownloadWork' \in Nat
  BY <1>2, Zenon DEF HeadersInv, Types
<1>4. Released(released', got')
  BY <1>2, Zenon DEF HeadersInv
<1>5. Covered(released, got)'
  BY <1>2, Zenon DEF HeadersInv, Covered
<1> QED BY <1>1, <1>2, <1>3, <1>4, <1>5, FinalizedKeeps, Zenon

\* A message of the first pass
LEMMA PresyncKeeps ==
  ASSUME HeadersInv, state = "PRESYNC", NEW b \in Chains, NEW full, Presync(b, full), UNCHANGED peer, UNCHANGED offset
  PROVE  HeadersInv'
<1> DEFINE sum == work + ChainWork(b)
           ok == /\ From = last
                 /\ \A i \in 1 .. Len(b) : b[i].bits = Required(Hash(last, b, i - 1))
                 /\ ~TooMany(Added(b))
           enough == sum >= MinWork
<1>1. /\ IF ~ok \/ ~(full \/ enough) THEN Cleared
         ELSE /\ last' = last \o b /\ commitments' = Added(b)
              /\ state' = IF enough THEN "REDOWNLOAD" ELSE "PRESYNC"
              /\ buffer' = <<>> /\ firstPrev' = <<>> /\ lastHash' = <<>> /\ all' = all
      /\ work' = IF ok THEN sum ELSE work
      /\ seen' = IF ok THEN last \o b ELSE seen
      /\ redownloadWork' = 0
      /\ released' = released /\ got' = got
  BY DEF Presync
<1>2. PICK c, e : c = last \o b /\ e = <<>>
  BY Zenon
<1>3. ~TooMany(Added(b)) \/ ~ok
  OBVIOUS
<1> HIDE DEF ok
<1>4. e \in Chains /\ Len(e) = 0 /\ ChainWork(e) = 0 /\ e \in Seq(FullHeader) /\ e \in Seq(Bits)
  BY <1>2, EmptyFacts, Zenon
<1>5. /\ seen = last /\ work = ChainWork(last) /\ released = e /\ got = e /\ ~all
      /\ InStep(offset, commitments, last, 0, Len(last))
  BY <1>2, Zenon DEF HeadersInv, FirstPass
<1>6. last \in Chains /\ seen \in Chains /\ commitments \in Seq(Bits) /\ work \in Nat
  BY Zenon DEF HeadersInv, Types
<1>7. c \in Chains /\ ChainWork(c) = sum /\ sum \in Nat
  <2>1. c \in Chains
    BY <1>2, <1>6, BothFacts, Zenon
  <2>2. ChainWork(c) = ChainWork(last) + ChainWork(b) /\ ChainWork(b) \in Nat
    BY <1>2, <1>6, WorkOfBoth, Zenon
  <2>3. ChainWork(c) = sum
    BY <1>5, <2>2, Zenon
  <2>4. sum \in Nat
    BY <1>6, <2>2
  <2> QED BY <2>1, <2>3, <2>4, Zenon
<1>8. 0 \in Nat /\ 1 .. 0 = {} /\ 0 <= 0
  OBVIOUS
<1>9. Released(released', got') /\ Covered(released, got)' /\ released' \in Seq(FullHeader) /\ got' \in Chains
  <2>1. released' = e /\ got' = e
    BY <1>1, <1>5, Zenon
  <2> QED BY <1>4, <1>8, <2>1, Zenon DEF Released, Covered
<1>10. seen' \in Chains /\ work' \in Nat /\ redownloadWork' \in Nat
  <2> HIDE DEF sum
  <2> QED BY <1>1, <1>2, <1>6, <1>7, <1>8, Zenon
<1>11. CASE ~ok \/ ~(full \/ enough)
  <2>1. Cleared
    BY <1>1, <1>11, Zenon
  <2> QED BY <1>9, <1>10, <2>1, FinalizedKeeps, Zenon
<1>12. CASE ok /\ (full \/ enough)
  <2>1. /\ last' = c /\ commitments' = Added(b) /\ seen' = c /\ work' = ChainWork(c)
        /\ state' = IF enough THEN "REDOWNLOAD" ELSE "PRESYNC"
        /\ buffer' = e /\ firstPrev' = e /\ lastHash' = e /\ ~all' /\ released' = e /\ got' = e /\ redownloadWork' = 0
    BY <1>1, <1>2, <1>5, <1>7, <1>12, Zenon
  <2>2. Added(b) \in Seq(Bits) /\ InStep(offset, Added(b), c, 0, Len(c))
    BY <1>2, <1>5, <1>6, AddedFacts, Zenon
  <2>3. Types'
    <3>1. state' \in {"PRESYNC", "REDOWNLOAD", "FINAL"}
      BY <2>1
    <3> QED BY <1>4, <1>7, <1>9, <1>10, <2>1, <2>2, <3>1, Zenon DEF Types, HeadersInv
  <2>4. PeerInTable'
    BY Zenon DEF PeerInTable, HeadersInv
  <2>5. InStep(offset', commitments', last', 0, Len(last'))
    BY <2>1, <2>2, Zenon
  <2>6. FirstPass'
    BY <1>2, <2>1, <2>5, Zenon DEF FirstPass
  <2>7. SecondPass'
    <3> SUFFICES ASSUME state' = "REDOWNLOAD" PROVE SecondPass'
      BY Zenon DEF SecondPass
    <3>1. enough
      BY <2>1
    <3>2. ChainWork(last') >= MinWork
      BY <1>7, <2>1, <3>1, Zenon
    <3>3. InStep(offset', commitments', last', Len(lastHash'), Len(last'))
      BY <1>4, <2>1, <2>5, Zenon
    <3>4. lastHash' = firstPrev' \o buffer'
      <4>1. e = e \o e
        BY <1>2, <1>4, ConcatEmptySeq, Zenon
      <4> QED BY <2>1, <4>1, Zenon
    <3>5. Grown(lastHash') /\ Agree(offset', lastHash', last')
      BY <1>4, <1>8, <2>1, Zenon DEF Grown, Agree
    <3>6. Len(released') = 0 /\ Len(firstPrev') = 0 /\ Len(lastHash') = 0
      BY <1>4, <2>1, Zenon
    <3>7. seen' = last' /\ got' = lastHash' /\ redownloadWork' = ChainWork(lastHash') /\ ~all'
      BY <1>4, <2>1, Zenon
    <3> QED BY <3>2, <3>3, <3>4, <3>5, <3>6, <3>7, Zenon DEF SecondPass
  <2>8. MemoryBounded'
    <3>1. ~TooMany(Added(b))
      BY <1>3, <1>12, Zenon
    <3>2. Len(Added(b)) \in Nat
      BY <2>2, LenProperties, Zenon
    <3>3. MaxCommitments \in Nat
      <4>1. BlocksPerSecond * MaxSeconds \in Nat
        BY HeadersSyncAssumption
      <4> QED BY <4>1, HeadersSyncAssumption DEF MaxCommitments
    <3>4. Len(Added(b)) <= MaxCommitments
      BY <3>1, <3>2, <3>3 DEF TooMany
    <3>5. 0 <= BufferSize
      BY HeadersSyncAssumption
    <3> QED BY <1>4, <2>1, <3>4, <3>5, Zenon DEF MemoryBounded
  <2>9. Released(released, got)'
    BY <1>9, Zenon DEF Released
  <2> QED BY <1>9, <2>3, <2>4, <2>6, <2>7, <2>8, <2>9, Zenon DEF HeadersInv
<1> QED BY <1>11, <1>12, Zenon

-----------------------------------------------------------------------------
(* A message of the second pass *)

\* The second pass at an accepted batch: the chain with the batch has the right difficulties, and its work
\* is the sum.
LEMMA AcceptedChain ==
  ASSUME HeadersInv, state = "REDOWNLOAD", NEW b \in Chains, Accepted(b)
  PROVE  /\ lastHash \o b \in Chains /\ buffer \o b \in Chains /\ lastHash \o b = firstPrev \o (buffer \o b)
         /\ Grown(lastHash \o b)
         /\ redownloadWork + ChainWork(b) = ChainWork(lastHash \o b)
<1>1. lastHash \in Chains /\ buffer \in Chains /\ firstPrev \in Chains
  BY Zenon DEF HeadersInv, Types
<1>2. /\ lastHash = firstPrev \o buffer /\ Grown(lastHash) /\ redownloadWork = ChainWork(lastHash)
      /\ (Len(buffer) = 0 => Len(lastHash) = 0)
  BY Zenon DEF HeadersInv, SecondPass
<1>3. PICK c, d : c = lastHash \o b /\ d = buffer \o b
  BY Zenon
<1>4. c \in Chains /\ d \in Chains /\ c = firstPrev \o d
  <2>1. c \in Chains /\ d \in Chains
    BY <1>1, <1>3, BothFacts, Zenon
  <2>2. (firstPrev \o buffer) \o b = firstPrev \o (buffer \o b)
    BY <1>1, Joined, Zenon
  <2> QED BY <1>2, <1>3, <2>1, <2>2, Zenon
<1>5. redownloadWork + ChainWork(b) = ChainWork(c)
  BY <1>1, <1>2, <1>3, WorkOfBoth, Zenon
<1>6. ASSUME NEW i \in 1 .. Len(c) PROVE c[i].bits = Required(SubSeq(c, 1, i - 1))
  <2>1. /\ Len(lastHash) \in Nat /\ Len(b) \in Nat /\ Len(c) = Len(lastHash) + Len(b)
        /\ \A j \in 1 .. Len(lastHash) : c[j] = lastHash[j]
        /\ \A j \in 1 .. Len(b) : c[Len(lastHash) + j] = b[j]
    <3>1. /\ Len(lastHash) \in Nat /\ Len(b) \in Nat /\ Len(lastHash \o b) = Len(lastHash) + Len(b)
          /\ \A j \in 1 .. Len(lastHash) : (lastHash \o b)[j] = lastHash[j]
          /\ \A j \in 1 .. Len(b) : (lastHash \o b)[Len(lastHash) + j] = b[j]
      BY <1>1, BothFacts, Zenon
    <3> QED BY <1>3, <3>1, Zenon
  <2>2. CASE i \in 1 .. Len(lastHash)
    <3>1. i - 1 \in 0 .. Len(lastHash)
      BY <2>1, <2>2
    <3>2. SubSeq(c, 1, i - 1) = SubSeq(lastHash, 1, i - 1)
      BY <1>1, <1>3, <3>1, PrefixOfBoth, Zenon
    <3>3. lastHash[i].bits = Required(SubSeq(lastHash, 1, i - 1))
      BY <1>2, <2>2, Zenon DEF Grown
    <3> QED BY <2>1, <2>2, <3>2, <3>3, Zenon
  <2>3. CASE i \notin 1 .. Len(lastHash)
    <3>1. PICK j : j = i - Len(lastHash)
      OBVIOUS
    <3>2. j \in 1 .. Len(b) /\ i = Len(lastHash) + j /\ j - 1 \in 0 .. Len(b) /\ Len(lastHash) + (j - 1) = i - 1
          /\ Len(lastHash) + j - 1 = i - 1
      BY <2>1, <2>3, <3>1
    <3>3. b[j].bits = NextBits[Len(lastHash) + j - 1][PreviousTime(Hash(buffer, b, j - 1))]
      BY <3>2, Zenon DEF Accepted
    <3>4. PICK u, h, p : u = SubSeq(b, 1, j - 1) /\ h = Hash(buffer, b, j - 1) /\ p = Hash(lastHash, b, j - 1)
      BY Zenon
    <3>5. u \in Chains /\ Len(u) = j - 1 /\ h = buffer \o u /\ p = lastHash \o u
      BY <3>2, <3>4, PrefixFacts, Zenon DEF Hash
    <3>6. p = firstPrev \o h /\ h \in Chains
      <4>1. (firstPrev \o buffer) \o u = firstPrev \o (buffer \o u)
        BY <1>1, <3>5, Joined, ZenonT(40)
      <4>2. h \in Chains
        BY <1>1, <3>5, BothFacts, Zenon
      <4> QED BY <1>2, <3>5, <4>1, <4>2, Zenon
    <3>7. h # <<>> \/ firstPrev = <<>>
      <4> SUFFICES ASSUME h = <<>> PROVE firstPrev = <<>>
        BY Zenon
      <4>1. Len(h) = 0 /\ Len(h) = Len(buffer) + Len(u) /\ Len(buffer) \in Nat /\ Len(u) \in Nat
        BY <1>1, <3>5, EmptyFacts, BothFacts, ZenonT(40)
      <4>2. Len(buffer) = 0
        BY <4>1
      <4>3. Len(lastHash) = 0 /\ Len(lastHash) = Len(firstPrev) + Len(buffer) /\ Len(firstPrev) \in Nat
        BY <1>1, <1>2, <4>2, BothFacts, Zenon
      <4>4. Len(firstPrev) = 0
        BY <4>2, <4>3
      <4> QED BY <1>1, <4>4, EmptySeq, Zenon DEF Chains
    <3>8. PreviousTime(h) = TimeOf(p)
      BY <1>1, <3>6, <3>7, TimeBefore, Zenon
    <3>9. p = SubSeq(c, 1, i - 1) /\ Len(p) = i - 1
      <4>1. p = SubSeq(c, 1, Len(lastHash) + (j - 1)) /\ Len(p) = Len(lastHash) + (j - 1)
        BY <1>1, <1>3, <3>2, <3>4, HashIs, Zenon
      <4> QED BY <3>2, <4>1, Zenon
    <3>10. b[j].bits = NextBits[Len(p)][TimeOf(p)]
      BY <3>2, <3>3, <3>4, <3>8, <3>9, Zenon
    <3>11. c[i] = b[j]
      BY <2>1, <3>2, Zenon
    <3> QED BY <3>9, <3>10, <3>11, Zenon DEF Required
  <2> QED BY <2>2, <2>3, Zenon
<1>7. Grown(c)
  BY <1>6, Zenon DEF Grown
<1> QED BY <1>3, <1>4, <1>5, <1>7, Zenon

\* Before the required work its committed headers agree with the first pass, and the queue is in step.
LEMMA AcceptedAgrees ==
  ASSUME HeadersInv, state = "REDOWNLOAD", NEW b \in Chains, Accepted(b), ~Everything(b, Len(b))
  PROVE  /\ Agree(offset, lastHash \o b, last)
         /\ InStep(offset, SubSeq(commitments, Taken(b, Len(b)) + 1, Len(commitments)), last, Len(lastHash \o b), Len(last))
         /\ SubSeq(commitments, Taken(b, Len(b)) + 1, Len(commitments)) \in Seq(Bits)
         /\ Len(SubSeq(commitments, Taken(b, Len(b)) + 1, Len(commitments))) <= Len(commitments)
<1>1. lastHash \in Chains /\ last \in Chains /\ commitments \in Seq(Bits) /\ redownloadWork \in Nat
  BY Zenon DEF HeadersInv, Types
<1>2. InStep(offset, commitments, last, Len(lastHash), Len(last)) /\ Agree(offset, lastHash, last)
  BY Zenon DEF HeadersInv, SecondPass
<1>3. PICK c, n, L, l, q : c = lastHash \o b /\ n = Len(b) /\ L = Len(lastHash) /\ l = Len(last) /\ q = Len(commitments)
  BY Zenon
<1>4. /\ c \in Chains /\ n \in Nat /\ L \in Nat /\ l \in Nat /\ q \in Nat /\ Len(c) = L + n /\ L + n \in Nat
      /\ n \in 0 .. n /\ L <= L + n
  <2>1. c \in Chains /\ n \in Nat /\ L \in Nat /\ Len(c) = L + n
    BY <1>1, <1>3, BothFacts, Zenon
  <2>2. l \in Nat /\ q \in Nat
    BY <1>1, <1>3, LenProperties, Zenon DEF Chains
  <2> QED BY <2>1, <2>2
<1>5. /\ \A i \in 1 .. n : IsDue(b, i) <=> Marked(offset, L + i)
      /\ \A i \in 0 .. n : Taken(b, i) = Kept(offset, L + i) - Kept(offset, L)
  BY <1>1, <1>3, TakenIsKept, Zenon
<1>6. \A i \in 0 .. n : Taken(b, i) \in Nat /\ Taken(b, i) <= q
  BY <1>1, <1>3, TakenCounts, TakenBound, Zenon
<1>7. q = Kept(offset, l) - Kept(offset, L)
  BY <1>2, <1>3, Zenon DEF InStep
<1>8. ASSUME NEW m \in 1 .. Len(c), Marked(offset, m)
      PROVE  m <= l /\ SaltedBit(SubSeq(c, 1, m)) = SaltedBit(SubSeq(last, 1, m))
  <2>1. CASE m \in 1 .. L
    <3>1. m \in 0 .. L
      BY <2>1
    <3>2. SubSeq(c, 1, m) = SubSeq(lastHash, 1, m)
      BY <1>1, <1>3, <3>1, PrefixOfBoth, Zenon
    <3> QED BY <1>2, <1>3, <1>8, <2>1, <3>2, Zenon DEF Agree
  <2>2. CASE m \notin 1 .. L
    <3>1. PICK i : i = m - L
      OBVIOUS
    <3>2. i \in 1 .. n /\ i \in 0 .. n /\ m = L + i /\ m \in Nat /\ m # 0
      BY <1>4, <2>2, <3>1
    <3>3. IsDue(b, i)
      BY <1>5, <1>8, <3>2, Zenon
    <3>4. PICK t, km, kL, kl : t = Taken(b, i) /\ km = Kept(offset, m) /\ kL = Kept(offset, L) /\ kl = Kept(offset, l)
      OBVIOUS
    <3>5. t = km - kL /\ t <= q /\ q = kl - kL /\ km \in Nat /\ kL \in Nat /\ kl \in Nat
      <4>1. t = km - kL /\ t <= q /\ q = kl - kL
        BY <1>5, <1>6, <1>7, <3>2, <3>4, Zenon
      <4>2. km \in Nat /\ kL \in Nat /\ kl \in Nat
        BY <1>4, <3>2, <3>4, KeptFacts, Zenon
      <4> QED BY <4>1, <4>2, Zenon
    <3>6. m <= l
      <4> SUFFICES ASSUME ~(m <= l) PROVE FALSE
        OBVIOUS
      <4>1. l \in 0 .. m - 1
        BY <1>4, <3>2
      <4>2. kl < km
        BY <1>8, <3>2, <3>4, <4>1, KeptFacts
      <4> QED BY <3>5, <4>2
    <3>7. commitments[t] = SaltedBit(Hash(lastHash, b, i))
      BY <1>3, <3>2, <3>3, <3>4, Zenon DEF Accepted
    <3>8. Hash(lastHash, b, i) = SubSeq(c, 1, m)
      BY <1>1, <1>3, <3>2, HashIs, Zenon
    <3>9. commitments[t] = SaltedBit(SubSeq(last, 1, m))
      <4>1. m \in L + 1 .. l
        BY <1>4, <3>2, <3>6
      <4>2. commitments[Kept(offset, m) - Kept(offset, L)] = SaltedBit(SubSeq(last, 1, m))
        BY <1>2, <1>3, <1>8, <4>1, Zenon DEF InStep
      <4> QED BY <3>4, <3>5, <4>2, Zenon
    <3> QED BY <3>6, <3>7, <3>8, <3>9, Zenon
  <2> QED BY <2>1, <2>2, Zenon
<1>9. Agree(offset, c, last)
  BY <1>3, <1>8, Zenon DEF Agree
<1>10. PICK k, r : k = Taken(b, n) /\ r = SubSeq(commitments, k + 1, Len(commitments))
  BY Zenon
<1>11. k \in Nat /\ k <= Len(commitments) /\ k = Kept(offset, L + n) - Kept(offset, L)
  BY <1>3, <1>4, <1>5, <1>6, <1>10, Zenon
<1>12. InStep(offset, r, last, L + n, l) /\ r \in Seq(Bits)
  BY <1>1, <1>2, <1>3, <1>4, <1>10, <1>11, InStepRest, Zenon
<1>13. Len(r) <= Len(commitments)
  <2>1. Len(r) = Len(commitments) - k
    BY <1>1, <1>10, <1>11, RestFacts, Zenon
  <2> QED BY <1>3, <1>4, <1>11, <2>1
<1> QED BY <1>3, <1>4, <1>9, <1>10, <1>12, <1>13, Zenon

\* How many headers leave the buffer
LEMMA PoppedFacts ==
  ASSUME HeadersInv, state = "REDOWNLOAD", NEW b \in Chains,
         NEW size, size = Len(buffer \o b), NEW n, n = Popped(size, Everything(b, Len(b)))
  PROVE  /\ size \in Nat /\ n \in 0 .. size
         /\ Everything(b, Len(b)) => n = size
         /\ ~Everything(b, Len(b)) =>
                 /\ size - n <= BufferSize
                 /\ n # 0 \/ Len(released) # 0 => size - n = BufferSize
                 /\ size - n = 0 => Len(lastHash \o b) = 0
<1>1. lastHash \in Chains /\ buffer \in Chains /\ Len(released) \in Nat
  BY LenProperties, Zenon DEF HeadersInv, Types
<1>2. (Len(buffer) = 0 => Len(lastHash) = 0) /\ (Len(released) # 0 => Len(buffer) = BufferSize)
  BY Zenon DEF HeadersInv, SecondPass
<1>3. PICK x, y, z : x = Len(buffer) /\ y = Len(b) /\ z = Len(lastHash)
  BY Zenon
<1>4. x \in Nat /\ y \in Nat /\ z \in Nat /\ size = x + y /\ Len(lastHash \o b) = z + y
  BY <1>1, <1>3, BothFacts, Zenon
<1>5. BufferSize \in Nat /\ BufferSize # 0
  BY HeadersSyncAssumption
<1>6. CASE Everything(b, Len(b))
  <2>1. n = size
    BY <1>6, Zenon DEF Popped
  <2>2. size \in Nat /\ n \in 0 .. size
    BY <1>4, <2>1
  <2> QED BY <1>6, <2>1, <2>2, Zenon
<1>7. CASE ~Everything(b, Len(b))
  <2>1. n = IF size > BufferSize THEN size - BufferSize ELSE 0
    BY <1>7, Zenon DEF Popped
  <2>2. size \in Nat /\ n \in 0 .. size /\ size - n <= BufferSize
    BY <1>4, <1>5, <2>1
  <2>3. n # 0 \/ Len(released) # 0 => size - n = BufferSize
    BY <1>2, <1>3, <1>4, <1>5, <2>1
  <2>4. size - n = 0 => z + y = 0
    BY <1>2, <1>3, <1>4, <1>5, <2>1, SMTT(30)
  <2> QED BY <1>4, <1>7, <2>2, <2>3, <2>4, Zenon
<1> QED BY <1>6, <1>7, Zenon

\* What leaves it goes on where the last message stopped.
LEMMA ReleasedGoesOn ==
  ASSUME HeadersInv, state = "REDOWNLOAD", NEW b \in Chains, Accepted(b), NEW n \in 0 .. Len(buffer \o b)
  PROVE  LET r == released \o FullHeaders(firstPrev, SubSeq(buffer \o b, 1, n))
         IN  r \in Seq(FullHeader) /\ Len(r) = Len(firstPrev) + n /\ Released(r, lastHash \o b)
<1>1. PICK c, d, u, f, r : c = lastHash \o b /\ d = buffer \o b /\ u = SubSeq(d, 1, n) /\ f = FullHeaders(firstPrev, u)
                           /\ r = released \o f
  BY Zenon
<1>2. firstPrev \in Chains /\ released \in Seq(FullHeader) /\ lastHash \in Chains
  BY Zenon DEF HeadersInv, Types
<1>3. got = lastHash /\ Len(released) = Len(firstPrev) /\ Released(released, lastHash)
  BY Zenon DEF HeadersInv, SecondPass
<1>4. c \in Chains /\ d \in Chains /\ c = firstPrev \o d /\ Grown(c)
  BY <1>1, AcceptedChain, Zenon
<1>5. /\ Len(firstPrev) \in Nat /\ Len(d) \in Nat /\ Len(c) = Len(firstPrev) + Len(d)
      /\ \A i \in 1 .. Len(d) : c[Len(firstPrev) + i] = d[i]
  <2>1. /\ Len(firstPrev) \in Nat /\ Len(d) \in Nat /\ Len(firstPrev \o d) = Len(firstPrev) + Len(d)
        /\ \A i \in 1 .. Len(d) : (firstPrev \o d)[Len(firstPrev) + i] = d[i]
    BY <1>2, <1>4, BothFacts, Zenon
  <2> QED BY <1>4, <2>1, Zenon
<1>6. n \in Nat /\ n <= Len(d) /\ n \in 0 .. Len(d)
  BY <1>1, <1>5
<1>7. u \in Chains /\ Len(u) = n /\ \A i \in 1 .. n : u[i] = d[i]
  BY <1>1, <1>4, <1>6, PrefixFacts, Zenon
<1> DEFINE g(i) == [prev |-> Hash(firstPrev, u, i - 1), header |-> u[i]]
<1>8. f = [i \in 1 .. n |-> g(i)]
  BY <1>1, <1>7, Zenon DEF FullHeaders
<1>9. ASSUME NEW i \in 1 .. n
      PROVE  /\ g(i) \in FullHeader
             /\ g(i) = [prev |-> SubSeq(c, 1, Len(firstPrev) + i - 1), header |-> c[Len(firstPrev) + i]]
  <2>1. i - 1 \in 0 .. n /\ i - 1 \in 0 .. Len(d) /\ i \in 1 .. Len(d) /\ Len(firstPrev) + (i - 1) = Len(firstPrev) + i - 1
    BY <1>5, <1>6
  <2>2. Hash(firstPrev, u, i - 1) \in Chains
    BY <1>2, <1>7, <2>1, HashIs, Zenon
  <2>3. SubSeq(u, 1, i - 1) = SubSeq(d, 1, i - 1)
    BY <1>1, <1>4, <1>6, <2>1, PrefixOfPrefix, Zenon
  <2>4. Hash(firstPrev, u, i - 1) = Hash(firstPrev, d, i - 1)
    BY <2>3, Zenon DEF Hash
  <2>5. Hash(firstPrev, d, i - 1) = SubSeq(c, 1, Len(firstPrev) + (i - 1))
    BY <1>2, <1>4, <2>1, HashIs, Zenon
  <2>6. u[i] = c[Len(firstPrev) + i] /\ u[i] \in Header
    BY <1>5, <1>7, <2>1, ChainFacts, Zenon
  <2>7. g(i) \in FullHeader
    BY <2>2, <2>6 DEF FullHeader
  <2> QED BY <2>1, <2>4, <2>5, <2>6, <2>7, Zenon
<1> HIDE DEF g
<1>10. f \in Seq(FullHeader) /\ Len(f) = n /\ \A i \in 1 .. n : f[i] = g(i)
  <2>1. \A i \in 1 .. n : g(i) \in FullHeader
    BY <1>9, Zenon
  <2> QED BY <1>6, <1>8, <2>1
<1>11. /\ r \in Seq(FullHeader) /\ Len(r) = Len(released) + n
       /\ \A i \in 1 .. Len(released) : r[i] = released[i]
       /\ \A i \in 1 .. n : r[Len(released) + i] = f[i]
  BY <1>1, <1>2, <1>10, SMTT(30)
<1>12. PICK L : L = Len(firstPrev)
  BY Zenon
<1>13. L \in Nat /\ Len(r) = L + n /\ Len(released) = L /\ Len(r) <= Len(c)
  BY <1>3, <1>5, <1>6, <1>11, <1>12
<1>14. ASSUME NEW i \in 1 .. Len(r)
       PROVE  r[i] = [prev |-> SubSeq(c, 1, i - 1), header |-> c[i]] /\ c[i].bits = Required(SubSeq(c, 1, i - 1))
  <2>1. i \in 1 .. Len(c)
    BY <1>4, <1>13, ChainFacts
  <2>2. c[i].bits = Required(SubSeq(c, 1, i - 1))
    BY <1>4, <2>1, Zenon DEF Grown
  <2>3. CASE i \in 1 .. L
    <3>1. released[i] = [prev |-> SubSeq(lastHash, 1, i - 1), header |-> lastHash[i]] /\ L <= Len(lastHash)
      BY <1>3, <1>13, <2>3, Zenon DEF Released
    <3>2. Len(lastHash) \in Nat
      BY <1>2, ChainFacts, Zenon
    <3>3. i - 1 \in 0 .. Len(lastHash) /\ i \in 1 .. Len(lastHash)
      BY <1>13, <2>3, <3>1, <3>2, SMTT(30)
    <3>4. SubSeq(c, 1, i - 1) = SubSeq(lastHash, 1, i - 1)
      BY <1>1, <1>2, <3>3, PrefixOfBoth, Zenon
    <3>5. c[i] = lastHash[i]
      <4>1. (lastHash \o b)[i] = lastHash[i]
        BY <1>2, <3>3, BothFacts, Zenon
      <4> QED BY <1>1, <4>1, Zenon
    <3> QED BY <1>11, <1>13, <2>2, <2>3, <3>1, <3>4, <3>5, Zenon
  <2>4. CASE i \notin 1 .. L
    <3>1. PICK j : j = i - L
      OBVIOUS
    <3>2. j \in 1 .. n /\ L + j = i /\ L + j - 1 = i - 1
      BY <1>6, <1>13, <2>4, <3>1
    <3>3. r[i] = g(j)
      BY <1>10, <1>11, <1>13, <3>2, Zenon
    <3>4. g(j) = [prev |-> SubSeq(c, 1, L + j - 1), header |-> c[L + j]]
      BY <1>9, <1>12, <3>2, Zenon
    <3> QED BY <2>2, <3>2, <3>3, <3>4, Zenon
  <2> QED BY <2>3, <2>4, Zenon
<1>15. Released(r, c)
  BY <1>13, <1>14, Zenon DEF Released
<1> QED BY <1>1, <1>11, <1>12, <1>13, <1>15, Zenon

\* A message of the second pass, accepted or not, the last one or not
LEMMA RedownloadKeeps ==
  ASSUME HeadersInv, state = "REDOWNLOAD", NEW b \in Chains, NEW full, Redownload(b, full),
         UNCHANGED peer, UNCHANGED offset
  PROVE  HeadersInv'
<1> DEFINE everything == Everything(b, Len(b))
           d == buffer \o b
           n == Popped(Len(d), everything)
           done == n = Len(d) /\ everything
           r == released \o FullHeaders(firstPrev, SubSeq(d, 1, n))
           q == SubSeq(commitments, Taken(b, Len(b)) + 1, Len(commitments))
<1>1. /\ IF Accepted(b) THEN released' = r /\ redownloadWork' = redownloadWork + ChainWork(b) /\ got' = lastHash \o b
         ELSE released' = released /\ redownloadWork' = redownloadWork /\ got' = got
      /\ IF ~Accepted(b) \/ done \/ ~full THEN Cleared
         ELSE /\ buffer' = SubSeq(d, n + 1, Len(d)) /\ firstPrev' = Hash(firstPrev, d, n)
              /\ lastHash' = lastHash \o b /\ all' = everything /\ commitments' = q
              /\ state' = state /\ last' = last
      /\ work' = work /\ seen' = seen
  BY Zenon DEF Redownload
<1>2. /\ firstPrev \in Chains /\ lastHash \in Chains /\ last \in Chains /\ seen \in Chains /\ work \in Nat
      /\ got \in Chains /\ released \in Seq(FullHeader) /\ redownloadWork \in Nat /\ Released(released, got)
      /\ Covered(released, got) /\ MemoryBounded /\ commitments \in Seq(Bits)
  BY Zenon DEF HeadersInv, Types
<1>3. seen = last /\ ChainWork(last) >= MinWork /\ ~all
  BY Zenon DEF HeadersInv, SecondPass
<1>4. seen' \in Chains /\ work' \in Nat
  BY <1>1, <1>2, Zenon
<1>5. CASE ~Accepted(b)
  <2>1. Cleared /\ released' = released /\ redownloadWork' = redownloadWork /\ got' = got /\ seen' = seen
    BY <1>1, <1>5, Zenon
  <2>2. Covered(released, got)'
    BY <1>2, <2>1, Zenon DEF Covered
  <2> QED BY <1>2, <1>4, <2>1, <2>2, FinalizedKeeps, Zenon
<1>6. CASE Accepted(b)
  <2>0. PICK c : c = lastHash \o b
    BY Zenon
  <2>1. /\ c \in Chains /\ d \in Chains /\ c = firstPrev \o d /\ Grown(c)
        /\ redownloadWork + ChainWork(b) = ChainWork(c)
    BY <1>6, <2>0, AcceptedChain, Zenon
  <2>2. /\ Len(d) \in Nat /\ n \in 0 .. Len(d)
        /\ everything => n = Len(d)
        /\ ~everything => /\ Len(d) - n <= BufferSize
                          /\ n # 0 \/ Len(released) # 0 => Len(d) - n = BufferSize
                          /\ Len(d) - n = 0 => Len(c) = 0
    <3>1. PICK size, k : size = Len(d) /\ k = n
      OBVIOUS
    <3>2. size = Len(buffer \o b) /\ k = Popped(size, everything)
      BY <3>1, Zenon
    <3> HIDE DEF d, n
    <3>3. /\ size \in Nat /\ k \in 0 .. size
          /\ everything => k = size
          /\ ~everything => /\ size - k <= BufferSize
                            /\ k # 0 \/ Len(released) # 0 => size - k = BufferSize
                            /\ size - k = 0 => Len(lastHash \o b) = 0
      BY <3>2, PoppedFacts, Zenon
    <3> QED BY <2>0, <3>1, <3>3, Zenon
  <2>3. r \in Seq(FullHeader) /\ Len(r) = Len(firstPrev) + n /\ Released(r, c)
    <3>1. n \in 0 .. Len(buffer \o b)
      BY <2>2, Zenon
    <3>2. PICK k : k = n
      OBVIOUS
    <3> HIDE DEF n
    <3> QED BY <1>6, <2>0, <3>1, ReleasedGoesOn, Zenon
  <2>4. released' = r /\ redownloadWork' = ChainWork(c) /\ got' = c /\ seen' = last
    BY <1>1, <1>3, <1>6, <2>0, <2>1, Zenon
  <2>5. ChainWork(c) \in Nat
    BY <2>1, WorkOfBoth, Zenon
  <2>6. everything => ChainWork(c) >= MinWork
    <3>1. ChainWork(b) = WorkUpTo(b, Len(b))
      BY Zenon DEF ChainWork
    <3>2. everything => redownloadWork + ChainWork(b) >= MinWork
      BY <1>3, <3>1, Zenon DEF Everything
    <3> QED BY <2>1, <3>2, Zenon
  <2>7. ~everything => /\ Agree(offset, c, last) /\ InStep(offset, q, last, Len(c), Len(last)) /\ q \in Seq(Bits)
                       /\ Len(q) <= Len(commitments)
    BY <1>6, <2>0, AcceptedAgrees, Zenon
  <2> HIDE DEF everything, d, n, r, q
  <2>8. Len(firstPrev) \in Nat /\ Len(c) = Len(firstPrev) + Len(d)
    <3>1. Len(firstPrev) \in Nat /\ Len(firstPrev \o d) = Len(firstPrev) + Len(d)
      BY <1>2, <2>1, BothFacts, Zenon
    <3> QED BY <2>1, <3>1, Zenon
  <2>9. ~everything /\ Len(r) # 0 => Len(c) = Len(r) + BufferSize
    <3>1. Len(released) = Len(firstPrev)
      BY Zenon DEF HeadersInv, SecondPass
    <3>2. PICK x, y, z : x = Len(firstPrev) /\ y = Len(d) /\ z = Len(r)
      BY Zenon
    <3> SUFFICES ASSUME ~everything, z # 0 PROVE x + y = z + BufferSize
      BY <2>8, <3>2, Zenon
    <3>3. x \in Nat /\ y \in Nat /\ n \in 0 .. y /\ z = x + n /\ (n # 0 \/ x # 0 => y - n = BufferSize)
      BY <2>2, <2>3, <2>8, <3>1, <3>2, Zenon
    <3>4. BufferSize \in Nat
      BY HeadersSyncAssumption
    <3> QED BY <3>3, <3>4
  <2>10. Covered(released, got)'
    <3>1. CASE everything
      BY <2>4, <2>6, <3>1, Zenon DEF Covered
    <3>2. CASE ~everything
      BY <1>3, <2>4, <2>7, <2>9, <3>2, Zenon DEF Covered
    <3> QED BY <3>1, <3>2, Zenon
  <2>11. Released(released', got') /\ released' \in Seq(FullHeader) /\ got' \in Chains /\ redownloadWork' \in Nat
    BY <2>1, <2>3, <2>4, <2>5, Zenon
  <2>12. CASE done \/ ~full
    <3>1. Cleared
      BY <1>1, <2>12, Zenon
    <3> QED BY <1>4, <2>10, <2>11, <3>1, FinalizedKeeps, Zenon
  <2>13. CASE ~(done \/ ~full)
    <3>1. ~everything
      BY <2>2, <2>13, Zenon
    <3>2. PICK x, y : x = SubSeq(d, n + 1, Len(d)) /\ y = Hash(firstPrev, d, n)
      BY Zenon
    <3>3. /\ buffer' = x /\ firstPrev' = y /\ lastHash' = c /\ ~all' /\ commitments' = q
          /\ state' = "REDOWNLOAD" /\ last' = last
      BY <1>1, <1>6, <2>0, <2>13, <3>1, <3>2, Zenon
    <3>4. x \in Chains /\ y \in Chains /\ Len(y) = Len(firstPrev) + n /\ Len(x) = Len(d) - n /\ y \o x = c
      <4>1. PICK k : k = n
        OBVIOUS
      <4>2. k \in 0 .. Len(d)
        BY <2>2, <4>1, Zenon
      <4>3. /\ Hash(firstPrev, d, k) \in Chains /\ SubSeq(d, k + 1, Len(d)) \in Chains
            /\ Len(Hash(firstPrev, d, k)) = Len(firstPrev) + k /\ Len(SubSeq(d, k + 1, Len(d))) = Len(d) - k
            /\ Hash(firstPrev, d, k) \o SubSeq(d, k + 1, Len(d)) = firstPrev \o d
        BY <1>2, <2>1, <4>2, MovedOn, Zenon
      <4> QED BY <2>1, <3>2, <4>1, <4>3, Zenon
    <3>5. Types'
      <4>1. state' \in {"PRESYNC", "REDOWNLOAD", "FINAL"}
        BY <3>3
      <4> QED BY <1>2, <1>4, <2>1, <2>7, <2>11, <3>1, <3>3, <3>4, <4>1, Zenon DEF Types, HeadersInv
    <3>6. PeerInTable'
      BY Zenon DEF PeerInTable, HeadersInv
    <3>7. FirstPass'
      <4>1. state' # "PRESYNC"
        BY <3>3
      <4> QED BY <4>1, Zenon DEF FirstPass
    <3>8. SecondPass'
      <4>1. seen' = last' /\ ChainWork(last') >= MinWork /\ got' = lastHash' /\ redownloadWork' = ChainWork(lastHash') /\ ~all'
        BY <1>3, <2>4, <3>3, Zenon
      <4>2. InStep(offset', commitments', last', Len(lastHash'), Len(last'))
        BY <2>7, <3>1, <3>3, Zenon
      <4>3. lastHash' = firstPrev' \o buffer' /\ Len(released') = Len(firstPrev')
        BY <2>3, <2>4, <3>3, <3>4, Zenon
      <4>4. Grown(lastHash') /\ Agree(offset', lastHash', last')
        BY <2>1, <2>7, <3>1, <3>3, Zenon
      <4>5. Len(buffer') = 0 => Len(lastHash') = 0
        BY <2>2, <3>1, <3>3, <3>4, Zenon
      <4>6. Len(released') # 0 => Len(buffer') = BufferSize
        <5>1. Len(r) = Len(y)
          BY <2>3, <3>4, Zenon
        <5>2. PICK i, j, k, m : i = Len(c) /\ j = Len(y) /\ k = Len(x) /\ m = Len(r)
          BY Zenon
        <5>3. i = j + k /\ j \in Nat /\ k \in Nat /\ m = j
          <6>1. Len(y \o x) = Len(y) + Len(x) /\ Len(y) \in Nat /\ Len(x) \in Nat
            BY <3>4, BothFacts, Zenon
          <6> QED BY <3>4, <5>1, <5>2, <6>1, Zenon
        <5>4. m # 0 => i = m + BufferSize
          BY <2>9, <3>1, <5>2, Zenon
        <5>5. m # 0 => k = BufferSize
          BY <5>3, <5>4, HeadersSyncAssumption
        <5> QED BY <2>4, <3>3, <5>2, <5>5, Zenon
      <4> QED BY <4>1, <4>2, <4>3, <4>4, <4>5, <4>6, Zenon DEF SecondPass
    <3>9. MemoryBounded'
      <4>1. Len(buffer') <= BufferSize
        BY <2>2, <3>1, <3>3, <3>4, Zenon
      <4>2. MaxCommitments \in Int
        <5>1. BlocksPerSecond * MaxSeconds \in Nat
          BY HeadersSyncAssumption
        <5> QED BY <5>1, HeadersSyncAssumption DEF MaxCommitments
      <4>3. Len(q) \in Nat /\ Len(commitments) \in Nat /\ Len(q) <= Len(commitments) /\ Len(commitments) <= MaxCommitments
        BY <1>2, <2>7, <3>1, LenProperties, Zenon DEF MemoryBounded
      <4>4. Len(q) <= MaxCommitments
        BY <4>2, <4>3
      <4> QED BY <3>3, <4>1, <4>4, Zenon DEF MemoryBounded
    <3>10. Released(released, got)'
      BY <2>11, Zenon DEF Released
    <3> QED BY <2>10, <3>5, <3>6, <3>7, <3>8, <3>9, <3>10, Zenon DEF HeadersInv
  <2> QED BY <2>12, <2>13, Zenon
<1> QED BY <1>5, <1>6, Zenon

\* ProcessNextHeaders in either pass
LEMMA MessageKeeps == HeadersInv /\ ProcessNextHeaders => HeadersInv'
<1> SUFFICES ASSUME HeadersInv, ProcessNextHeaders PROVE HeadersInv'
  OBVIOUS
<1>1. /\ state # "FINAL" /\ UNCHANGED <<peer, reorgs, offset>>
      /\ IF state = "PRESYNC" THEN Presync(Batch, Full) ELSE Redownload(Batch, Full)
  BY Zenon DEF ProcessNextHeaders
<1>2. UNCHANGED peer /\ UNCHANGED offset
  BY <1>1
<1>3. Batch \in Chains
  BY BatchIsChain, Zenon DEF HeadersInv, Types
<1>4. state = "PRESYNC" \/ state = "REDOWNLOAD"
  BY <1>1, Zenon DEF HeadersInv, Types
<1>5. CASE state = "PRESYNC"
  BY <1>1, <1>2, <1>3, <1>5, PresyncKeeps, Zenon
<1>6. CASE state = "REDOWNLOAD"
  <2>1. state # "PRESYNC"
    BY <1>6
  <2> QED BY <1>1, <1>2, <1>3, <1>6, <2>1, RedownloadKeeps, Zenon
<1> QED BY <1>4, <1>5, <1>6, Zenon

\* A step in which nothing happens
LEMMA StutterKeeps == HeadersInv /\ UNCHANGED vars => HeadersInv'
<1> SUFFICES ASSUME HeadersInv, UNCHANGED vars PROVE HeadersInv'
  OBVIOUS
<1>1. /\ UNCHANGED <<peer, state, offset, last, work, commitments, buffer, firstPrev>>
      /\ UNCHANGED <<lastHash, redownloadWork, all, released, seen, got>>
  BY DEF vars, node
<1>2. (Types /\ PeerInTable)'
  BY <1>1, Zenon DEF HeadersInv, Types, PeerInTable
<1>3. FirstPass'
  BY <1>1, Zenon DEF HeadersInv, FirstPass
<1>4. SecondPass'
  BY <1>1, Zenon DEF HeadersInv, SecondPass
<1>5. (Released(released, got) /\ Covered(released, got) /\ MemoryBounded)'
  BY <1>1, Zenon DEF HeadersInv, Released, Covered, MemoryBounded
<1> QED BY <1>2, <1>3, <1>4, <1>5, Zenon DEF HeadersInv

-----------------------------------------------------------------------------
(* The theorems *)

\* Throughout a sync with any peer the queue of bits is in step with the two passes, the buffer has
\* the headers received and not yet released, and what was released is the beginning of the chain of
\* the second pass and is covered.
THEOREM HeadersInvariant == Spec => []HeadersInv
<1>1. HeadersInv /\ [Next]_vars => HeadersInv'
  <2>1. HeadersInv /\ Next => HeadersInv'
    BY PeerMinesKeeps, PeerReorgsKeeps, MessageKeeps, EmptyHeadersKeeps, Zenon DEF Next
  <2> QED BY <2>1, StutterKeeps, Zenon
<1> QED BY <1>1, InitHolds, PTL DEF Spec

\* The headers that ProcessNextHeaders returns, over all messages, are one chain from the start of the
\* sync with the previous hashes that the buffer had dropped, and each has exactly the difficulty that
\* its parent asks for, for every size of the buffer and of a message and every peer.
THEOREM ReleasedAlwaysChain == Spec => []ReleasedIsChain
<1>1. HeadersInv => ReleasedIsChain
  <2> SUFFICES ASSUME HeadersInv, NEW i \in 1 .. Len(released)
               PROVE  /\ released[i].prev = [j \in 1 .. i - 1 |-> released[j].header]
                      /\ released[i].header.bits = Required(released[i].prev)
    BY Zenon DEF ReleasedIsChain
  <2>1. got \in Chains /\ released \in Seq(FullHeader) /\ Released(released, got)
    BY Zenon DEF HeadersInv, Types
  <2>2. Len(got) \in Nat /\ Len(released) \in Nat /\ Len(released) <= Len(got)
    BY <2>1, LenProperties, Zenon DEF Chains, Released
  <2>3. i - 1 \in 0 .. Len(got) /\ i - 1 \in Nat /\ \A j \in 1 .. i - 1 : j \in 1 .. Len(released) /\ j \in 1 .. Len(got)
    BY <2>2
  <2>4. PICK p : p = SubSeq(got, 1, i - 1)
    BY Zenon
  <2>5. p \in Chains /\ Len(p) = i - 1 /\ \A j \in 1 .. i - 1 : p[j] = got[j]
    BY <2>1, <2>3, <2>4, PrefixFacts, Zenon
  <2>6. \A j \in 1 .. Len(released) : released[j] = [prev |-> SubSeq(got, 1, j - 1), header |-> got[j]]
    BY <2>1, Zenon DEF Released
  <2>7. \A j \in 1 .. Len(released) : released[j].header = got[j] /\ released[j].prev = SubSeq(got, 1, j - 1)
    <3> SUFFICES ASSUME NEW j \in 1 .. Len(released)
                 PROVE  released[j].header = got[j] /\ released[j].prev = SubSeq(got, 1, j - 1)
      OBVIOUS
    <3>1. PICK x, y, z : x = released[j] /\ y = SubSeq(got, 1, j - 1) /\ z = got[j]
      BY Zenon
    <3>2. x = [prev |-> y, header |-> z]
      BY <2>6, <3>1, Zenon
    <3>3. x.header = z /\ x.prev = y
      BY <3>2
    <3> QED BY <3>1, <3>3, Zenon
  <2>8. PICK f : f = [j \in 1 .. i - 1 |-> released[j].header]
    BY Zenon
  <2>9. DOMAIN f = 1 .. i - 1 /\ \A j \in 1 .. i - 1 : f[j] = p[j]
    BY <2>3, <2>5, <2>7, <2>8, Zenon
  <2>10. DOMAIN p = 1 .. i - 1
    BY <2>5, ChainFacts, Zenon
  <2>11. p = [j \in DOMAIN p |-> p[j]]
    BY <2>5 DEF Chains
  <2>12. f = p
    BY <2>8, <2>9, <2>10, <2>11, Zenon
  <2>13. got[i].bits = Required(p)
    BY <2>1, <2>4, Zenon DEF Released
  <2> QED BY <2>4, <2>7, <2>8, <2>12, <2>13, Zenon
<1> QED BY <1>1, HeadersInvariant, PTL

\* A header is released only when the second pass has shown the required work, or when BufferSize more
\* headers were received and every committed height up to the last of them has the bit of the first pass,
\* for every period and offset of the commitments.
THEOREM ReleasedAlwaysCovered == Spec => []ReleasedIsCovered
<1>1. HeadersInv => ReleasedIsCovered
  <2> SUFFICES ASSUME HeadersInv, released # <<>>, ChainWork(got) < MinWork
               PROVE  /\ Len(got) >= Len(released) + BufferSize
                      /\ ChainWork(seen) >= MinWork
                      /\ \A n \in 1 .. Len(released) + BufferSize :
                           Committed(SubSeq(got, 1, n)) =>
                             n <= Len(seen) /\ SaltedBit(SubSeq(got, 1, n)) = SaltedBit(SubSeq(seen, 1, n))
    BY Zenon DEF ReleasedIsCovered
  <2>1. got \in Chains /\ released \in Seq(FullHeader) /\ Covered(released, got)
    BY Zenon DEF HeadersInv, Types
  <2>2. Len(released) \in Nat /\ Len(released) # 0 /\ Len(got) \in Nat /\ BufferSize \in Nat
    <3>1. Len(released) # 0
      BY <2>1, EmptySeq, Zenon
    <3>2. Len(released) \in Nat /\ Len(got) \in Nat
      BY <2>1, LenProperties, Zenon DEF Chains
    <3> QED BY <3>1, <3>2, HeadersSyncAssumption
  <2>3. ~(ChainWork(got) >= MinWork)
    <3>1. ChainWork(got) \in Nat /\ MinWork \in Nat
      <4>1. Len(got) \in 0 .. Len(got)
        BY <2>2
      <4>2. WorkUpTo(got, Len(got)) \in Nat
        BY <2>1, <4>1, WorkAdds, Zenon
      <4> QED BY <4>2, HeadersSyncAssumption, Zenon DEF ChainWork
    <3> QED BY <3>1
  <2>4. Len(got) = Len(released) + BufferSize /\ ChainWork(seen) >= MinWork /\ Agree(offset, got, seen)
    BY <2>1, <2>2, <2>3, Zenon DEF Covered
  <2>5. ASSUME NEW n \in 1 .. Len(released) + BufferSize, Committed(SubSeq(got, 1, n))
        PROVE  n <= Len(seen) /\ SaltedBit(SubSeq(got, 1, n)) = SaltedBit(SubSeq(seen, 1, n))
    <3>1. n \in 0 .. Len(got) /\ n \in 1 .. Len(got)
      BY <2>2, <2>4
    <3>2. Len(SubSeq(got, 1, n)) = n
      BY <2>1, <3>1, PrefixFacts, Zenon
    <3>3. Marked(offset, n)
      BY <2>5, <3>2, Zenon DEF Committed, Marked
    <3> QED BY <2>4, <3>1, <3>3, Zenon DEF Agree
  <2>6. Len(got) >= Len(released) + BufferSize
    BY <2>2, <2>4
  <2> QED BY <2>4, <2>5, <2>6, Zenon
<1> QED BY <1>1, HeadersInvariant, PTL

\* Between messages a sync stores at most m_max_commitments bits and BufferSize headers, whatever the
\* peer sends.
THEOREM MemoryAlwaysBounded == Spec => []MemoryBounded
<1>1. HeadersInv => MemoryBounded
  BY Zenon DEF HeadersInv
<1> QED BY <1>1, HeadersInvariant, PTL
=============================================================================
