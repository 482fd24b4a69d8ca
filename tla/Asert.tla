------------------------------- MODULE Asert --------------------------------
(***************************************************************************)
(* The difficulty rule (pow.cpp) and the arithmetic it is made of          *)
(* (arith_uint256.cpp, GetBitsProof in chain.cpp).  The numbers are        *)
(* parameters: the code has Width 256, FracBits 16, ByteBits 8 and a half  *)
(* life of twelve hours.  The anchor is the genesis block, at height and   *)
(* time 0.  Regtest, where the difficulty never moves, is left out.        *)
(***************************************************************************)
EXTENDS Integers, FiniteSetsExt

CONSTANTS
  Width,         \* bits of an arith_uint256
  FracBits,      \* fractional bits of the exponent
  ByteBits,      \* bits of a digit of the compact form
  PowLimit,
  AnchorBits,    \* asert_anchor.nBits, a compact number
  Spacing,       \* nPowTargetSpacing
  HalfLife,      \* nASERTHalfLife
  Cubic          \* <<c1, c2, c3>>: the coefficients of the approximation of 2^x - 1

One == 2 ^ FracBits

-----------------------------------------------------------------------------
(* Compact numbers: size digits, the first three of them in word, whose top bit is a sign *)

BitLength(x) == IF x = 0 THEN 0 ELSE 1 + Max({n \in 0 .. Width - 1 : 2 ^ n <= x})

Digits(n) == 2 ^ (ByteBits * n)

GetCompact(x) ==
  LET size == (BitLength(x) + ByteBits - 1) \div ByteBits
      word == IF size <= 3 THEN x * Digits(3 - size) ELSE x \div Digits(size - 3)
  IN IF word >= Digits(3) \div 2
     THEN [size |-> size + 1, word |-> word \div Digits(1)]
     ELSE [size |-> size, word |-> word]

SetCompact(c) ==
  IF c.size <= 3 THEN c.word \div Digits(3 - c.size)
  ELSE (c.word * Digits(c.size - 3)) % 2 ^ Width

CompactOverflow(c) ==
  LET whole == Width \div ByteBits
  IN c.word # 0 /\ \/ c.size > whole + 2
                   \/ c.word >= Digits(1) /\ c.size > whole + 1
                   \/ c.word >= Digits(2) /\ c.size > whole

\* DeriveTarget returns a target; the numbers here have no sign.
Derivable(c) == ~CompactOverflow(c) /\ SetCompact(c) \in 1 .. PowLimit

\* 2^Width / (target + 1) without the bit that does not fit
GetBitsProof(c) ==
  LET target == SetCompact(c)
  IN IF CompactOverflow(c) \/ target = 0 THEN 0
     ELSE (2 ^ Width - 1 - target) \div (target + 1) + 1

-----------------------------------------------------------------------------
(* ASERTTarget *)

\* Division as in C++, towards zero
Quotient(a, b) == IF a >= 0 THEN a \div b ELSE -((-a) \div b)

\* Mutant: the block's own height instead of its parent's.
ExponentOfChild(height, time) == Quotient((time - Spacing * (height + 1)) * One, HalfLife)

\* How far a chain is off its schedule, in half lives; height and time are the parent's.
Exponent(height, time) == Quotient((time - Spacing * height) * One, HalfLife)

\* exponent >> 16: \div rounds down.
Shifts(exponent) == exponent \div One

\* 2^(frac / One), with FracBits fractional bits
Factor(frac) ==
  One + (Cubic[1] * frac + Cubic[2] * frac * frac + Cubic[3] * frac * frac * frac + One ^ 3 \div 2) \div One ^ 3

ShiftLeft(x, n) == (x * 2 ^ n) % 2 ^ Width

\* Mutant: the target of a chain that is far ahead of schedule may be zero.
ClampAbove(x) == IF x > PowLimit THEN PowLimit ELSE x

Clamp(x) == IF x = 0 THEN 1 ELSE IF x > PowLimit THEN PowLimit ELSE x

\* Mutant: bits that are shifted out are not missed.
LateWrapped(next, shifts) ==
  IF shifts >= Width THEN PowLimit ELSE Clamp(ShiftLeft(next, shifts) \div One)

\* A chain behind its schedule: the target is doubled, as far as the width allows.
Late(next, shifts) ==
  IF shifts >= Width \/ ShiftLeft(next, shifts) \div 2 ^ shifts # next THEN PowLimit
  ELSE Clamp(ShiftLeft(next, shifts) \div One)

Early(next, shifts) ==
  IF shifts >= Width THEN 1 ELSE Clamp((next \div 2 ^ shifts) \div One)

ASERTTarget(height, time) ==
  LET exponent == Exponent(height, time)
      shifts == Shifts(exponent)
      frac == exponent - shifts * One
      next == (SetCompact(AnchorBits) * Factor(frac)) % 2 ^ Width
  IN IF shifts <= 0 THEN Early(next, -shifts) ELSE Late(next, shifts)

\* GetNextWorkRequired, and the one value that PermittedDifficultyTransition permits
GetNextWorkRequired(height, time) == GetCompact(ASERTTarget(height, time))
=============================================================================
