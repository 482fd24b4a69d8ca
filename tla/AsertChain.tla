----------------------------- MODULE AsertChain -----------------------------
(***************************************************************************)
(* A chain under the difficulty rule: every block may have any timestamp   *)
(* of a range, also one before its parent's, as the median-time rule       *)
(* allows.                                                                 *)
(***************************************************************************)
EXTENDS Asert

CONSTANTS
  MaxHeight,  \* bound: the longest chain
  Times       \* bound: the timestamps

VARIABLES height, time   \* of the tip

vars == <<height, time>>

Init == height = 0 /\ time = 0

NextBlock(t) ==
  /\ height < MaxHeight
  /\ height' = height + 1
  /\ time' = t

Next == \E t \in Times : NextBlock(t)

Spec == Init /\ [][Next]_vars

-----------------------------------------------------------------------------
(* Properties *)

Target == ASERTTarget(height, time)

\* The nBits that the rule asks for are nBits that CheckProofOfWork accepts, and the target
\* they stand for is the computed one rounded down to the digits the compact form keeps:
\* rounding never makes a block easier, never leaves the range 1 .. powLimit, and loses less
\* than one part in Digits(2) / 2.
BitsLegal ==
  LET bits == GetCompact(Target)
      rounded == SetCompact(bits)
  IN /\ Derivable(bits)
     /\ rounded <= Target
     /\ (Target - rounded) * (Digits(2) \div 2) < Target

\* A block that is later than the spacing never makes the next one harder, one that is
\* earlier never makes it easier: truncation, the approximation of 2^x, the shifts and the
\* limits keep the order, although the target is computed from the anchor.
LateNeverHarder ==
  [][ /\ time' - time >= Spacing => ASERTTarget(height', time') >= ASERTTarget(height, time)
      /\ time' - time <= Spacing => ASERTTarget(height', time') <= ASERTTarget(height, time) ]_vars

\* One half life later the target is twice as high, up to the rounding of the division and
\* the limits, and a chain on schedule has the anchor's target.
DoublesPerHalfLife ==
  LET off == time - Spacing * height
      later == ASERTTarget(height, time + HalfLife)
  IN /\ off = 0 => Target = SetCompact(AnchorBits)
     /\ off >= 0 \/ off <= -HalfLife =>
          \/ later \in {Clamp(2 * Target), Clamp(2 * Target + 1)}
          \/ Target = 1 /\ later = 1
=============================================================================
