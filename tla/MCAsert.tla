------------------------------ MODULE MCAsert -------------------------------
(***************************************************************************)
(* Fourteen-bit numbers, four fractional bits and digits of two bits; the  *)
(* coefficients are the code's, scaled.  The anchor is below the limit, so *)
(* that the target of a late chain can rise.                               *)
(***************************************************************************)
EXTENDS AsertChain

CubicCoefficients == <<2849, 58, 1>>
TimeRange == -52 .. 68
AnchorTarget60 == [size |-> 4, word |-> 15]
=============================================================================
