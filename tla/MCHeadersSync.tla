--------------------------- MODULE MCHeadersSync ----------------------------
(***************************************************************************)
(* The small numbers of MCAsert, with the anchor at the limit as on the    *)
(* real networks.  Five late blocks have the required work, or fewer early *)
(* ones.  The salted bit is a parity that forks often share.               *)
(***************************************************************************)
EXTENDS HeadersSync

CubicCoefficients == <<2849, 58, 1>>
LimitBits == [size |-> 4, word |-> 15]
EasyBits == {LimitBits}
Parity(hash) == (TimeOf(hash) \div 3 + Len(hash) \div 2) % 2
=============================================================================
