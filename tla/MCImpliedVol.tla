---------------------------- MODULE MCImpliedVol ----------------------------
(***************************************************************************)
(* Constants for TLC: all 957 bars of two days; 16 cells, of which the     *)
(* first three lie below 100 percent.                                      *)
(***************************************************************************)
EXTENDS ImpliedVol

MCTop == 16
AllThresholds == 0..(MCTop + 1)
\* Quotes that imply a volatility of at most 100 percent.
ModestThresholds == 0..3

\* The last two days of an option.
LastTwoDays == {<<1, 0>>}

\* Besides: two dates with one missing between them, and two dates the second of
\* which knows one closed day, or two, fewer than the first.
ListedCounts == LastTwoDays \union {<<2, 0>>, <<1, 1>>, <<1, 2>>}
=============================================================================
