--------------------------- MODULE MCOptionChains ---------------------------
(***************************************************************************)
(* Constants for TLC: every pair of arrays of up to three entries.         *)
(***************************************************************************)
EXTENDS OptionChains

MCStrikes == {2, 3}
MCTerms == {0, 20, 40}
=============================================================================
