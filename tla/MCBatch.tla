------------------------------ MODULE MCBatch ------------------------------
(***************************************************************************)
(* Constants for TLC: three dates, the second refused; the raw data of the *)
(* last are in a directory.  Four script runs, two starts of main().       *)
(***************************************************************************)
EXTENDS Batch

ThreeDates == 1..3
AllRaw == 1..3
LastNested == {3}
NoneOf == 0
SecondRefused == {2}
=============================================================================
