--------------------------- MODULE MCExpiryCount ---------------------------
(***************************************************************************)
(* Constants for TLC: a Thursday, a Friday, a Saturday and a Monday; the   *)
(* contracts end on the first Friday, on the Tuesday after and a day that  *)
(* is past all dates; up to three closed days.                             *)
(***************************************************************************)
EXTENDS ExpiryCount

FourDates == {4, 5, 6, 8}
LastTradeDates == {5, 9, 12}
ClosedDays == {{}, {5}, {8, 9}, {5, 8, 11}}
=============================================================================
