------------------------------ MODULE DayStore ------------------------------
(***************************************************************************)
(* What the processing of one trading day promises about the database:     *)
(* the day is either turned down without a trace, or its table is made to  *)
(* exist and the rows of the whole day appear in one step.  A failure at   *)
(* any point leaves no row or, when only the answer to the INSERT was      *)
(* lost, all of them; likewise for the table.                              *)
(***************************************************************************)
VARIABLES
  outcome,  \* how far the day has got
  table,    \* whether the table iv_<year>.<date> exists
  rows      \* which of the day's rows this run has put into it

storeVars == <<outcome, table, rows>>

Init == outcome = "deciding" /\ table \in BOOLEAN /\ rows = "none"

\* The day's listing is unusable.
Skip ==
  /\ outcome = "deciding"
  /\ outcome' = "skipped"
  /\ UNCHANGED <<table, rows>>

\* The day is accepted; its table exists from here on.
Accept ==
  /\ outcome = "deciding"
  /\ outcome' = "working"
  /\ table' = TRUE
  /\ UNCHANGED rows

\* The only step that stores rows and reports success.
Save ==
  /\ outcome = "working"
  /\ outcome' = "saved"
  /\ rows' = "all"
  /\ UNCHANGED table

\* The program ends early.
Fail ==
  /\ outcome \in {"deciding", "working"}
  /\ outcome' = "failed"
  /\ rows' = "none" \/ (outcome = "working" /\ rows' = "all")
  /\ table' = table \/ (outcome = "deciding" /\ table' = TRUE)

Next == Skip \/ Accept \/ Save \/ Fail

Spec == Init /\ [][Next]_storeVars
=============================================================================
