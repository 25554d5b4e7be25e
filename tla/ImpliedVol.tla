----------------------------- MODULE ImpliedVol -----------------------------
(***************************************************************************)
(* The implied volatility of one option, bar after bar over days that main *)
(* runs: option_iv_calc and the assertions of calc_and_save (process.cpp)  *)
(* around the bisection of implied_volatility_calc (iv.h).                 *)
(*                                                                         *)
(* Every day reads the trading days to expiry afresh from its own listing, *)
(* where each was counted with the holidays known on that date, and the    *)
(* list of dates has gaps: nothing ties a day's count to the last one's.   *)
(*                                                                         *)
(* The interval [0, 5.0] is cut into Top equal cells, low and high are     *)
(* cell borders.  The code's loop ends at a width of 1.0e-8, that is one   *)
(* cell for Top = 2^29.  above[v] answers black_scholes_calc(v) > target.  *)
(* The Black-Scholes price does not fall as the volatility rises, so above *)
(* has a threshold; with no time left it is the intrinsic value (or NaN)   *)
(* at every volatility, and above is constant.                             *)
(***************************************************************************)
EXTENDS TradingClock, Sequences

CONSTANTS
  Top,          \* the number of cells, a power of two
  Thresholds,   \* the thresholds of above while the option has time left
  Counts        \* what expiredate_t may be on the days run, in their order

VARIABLES
  counts,            \* expiredate_t of the option in the listing of each day
  bar, day,          \* where the bar loop of which day stands
  status,            \* "bar", "search", "found" or "aborted"
  low, high,         \* the bracket of the bisection
  above              \* the answers of this bar's price function

clockVars == <<bar, day>>
searchVars == <<low, high, above>>
vars == <<counts, clockVars, status, searchVars>>

Vols == 0..Top

ASSUME TopAssumption == Top \in Nat \ {0}
ASSUME ThresholdAssumption == Thresholds \subseteq Nat
ASSUME CountsAssumption == \A c \in Counts : c \in Seq(Nat) /\ c # <<>>
-----------------------------------------------------------------------------
\* What the parser reads for the day being computed.
expire_date == counts[day]

Answer(threshold) == [v \in Vols |-> v >= threshold]

\* bs > target as the price, the target and the maturity of a bar decide it.
Answers(maturity) ==
  IF maturity > 0 THEN {Answer(t) : t \in Thresholds}
  ELSE {[v \in Vols |-> TRUE], [v \in Vols |-> FALSE]}

Init ==
  /\ counts \in Counts
  /\ bar = 1 /\ day = 1
  /\ status = "bar"
  /\ low = 0 /\ high = Top
  /\ above = [v \in Vols |-> FALSE]

\* option_iv_calc calls implied_volatility_calc for the bar.
BeginSearch ==
  /\ status = "bar"
  /\ above' \in Answers(Maturity(bar, expire_date))
  /\ low' = 0 /\ high' = Top
  /\ status' = "search"
  /\ UNCHANGED <<counts, clockVars>>

\* Mutated forms of Bisect: the loop goes on at a width of one cell, and the
\* two branches are exchanged.
BisectTooLong ==
  /\ status = "search"
  /\ high - low > 0
  /\ LET vol == (high + low) \div 2
     IN  IF above[vol] THEN high' = vol /\ low' = low
         ELSE low' = vol /\ high' = high
  /\ UNCHANGED <<counts, clockVars, status, above>>

BisectExchanged ==
  /\ status = "search"
  /\ high - low > 1
  /\ LET vol == (high + low) \div 2
     IN  IF above[vol] THEN low' = vol /\ high' = high
         ELSE high' = vol /\ low' = low
  /\ UNCHANGED <<counts, clockVars, status, above>>

\* One turn of the while loop.
Bisect ==
  /\ status = "search"
  /\ high - low > 1
  /\ LET vol == (high + low) \div 2
     IN  IF above[vol] THEN high' = vol /\ low' = low
         ELSE low' = vol /\ high' = high
  /\ UNCHANGED <<counts, clockVars, status, above>>

\* Mutated form of AtMostHundred: low + high is taken for the volatility.
SumAtMostHundred == 5 * (low + high) <= Top

\* iv = m_round(iv * 100) is 500 * (low + high) / (2 * Top) percent.
AtMostHundred == 5 * (low + high) <= 2 * Top

\* Mutated form of EndSearch: it waits for an empty interval.
EndSearchEmpty ==
  /\ status = "search"
  /\ high - low < 1
  /\ status' = IF AtMostHundred THEN "found" ELSE "aborted"
  /\ UNCHANGED <<counts, clockVars, searchVars>>

\* The loop has ended and assert(iv <= 100.0) is evaluated.
EndSearch ==
  /\ status = "search"
  /\ high - low <= 1
  /\ status' = IF AtMostHundred THEN "found" ELSE "aborted"
  /\ UNCHANGED <<counts, clockVars, searchVars>>

NextBar ==
  /\ status = "found"
  /\ bar < LastBar
  /\ bar' = bar + 1
  /\ status' = "bar"
  /\ UNCHANGED <<counts, day, searchVars>>

\* The loop of main() makes a Process for the next date of its list.
NextDay ==
  /\ status = "found"
  /\ bar = LastBar /\ day < Len(counts)
  /\ bar' = 1
  /\ day' = day + 1
  /\ status' = "bar"
  /\ UNCHANGED <<counts, searchVars>>

Next == BeginSearch \/ Bisect \/ EndSearch \/ NextBar \/ NextDay

\* A single thread computes; nothing can stop it between two steps for ever.
Spec == Init /\ [][Next]_vars /\ WF_vars(Next)
-----------------------------------------------------------------------------
\* The variables have the types of their C++ counterparts and the bracket is
\* an interval of at least one cell inside [0, Top].
TypeOK ==
  /\ counts \in Counts
  /\ bar \in DayBars /\ day \in DOMAIN counts
  /\ status \in {"bar", "search", "found", "aborted"}
  /\ low \in Vols /\ high \in Vols /\ low < high
  /\ above \in [Vols -> BOOLEAN]

\* The bisection never lets the answer out of its bracket: up to low the
\* model price is not above the quoted one, from high on it is, except that a
\* bound still at an end of the interval says nothing (iv.h:89-97).
Bracket ==
  status # "bar" =>
    /\ \A v \in Vols : 0 < v /\ v <= low => ~above[v]
    /\ \A v \in Vols : high <= v /\ v < Top => above[v]

\* Time runs down from a bar to the next, over the noon break too.  Over night
\* it does exactly when the next listing counts fewer days: the fraction of the
\* day never makes up for a count that stays, nor undoes one that falls
\* (process.cpp:63, 228-231, 241-242; iv.h:220-243).
MaturityDecreases ==
  [][clockVars' # clockVars =>
       (Maturity(bar', expire_date') < Maturity(bar, expire_date)
          <=> day' = day \/ expire_date' < expire_date)]_vars

\* Time is left at every bar but the last one of a day counted as the expiry day.
TimeLeft ==
  /\ Maturity(bar, expire_date) >= 0
  /\ Maturity(bar, expire_date) = 0 <=> bar = LastBar /\ expire_date = 0

\* The assertion ends the program only when the option has no time left or
\* its quote really implies more than 100 percent: at every volatility of up
\* to 100 percent the model price is not above the quoted one
\* (process.cpp:282-283).
AbortJustified ==
  status = "aborted" =>
    \/ Maturity(bar, expire_date) = 0
    \/ \A v \in Vols : 0 < v /\ 5 * v <= Top => ~above[v]

\* Every search that begins ends.
SearchEnds == status = "search" ~> status \in {"found", "aborted"}

\* assert(call_iv <= 100.0); assert(put_iv <= 100.0); (process.cpp:282-283).
AssertionHolds == status # "aborted"
=============================================================================
