---------------------------- MODULE ExpiryCount ----------------------------
(***************************************************************************)
(* scripts/cp_p.py: the trading days from every date of the listing to the *)
(* last trade date of every contract, the expiredate_t that the parser of  *)
(* the option chains and the clock compute with.  The closed days come     *)
(* from get_holiday (scripts/holiday.py), which asks a calendar service    *)
(* about a date and again every Stride days, up to Year days ahead; an     *)
(* answer without data ends the loop with the days found so far, any other *)
(* error ends the script before anything is written.                       *)
(*                                                                         *)
(* Days are numbered from a Monday, day 1.  An answer names closed days    *)
(* only, but nothing in the code says which.  A contract is its last trade *)
(* date.                                                                   *)
(***************************************************************************)
EXTENDS Naturals, FiniteSets

CONSTANTS
  Listed,      \* the dates of the listing
  LastTrades,  \* the last trade dates of their contracts
  Closures,    \* the possible sets of closed days
  Stride, Year

VARIABLES
  closed,       \* the closed days, weekends apart
  phase,
  dates,        \* the dates still to do
  date,         \* the date worked on
  start_date,   \* the loop variable of get_holiday
  holidays,     \* what get_holiday has found
  contracts,    \* the contracts of date still to do
  last_trade_date, start_dt, expire_date,  \* the counting loop
  result        \* the items counted, with the holidays used

countVars == <<last_trade_date, start_dt, expire_date>>
vars == <<closed, phase, dates, date, start_date, holidays, contracts,
          countVars, result>>

ASSUME CalendarAssumption ==
  /\ Listed \subseteq Nat \ {0} /\ LastTrades \subseteq Nat
  /\ \A days \in Closures : days \subseteq Nat
  /\ Stride \in Nat \ {0} /\ Year \in Nat

\* The strptime formats and the fields copied from the listing are data.
Item(d, l, n, used) ==
  [date |-> d, last_trade_date |-> l, expiredate_t |-> n, holidays |-> used]

Weekend(d) == d % 7 \in {6, 0}

Init ==
  /\ closed \in Closures
  /\ phase = "date"
  /\ dates = Listed /\ date = 0 /\ start_date = 0 /\ holidays = {}
  /\ contracts = {} /\ last_trade_date = 0 /\ start_dt = 0 /\ expire_date = 0
  /\ result = {}

NextDate(d) ==
  /\ phase = "date" /\ d \in dates
  /\ dates' = dates \ {d}
  /\ date' = d /\ start_date' = d /\ holidays' = {}
  /\ phase' = IF Weekend(d) THEN "date" ELSE "ask"
  /\ UNCHANGED <<closed, contracts, countVars, result>>

\* One answer of the service.
Ask ==
  /\ phase = "ask" /\ start_date <= date + Year
  /\ \E days \in SUBSET closed : holidays' = holidays \union days
  /\ start_date' = start_date + Stride
  /\ UNCHANGED <<closed, phase, dates, date, contracts, countVars, result>>

\* Mutated form of Answered: the date itself is not looked up.
AnsweredUnused ==
  /\ phase = "ask"
  /\ phase' = "contract"
  /\ contracts' = LastTrades
  /\ UNCHANGED <<closed, dates, date, start_date, holidays, countVars, result>>

\* get_holiday returns, after its last question or at an answer without data;
\* a date it names is left out.
Answered ==
  /\ phase = "ask"
  /\ phase' = IF date \in holidays THEN "date" ELSE "contract"
  /\ contracts' = IF date \in holidays THEN {} ELSE LastTrades
  /\ UNCHANGED <<closed, dates, date, start_date, holidays, countVars, result>>

\* Mutated form of NextContract: the count of the contract before goes on.
NextContractKeeping(l) ==
  /\ phase = "contract" /\ l \in contracts
  /\ phase' = "count"
  /\ contracts' = contracts \ {l}
  /\ last_trade_date' = l /\ start_dt' = date
  /\ UNCHANGED <<closed, dates, date, start_date, holidays, expire_date, result>>

NextContract(l) ==
  /\ phase = "contract" /\ l \in contracts
  /\ phase' = "count"
  /\ contracts' = contracts \ {l}
  /\ last_trade_date' = l /\ start_dt' = date /\ expire_date' = 0
  /\ UNCHANGED <<closed, dates, date, start_date, holidays, result>>

\* Mutated form of Counts: a closed day is counted.
CountsWeekdays(d) == ~Weekend(d)

Counts(d) == ~Weekend(d) /\ d \notin holidays

\* One turn of the counting loop.
CountDay ==
  /\ phase = "count" /\ start_dt < last_trade_date
  /\ expire_date' = IF Counts(start_dt) THEN expire_date + 1 ELSE expire_date
  /\ start_dt' = start_dt + 1
  /\ UNCHANGED <<closed, phase, dates, date, start_date, holidays, contracts,
                 last_trade_date, result>>

\* The loop is over.
AddItem ==
  /\ phase = "count" /\ start_dt >= last_trade_date
  /\ result' = result \union {Item(date, last_trade_date, expire_date, holidays)}
  /\ phase' = "contract"
  /\ UNCHANGED <<closed, dates, date, start_date, holidays, contracts, countVars>>

DateDone ==
  /\ phase = "contract" /\ contracts = {}
  /\ phase' = "date"
  /\ UNCHANGED <<closed, dates, date, start_date, holidays, contracts, countVars, result>>

\* The file is written once every date is done.
Write ==
  /\ phase = "date" /\ dates = {}
  /\ phase' = "written"
  /\ UNCHANGED <<closed, dates, date, start_date, holidays, contracts, countVars, result>>

\* No answer at all, or one of another shape.
Crash ==
  /\ phase = "ask" /\ start_date <= date + Year
  /\ phase' = "crashed"
  /\ UNCHANGED <<closed, dates, date, start_date, holidays, contracts, countVars, result>>

Next ==
  \/ \E d \in dates : NextDate(d)
  \/ Ask \/ Answered \/ Crash
  \/ \E l \in contracts : NextContract(l)
  \/ CountDay \/ AddItem \/ DateDone \/ Write

Spec == Init /\ [][Next]_vars
-----------------------------------------------------------------------------
TradingDay(d) == ~Weekend(d) /\ d \notin closed

\* The days of the counting loop for an item.
Span(item) == item.date..(item.last_trade_date - 1)

\* The variables have the types of their counterparts; the loop never counts
\* more days than it has passed.
TypeOK ==
  /\ phase \in {"date", "ask", "contract", "count", "written", "crashed"}
  /\ dates \subseteq Listed /\ date \in Listed \union {0}
  /\ closed \in Closures /\ holidays \subseteq closed
  /\ contracts \subseteq LastTrades /\ last_trade_date \in LastTrades \union {0}
  /\ start_date \in Nat /\ start_dt \in Nat /\ expire_date \in Nat
  /\ phase = "count" => date + expire_date <= start_dt
  /\ \A item \in result : item.date \in Listed /\ item.last_trade_date \in LastTrades

\* A count is never below the trading days left, and exceeds them by the closed
\* weekdays of its span that no answer named: a service that answers in part
\* makes every option look older by exactly those days (cp_p.py:33-42,
\* holiday.py:50-72).
CountsMissedClosures ==
  \A item \in result :
    item.expiredate_t =
      Cardinality({d \in Span(item) : TradingDay(d)})
        + Cardinality({d \in Span(item) :
                         ~Weekend(d) /\ d \in closed \ item.holidays})

\* Whatever the service leaves out, the counts of one date order its contracts
\* like their last trade dates, and two contracts share a count only when no
\* trading day lies between them: the parser's nearest expiry is a nearest one
\* (cp_p.py:30-43 with process.cpp:60-71).
ExpiryOrderKept ==
  \A i, j \in result :
    i.date = j.date /\ i.last_trade_date < j.last_trade_date =>
      /\ i.expiredate_t <= j.expiredate_t
      /\ (\E d \in Span(j) \ Span(i) : TradingDay(d)) => i.expiredate_t < j.expiredate_t

\* The file has every trading day of the listing with all its contracts, no
\* weekend, and a closed day only when its own answers did not name it
\* (cp_p.py:12-30, 47-48).
TradingDaysKept ==
  phase = "written" =>
    /\ \A d \in Listed : TradingDay(d) =>
         {item.last_trade_date : item \in {i \in result : i.date = d}} = LastTrades
    /\ \A item \in result : ~Weekend(item.date) /\ item.date \notin item.holidays
=============================================================================
