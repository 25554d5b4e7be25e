------------------------- MODULE ExpiryCount_proofs -------------------------
(***************************************************************************)
(* For any dates, contracts, closed days and answers of the service: what  *)
(* the expiry counts of cp_p.py are, how they are ordered, and which dates *)
(* reach the file.                                                         *)
(***************************************************************************)
EXTENDS ExpiryCount, FiniteSetTheorems, TLAPS

\* The days from d on and before e that are counted with these holidays.
Counted(d, e, used) == {x \in d..(e - 1) : ~Weekend(x) /\ x \notin used}

\* Where the loops over the dates, contracts and days stand.
LoopsOK ==
  /\ phase \in {"ask", "contract", "count"} => date \in Listed /\ ~Weekend(date)
  /\ phase \in {"contract", "count"} => date \notin holidays
  /\ phase \in {"ask", "contract", "count"} => date \notin dates
  /\ phase = "count" =>
       /\ last_trade_date \in LastTrades \ contracts
       /\ date <= start_dt
       /\ start_dt <= last_trade_date \/ start_dt = date
       /\ expire_date = Cardinality(Counted(date, start_dt, holidays))

\* What every item was counted with.
ItemsOK ==
  \A item \in result :
    /\ item.holidays \subseteq closed
    /\ ~Weekend(item.date) /\ item.date \notin item.holidays
    /\ item.expiredate_t = Cardinality(Counted(item.date, item.last_trade_date, item.holidays))

\* The items of one date share its holidays; a date still to do has none.
DatesOK ==
  /\ \A item \in result :
       /\ item.date \notin dates
       /\ item.date = date =>
            /\ phase # "ask"
            /\ phase \in {"contract", "count"} => item.holidays = holidays
  /\ \A i, j \in result : i.date = j.date => i.holidays = j.holidays

TradesOf(d) == {item.last_trade_date : item \in {i \in result : i.date = d}}

\* A trading day is still to do, or being worked on, or has all its items.
DoneOK ==
  /\ phase = "contract" => TradesOf(date) = LastTrades \ contracts
  /\ phase = "count" => TradesOf(date) = LastTrades \ (contracts \union {last_trade_date})
  /\ \A d \in Listed :
       TradingDay(d) =>
         \/ d \in dates
         \/ phase \in {"ask", "contract", "count"} /\ d = date
         \/ phase = "crashed"
         \/ TradesOf(d) = LastTrades

Inv == TypeOK /\ LoopsOK /\ ItemsOK /\ DatesOK /\ DoneOK
-----------------------------------------------------------------------------
LEMMA CountedFinite ==
  ASSUME NEW d \in Int, NEW e \in Int, NEW used
  PROVE  IsFiniteSet(Counted(d, e, used)) /\ Cardinality(Counted(d, e, used)) \in Nat
<1>1. e - 1 \in Int
  OBVIOUS
<1>2. IsFiniteSet(d..(e - 1))
  BY <1>1, FS_Interval
<1>3. Counted(d, e, used) \in SUBSET (d..(e - 1))
  BY DEF Counted
<1>4. IsFiniteSet(Counted(d, e, used))
  BY <1>2, <1>3, FS_Subset
<1> QED
  BY <1>4, FS_CardinalityType

\* No day lies before the first one.
LEMMA NothingCounted ==
  ASSUME NEW d \in Int, NEW e \in Int, e <= d, NEW used
  PROVE  Counted(d, e, used) = {} /\ Cardinality(Counted(d, e, used)) = 0
<1>1. d..(e - 1) = {}
  OBVIOUS
<1>2. Counted(d, e, used) = {}
  BY <1>1 DEF Counted
<1> QED
  BY <1>2, FS_EmptySet

\* One more day.
LEMMA OneMoreDay ==
  ASSUME NEW d \in Int, NEW e \in Int, d <= e, NEW used
  PROVE  Cardinality(Counted(d, e + 1, used)) =
           IF ~Weekend(e) /\ e \notin used THEN Cardinality(Counted(d, e, used)) + 1
           ELSE Cardinality(Counted(d, e, used))
<1>1. d..((e + 1) - 1) = (d..(e - 1)) \union {e}
  OBVIOUS
<1>2. e \notin d..(e - 1)
  OBVIOUS
<1>3. CASE ~Weekend(e) /\ e \notin used
  <2>1. Counted(d, e + 1, used) = Counted(d, e, used) \union {e}
    BY <1>1, <1>3 DEF Counted
  <2>2. e \notin Counted(d, e, used)
    BY <1>2 DEF Counted
  <2> QED
    BY <1>3, <2>1, <2>2, CountedFinite, FS_AddElement
<1>4. CASE ~(~Weekend(e) /\ e \notin used)
  <2>1. Counted(d, e + 1, used) = Counted(d, e, used)
    BY <1>1, <1>4 DEF Counted
  <2> QED
    BY <1>4, <2>1
<1> QED
  BY <1>3, <1>4
-----------------------------------------------------------------------------
LEMMA InitInv == Init => Inv
<1> SUFFICES ASSUME Init PROVE Inv
  OBVIOUS
<1>1. TypeOK
  BY CalendarAssumption DEF Init, TypeOK
<1> QED
  BY <1>1 DEF Init, Inv, LoopsOK, ItemsOK, DatesOK, DoneOK

\* A step that leaves the items alone and does not touch the counting.
LEMMA InvNextDate == \A d \in dates : Inv /\ NextDate(d) => Inv'
<1> SUFFICES ASSUME NEW d \in dates, Inv, NextDate(d) PROVE Inv'
  OBVIOUS
<1>1. /\ phase = "date" /\ d \in dates /\ dates' = dates \ {d}
      /\ date' = d /\ start_date' = d /\ holidays' = {}
      /\ phase' = IF Weekend(d) THEN "date" ELSE "ask"
      /\ closed' = closed /\ contracts' = contracts /\ result' = result
      /\ last_trade_date' = last_trade_date /\ start_dt' = start_dt
      /\ expire_date' = expire_date
  BY DEF NextDate, countVars
<1>2. d \in Listed /\ d \in Nat
  BY <1>1, CalendarAssumption DEF Inv, TypeOK
<1>3. TypeOK'
  BY <1>1, <1>2 DEF Inv, TypeOK
<1>4. LoopsOK'
  BY <1>1, <1>2 DEF LoopsOK
<1>5. ItemsOK'
  BY <1>1 DEF Inv, ItemsOK
<1>6. DatesOK'
  BY <1>1 DEF Inv, DatesOK
<1>7. DoneOK'
  <2>1. \A x : TradesOf(x)' = TradesOf(x) /\ TradingDay(x)' = TradingDay(x)
    BY <1>1 DEF TradesOf, TradingDay
  <2>2. phase' \notin {"contract", "count"}
    BY <1>1
  <2>3. ASSUME NEW x \in Listed, TradingDay(x)
        PROVE  x \in dates' \/ (phase' = "ask" /\ x = date') \/ TradesOf(x) = LastTrades
    BY <1>1, <2>3 DEF Inv, DoneOK, TradingDay
  <2> QED
    BY <2>1, <2>2, <2>3 DEF DoneOK
<1> QED
  BY <1>3, <1>4, <1>5, <1>6, <1>7 DEF Inv

LEMMA InvAsk == Inv /\ Ask => Inv'
<1> SUFFICES ASSUME Inv, Ask PROVE Inv'
  OBVIOUS
<1>1. /\ phase = "ask" /\ phase' = "ask" /\ holidays' \subseteq closed
      /\ start_date' = start_date + Stride
      /\ closed' = closed /\ dates' = dates /\ date' = date /\ contracts' = contracts
      /\ last_trade_date' = last_trade_date /\ start_dt' = start_dt
      /\ expire_date' = expire_date /\ result' = result
  BY DEF Ask, countVars, Inv, TypeOK
<1>2. TypeOK'
  BY <1>1, CalendarAssumption DEF Inv, TypeOK
<1>3. LoopsOK'
  BY <1>1 DEF Inv, LoopsOK
<1>4. ItemsOK' /\ DatesOK'
  BY <1>1 DEF Inv, ItemsOK, DatesOK
<1>5. DoneOK'
  BY <1>1 DEF Inv, DoneOK, TradesOf, TradingDay
<1> QED
  BY <1>2, <1>3, <1>4, <1>5 DEF Inv

LEMMA InvAnswered == Inv /\ Answered => Inv'
<1> SUFFICES ASSUME Inv, Answered PROVE Inv'
  OBVIOUS
<1>1. /\ phase = "ask"
      /\ phase' = IF date \in holidays THEN "date" ELSE "contract"
      /\ contracts' = IF date \in holidays THEN {} ELSE LastTrades
      /\ closed' = closed /\ dates' = dates /\ date' = date /\ holidays' = holidays
      /\ start_date' = start_date
      /\ last_trade_date' = last_trade_date /\ start_dt' = start_dt
      /\ expire_date' = expire_date /\ result' = result
  BY DEF Answered, countVars
<1>2. TypeOK'
  BY <1>1 DEF Inv, TypeOK
<1>3. LoopsOK'
  BY <1>1 DEF Inv, LoopsOK
<1>4. ItemsOK' /\ DatesOK'
  BY <1>1 DEF Inv, ItemsOK, DatesOK
<1>5. DoneOK'
  <2>1. \A x : TradesOf(x)' = TradesOf(x) /\ TradingDay(x)' = TradingDay(x)
    BY <1>1 DEF TradesOf, TradingDay
  <2>2. TradesOf(date) = {}
    BY <1>1 DEF Inv, DatesOK, TradesOf
  <2>3. phase' = "contract" => TradesOf(date) = LastTrades \ contracts'
    BY <1>1, <2>2
  <2>4. ASSUME NEW x \in Listed, TradingDay(x)
        PROVE  x \in dates' \/ (phase' = "contract" /\ x = date') \/ TradesOf(x) = LastTrades
    <3>1. holidays \subseteq closed
      BY DEF Inv, TypeOK
    <3>2. x \in dates \/ x = date \/ TradesOf(x) = LastTrades
      BY <1>1, <2>4 DEF Inv, DoneOK
    <3>3. x = date => date \notin holidays
      BY <2>4, <3>1 DEF TradingDay
    <3> QED
      BY <1>1, <3>2, <3>3
  <2>5. phase' # "count"
    BY <1>1
  <2> QED
    BY <1>1, <2>1, <2>3, <2>4, <2>5 DEF DoneOK
<1> QED
  BY <1>2, <1>3, <1>4, <1>5 DEF Inv

LEMMA InvNextContract == \A l \in contracts : Inv /\ NextContract(l) => Inv'
<1> SUFFICES ASSUME NEW l \in contracts, Inv, NextContract(l) PROVE Inv'
  OBVIOUS
<1>1. /\ phase = "contract" /\ phase' = "count" /\ contracts' = contracts \ {l}
      /\ last_trade_date' = l /\ start_dt' = date /\ expire_date' = 0
      /\ closed' = closed /\ dates' = dates /\ date' = date /\ holidays' = holidays
      /\ start_date' = start_date /\ result' = result
  BY DEF NextContract
<1>2. date \in Listed /\ date \in Nat /\ l \in LastTrades
  BY <1>1, CalendarAssumption DEF Inv, TypeOK, LoopsOK
<1>3. TypeOK'
  BY <1>1, <1>2 DEF Inv, TypeOK
<1>4. LoopsOK'
  <2>1. Cardinality(Counted(date, date, holidays)) = 0
    BY <1>2, NothingCounted
  <2> QED
    BY <1>1, <1>2, <2>1 DEF Inv, LoopsOK
<1>5. ItemsOK' /\ DatesOK'
  BY <1>1 DEF Inv, ItemsOK, DatesOK
<1>6. DoneOK'
  <2>1. \A x : TradesOf(x)' = TradesOf(x) /\ TradingDay(x)' = TradingDay(x)
    BY <1>1 DEF TradesOf, TradingDay
  <2>2. TradesOf(date) = LastTrades \ ((contracts \ {l}) \union {l})
    BY <1>1 DEF Inv, DoneOK
  <2> QED
    BY <1>1, <2>1, <2>2 DEF Inv, DoneOK
<1> QED
  BY <1>3, <1>4, <1>5, <1>6 DEF Inv

LEMMA InvCountDay == Inv /\ CountDay => Inv'
<1> SUFFICES ASSUME Inv, CountDay PROVE Inv'
  OBVIOUS
<1>1. /\ phase = "count" /\ phase' = "count" /\ start_dt < last_trade_date
      /\ expire_date' = IF Counts(start_dt) THEN expire_date + 1 ELSE expire_date
      /\ start_dt' = start_dt + 1
      /\ closed' = closed /\ dates' = dates /\ date' = date /\ holidays' = holidays
      /\ start_date' = start_date /\ contracts' = contracts
      /\ last_trade_date' = last_trade_date /\ result' = result
  BY DEF CountDay
<1>2. /\ date \in Nat /\ start_dt \in Nat /\ last_trade_date \in Nat /\ expire_date \in Nat
      /\ date <= start_dt /\ date + expire_date <= start_dt
      /\ expire_date = Cardinality(Counted(date, start_dt, holidays))
  BY <1>1, CalendarAssumption DEF Inv, TypeOK, LoopsOK
<1>3. expire_date' \in {expire_date, expire_date + 1}
  BY <1>1
<1>4. TypeOK'
  <2>1. expire_date' \in Nat /\ start_dt' \in Nat /\ date + expire_date' <= start_dt'
    BY <1>1, <1>2, <1>3
  <2> QED
    BY <1>1, <2>1 DEF Inv, TypeOK
<1>5. LoopsOK'
  <2>1. expire_date' = Cardinality(Counted(date, start_dt + 1, holidays))
    BY <1>1, <1>2, OneMoreDay DEF Counts
  <2>2. date <= start_dt + 1 /\ start_dt + 1 <= last_trade_date
    BY <1>1, <1>2
  <2> QED
    BY <1>1, <2>1, <2>2 DEF Inv, LoopsOK
<1>6. ItemsOK' /\ DatesOK'
  BY <1>1 DEF Inv, ItemsOK, DatesOK
<1>7. DoneOK'
  BY <1>1 DEF Inv, DoneOK, TradesOf, TradingDay
<1> QED
  BY <1>4, <1>5, <1>6, <1>7 DEF Inv

LEMMA InvAddItem == Inv /\ AddItem => Inv'
<1> SUFFICES ASSUME Inv, AddItem PROVE Inv'
  OBVIOUS
<1> DEFINE new == Item(date, last_trade_date, expire_date, holidays)
<1>1. /\ phase = "count" /\ phase' = "contract" /\ start_dt >= last_trade_date
      /\ result' = result \union {new}
      /\ closed' = closed /\ dates' = dates /\ date' = date /\ holidays' = holidays
      /\ start_date' = start_date /\ contracts' = contracts
      /\ last_trade_date' = last_trade_date /\ start_dt' = start_dt
      /\ expire_date' = expire_date
  BY DEF AddItem, countVars
<1>2. /\ date \in Listed /\ last_trade_date \in LastTrades \ contracts
      /\ ~Weekend(date) /\ date \notin holidays /\ date \notin dates
      /\ holidays \subseteq closed
      /\ date \in Nat /\ start_dt \in Nat /\ last_trade_date \in Nat
      /\ start_dt <= last_trade_date \/ start_dt = date
      /\ expire_date = Cardinality(Counted(date, start_dt, holidays))
  BY <1>1, CalendarAssumption DEF Inv, TypeOK, LoopsOK
<1>3. /\ new.date = date /\ new.last_trade_date = last_trade_date
      /\ new.expiredate_t = expire_date /\ new.holidays = holidays
  BY DEF Item
<1>4. expire_date = Cardinality(Counted(date, last_trade_date, holidays))
  <2>1. CASE start_dt = last_trade_date
    BY <1>2, <2>1
  <2>2. CASE start_dt # last_trade_date
    <3>1. start_dt = date /\ last_trade_date <= date
      BY <1>1, <1>2, <2>2
    <3> QED
      BY <1>2, <3>1, NothingCounted
  <2> QED
    BY <2>1, <2>2
<1> HIDE DEF new
<1>5. TypeOK'
  BY <1>1, <1>2, <1>3 DEF Inv, TypeOK
<1>6. LoopsOK'
  BY <1>1 DEF Inv, LoopsOK
<1>7. ItemsOK'
  BY <1>1, <1>2, <1>3, <1>4 DEF Inv, ItemsOK
<1>8. DatesOK'
  BY <1>1, <1>2, <1>3 DEF Inv, DatesOK
<1>9. DoneOK'
  <2>1. \A x : TradingDay(x)' = TradingDay(x)
    BY <1>1 DEF TradingDay
  <2>2. TradesOf(date)' = TradesOf(date) \union {last_trade_date}
    BY <1>1, <1>3 DEF TradesOf
  <2>3. TradesOf(date)' = LastTrades \ contracts
    BY <1>1, <1>2, <2>2 DEF Inv, DoneOK
  <2>4. \A x \in Listed : x # date => TradesOf(x)' = TradesOf(x)
    BY <1>1, <1>3 DEF TradesOf
  <2>5. ASSUME NEW x \in Listed, TradingDay(x)
        PROVE  x \in dates \/ x = date \/ TradesOf(x)' = LastTrades
    BY <1>1, <2>4, <2>5 DEF Inv, DoneOK
  <2> QED
    BY <1>1, <2>1, <2>3, <2>5 DEF DoneOK, TradesOf
<1> QED
  BY <1>5, <1>6, <1>7, <1>8, <1>9 DEF Inv

\* The last contract of a date, the end, and an error.
LEMMA InvPhaseOnly == Inv /\ (DateDone \/ Write \/ Crash) => Inv'
<1> SUFFICES ASSUME Inv, DateDone \/ Write \/ Crash PROVE Inv'
  OBVIOUS
<1>1. /\ closed' = closed /\ dates' = dates /\ date' = date /\ holidays' = holidays
      /\ start_date' = start_date /\ contracts' = contracts
      /\ last_trade_date' = last_trade_date /\ start_dt' = start_dt
      /\ expire_date' = expire_date /\ result' = result
  BY DEF DateDone, Write, Crash, countVars
<1>2. \/ phase = "contract" /\ contracts = {} /\ phase' = "date"
      \/ phase = "date" /\ phase' = "written"
      \/ phase = "ask" /\ phase' = "crashed"
  BY DEF DateDone, Write, Crash
<1>3. TypeOK'
  BY <1>1, <1>2 DEF Inv, TypeOK
<1>4. LoopsOK' /\ ItemsOK' /\ DatesOK'
  BY <1>1, <1>2 DEF Inv, LoopsOK, ItemsOK, DatesOK
<1>5. DoneOK'
  <2>1. \A x : TradesOf(x)' = TradesOf(x) /\ TradingDay(x)' = TradingDay(x)
    BY <1>1 DEF TradesOf, TradingDay
  <2>2. phase = "contract" => TradesOf(date) = LastTrades
    BY <1>2 DEF Inv, DoneOK
  <2>3. ASSUME NEW x \in Listed, TradingDay(x)
        PROVE  x \in dates \/ phase' = "crashed" \/ TradesOf(x) = LastTrades
    BY <1>2, <2>2, <2>3 DEF Inv, DoneOK
  <2> QED
    BY <1>1, <1>2, <2>1, <2>3 DEF DoneOK
<1> QED
  BY <1>3, <1>4, <1>5 DEF Inv

LEMMA InvNext == Inv /\ [Next]_vars => Inv'
<1> SUFFICES ASSUME Inv, [Next]_vars PROVE Inv'
  OBVIOUS
<1>1. CASE Next
  BY <1>1, InvNextDate, InvAsk, InvAnswered, InvNextContract, InvCountDay, InvAddItem,
     InvPhaseOnly DEF Next
<1>2. CASE UNCHANGED vars
  BY <1>2 DEF vars, countVars, Inv, TypeOK, LoopsOK, ItemsOK, DatesOK, DoneOK, TradesOf,
              TradingDay
<1> QED
  BY <1>1, <1>2

LEMMA InvHolds == Spec => []Inv
BY InitInv, InvNext, PTL DEF Spec

\* An item's dates are numbers.
LEMMA ItemDates ==
  ASSUME TypeOK, NEW item \in result
  PROVE  item.date \in Nat /\ item.last_trade_date \in Nat
<1>1. item.date \in Listed /\ item.last_trade_date \in LastTrades
  BY DEF TypeOK
<1> QED
  BY <1>1, CalendarAssumption
-----------------------------------------------------------------------------
\* The variables of cp_p.py keep their types, and the loop never counts more
\* days than it has passed, for every listing and calendar.
THEOREM CountTypes == Spec => []TypeOK
<1>1. Inv => TypeOK
  BY DEF Inv
<1> QED
  BY <1>1, InvHolds, PTL

\* Every expiry count is the number of trading days left plus the number of
\* closed weekdays the calendar service did not name.
THEOREM CountsAreExplained == Spec => []CountsMissedClosures
<1>1. Inv => CountsMissedClosures
  <2> SUFFICES ASSUME Inv, NEW item \in result
               PROVE  item.expiredate_t =
                        Cardinality({d \in Span(item) : TradingDay(d)})
                          + Cardinality({d \in Span(item) :
                                           ~Weekend(d) /\ d \in closed \ item.holidays})
    BY DEF CountsMissedClosures
  <2> DEFINE all == Counted(item.date, item.last_trade_date, item.holidays)
             trading == {d \in Span(item) : TradingDay(d)}
             missed == {d \in Span(item) : ~Weekend(d) /\ d \in closed \ item.holidays}
  <2>1. /\ item.holidays \subseteq closed /\ item.expiredate_t = Cardinality(all)
        /\ item.date \in Int /\ item.last_trade_date \in Int
    BY ItemDates DEF Inv, ItemsOK
  <2>2. all = trading \union missed /\ trading \intersect missed = {}
    BY <2>1 DEF Counted, Span, TradingDay
  <2>3. IsFiniteSet(all)
    BY <2>1, CountedFinite
  <2>4. trading \in SUBSET all /\ missed \in SUBSET all
    BY <2>2
  <2> HIDE DEF all, trading, missed
  <2>5. IsFiniteSet(trading) /\ IsFiniteSet(missed)
    BY <2>3, <2>4, FS_Subset
  <2>6. Cardinality(trading) \in Nat /\ Cardinality(missed) \in Nat
    BY <2>5, FS_CardinalityType
  <2>7. Cardinality(all) = Cardinality(trading) + Cardinality(missed) - Cardinality({})
    BY <2>2, <2>5, FS_Union
  <2>8. Cardinality(all) = Cardinality(trading) + Cardinality(missed)
    BY <2>6, <2>7, FS_EmptySet
  <2> QED
    BY <2>1, <2>8 DEF trading, missed
<1> QED
  BY <1>1, InvHolds, PTL

\* The counts of one date order its contracts like their last trade dates.
THEOREM CountsKeepOrder == Spec => []ExpiryOrderKept
<1>1. Inv => ExpiryOrderKept
  <2> SUFFICES ASSUME Inv, NEW i \in result, NEW j \in result,
                      i.date = j.date, i.last_trade_date < j.last_trade_date
               PROVE  /\ i.expiredate_t <= j.expiredate_t
                      /\ (\E d \in Span(j) \ Span(i) : TradingDay(d)) =>
                           i.expiredate_t < j.expiredate_t
    BY DEF ExpiryOrderKept
  <2> DEFINE mine == Counted(i.date, i.last_trade_date, i.holidays)
             theirs == Counted(j.date, j.last_trade_date, j.holidays)
  <2>1. /\ i.expiredate_t = Cardinality(mine) /\ j.expiredate_t = Cardinality(theirs)
        /\ i.holidays = j.holidays /\ j.holidays \subseteq closed
        /\ i.date \in Int /\ i.last_trade_date \in Int /\ j.last_trade_date \in Int
    BY ItemDates DEF Inv, ItemsOK, DatesOK
  <2>2. i.date..(i.last_trade_date - 1) \subseteq i.date..(j.last_trade_date - 1)
    BY <2>1
  <2>3. mine \in SUBSET theirs
    BY <2>1, <2>2 DEF Counted
  <2>4. /\ IsFiniteSet(theirs)
        /\ Cardinality(theirs) \in Nat /\ Cardinality(mine) \in Nat
    BY <2>1, CountedFinite
  <2>5. ASSUME NEW d \in Span(j) \ Span(i), TradingDay(d) PROVE d \in theirs \ mine
    BY <2>1, <2>5 DEF Span, Counted, TradingDay
  <2> HIDE DEF mine, theirs
  <2>6. /\ Cardinality(mine) <= Cardinality(theirs)
        /\ Cardinality(theirs) = Cardinality(mine) => theirs = mine
    BY <2>3, <2>4, FS_Subset
  <2>7. ASSUME NEW d \in Span(j) \ Span(i), TradingDay(d)
        PROVE  Cardinality(mine) < Cardinality(theirs)
    BY <2>4, <2>5, <2>6, <2>7
  <2> QED
    BY <2>1, <2>6, <2>7
<1> QED
  BY <1>1, InvHolds, PTL

\* The file has every trading day of the listing with all its contracts, and
\* no date its own answers name closed.
THEOREM TradingDaysReachFile == Spec => []TradingDaysKept
<1> DEFINE Finished == phase = "written" => dates = {}
<1>1. Init => Finished
  BY DEF Init
<1>2. Finished /\ [Next]_vars => Finished'
  BY DEF Next, vars, countVars, NextDate, Ask, Answered, NextContract, CountDay, AddItem,
         DateDone, Write, Crash
<1>3. Inv /\ Finished => TradingDaysKept
  BY DEF Inv, DoneOK, ItemsOK, TradingDaysKept, TradesOf
<1> QED
  BY <1>1, <1>2, <1>3, InvHolds, PTL DEF Spec
=============================================================================
