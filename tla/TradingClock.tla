---------------------------- MODULE TradingClock ----------------------------
(***************************************************************************)
(* The bars of a trading day and the time an option has left at a bar:     *)
(* get_time_range (utils.h), the arithmetic on kline_time in process() and *)
(* effective_time_etf (iv.h).  Times are in seconds and the fraction of a  *)
(* trading day left is in parts of DaySeconds, so every value is exact; a  *)
(* maturity_time is Maturity / (243 * DaySeconds) years.                   *)
(***************************************************************************)
EXTENDS Integers

\* t1..t4 and total_time of effective_time_etf.
Open == 34200
NoonBreak == 41400
Reopen == 46800
Close == 54000
DaySeconds == 14400

\* Every 15 s: 93015 to 113000, then 130100 to 150000.
MorningBars == 480
LastBar == 957
DayBars == 1..LastBar

BarSecond(b) ==
  IF b <= MorningBars THEN Open + 15 * b ELSE Reopen + 60 + 15 * (b - MorningBars - 1)

HHMMSS(s) == (s \div 3600) * 10000 + ((s % 3600) \div 60) * 100 + (s % 60)

get_time_range == [b \in DayBars |-> HHMMSS(BarSecond(b))]

\* hour, minute and seconds of a kline_time, put together.
KlineSeconds(kline_time) ==
  (kline_time \div 10000) * 3600 + ((kline_time \div 100) % 100) * 60 + (kline_time % 100)

\* Mutated forms of effective_time_etf: the close belongs to no range, and the
\* afternoon forgets the morning.
effective_time_open_close(t) ==
  IF Open <= t /\ t < Reopen
  THEN DaySeconds - (IF t < NoonBreak THEN t - Open ELSE NoonBreak - Open)
  ELSE IF Reopen <= t /\ t < Close
  THEN DaySeconds - (t - Reopen + DaySeconds \div 2)
  ELSE IF t > Close THEN 0 ELSE DaySeconds

effective_time_afternoon(t) ==
  IF Open <= t /\ t < Reopen
  THEN DaySeconds - (IF t < NoonBreak THEN t - Open ELSE NoonBreak - Open)
  ELSE IF Reopen <= t /\ t < Close THEN DaySeconds - (t - Reopen)
  ELSE IF t >= Close THEN 0 ELSE DaySeconds

\* The part of the trading day still to come at second t.
effective_time_etf(t) ==
  IF Open <= t /\ t < Reopen
  THEN DaySeconds - (IF t < NoonBreak THEN t - Open ELSE NoonBreak - Open)
  ELSE IF Reopen <= t /\ t < Close
  THEN DaySeconds - (t - Reopen + DaySeconds \div 2)
  ELSE IF t >= Close THEN 0 ELSE DaySeconds

\* maturity_time at bar b of a day with expire_date trading days to go.
Maturity(b, expire_date) ==
  effective_time_etf(KlineSeconds(get_time_range[b])) + DaySeconds * expire_date
=============================================================================
