------------------------- MODULE ImpliedVol_proofs -------------------------
(***************************************************************************)
(* Theorems about TradingClock and ImpliedVol for every number of cells,   *)
(* every set of thresholds and whatever the listings count.                *)
(***************************************************************************)
EXTENDS ImpliedVol, TLAPS

\* A quotient and a remainder determine the number they come from.
LEMMA Div60 ==
  ASSUME NEW n \in Nat, NEW q \in Nat, NEW r \in Nat, r < 60, n = 60 * q + r
  PROVE  n \div 60 = q /\ n % 60 = r
OBVIOUS

LEMMA Div100 ==
  ASSUME NEW n \in Nat, NEW q \in Nat, NEW r \in Nat, r < 100, n = 100 * q + r
  PROVE  n \div 100 = q /\ n % 100 = r
OBVIOUS

LEMMA Div10000 ==
  ASSUME NEW n \in Nat, NEW q \in Nat, NEW r \in Nat, r < 10000, n = 10000 * q + r
  PROVE  n \div 10000 = q
OBVIOUS

\* The hour, minute and second that HHMMSS puts together make up the time.
Hour(s) == s \div 3600
Minute(s) == (s % 3600) \div 60
Second(s) == s % 60
SecondsOf(h, m, sec) == 3600 * h + 60 * m + sec
DigitsOf(h, m, sec) == 10000 * h + 100 * m + sec

LEMMA Parts ==
  ASSUME NEW s \in Nat
  PROVE  /\ Hour(s) \in Nat /\ Minute(s) \in 0..59 /\ Second(s) \in 0..59
         /\ SecondsOf(Hour(s), Minute(s), Second(s)) = s
         /\ DigitsOf(Hour(s), Minute(s), Second(s)) = HHMMSS(s)
<1> DEFINE h == Hour(s)
           m == Minute(s)
           r == s % 3600
           q == r % 60
<1>1. h \in Nat /\ r \in 0..3599 /\ s = 3600 * h + r
  BY DEF Hour
<1>2. m \in 0..59 /\ q \in 0..59 /\ r = 60 * m + q
  <2>1. r \in 0..3599 /\ m = r \div 60
    BY <1>1 DEF Minute
  <2> HIDE DEF r, m
  <2> QED
    BY <2>1
<1>3. HHMMSS(s) = DigitsOf(h, m, Second(s))
  BY DEF HHMMSS, Hour, Minute, Second, DigitsOf
<1> HIDE DEF q, r, h, m
<1>4. s = 60 * (60 * h + m) + q /\ 60 * h + m \in Nat /\ q \in Nat /\ q < 60
  BY <1>1, <1>2
<1>5. Second(s) = q
  BY <1>4, Div60 DEF Second
<1>6. SecondsOf(h, m, Second(s)) = s
  BY <1>1, <1>2, <1>5 DEF SecondsOf
<1> USE DEF h, m
<1> QED
  BY <1>1, <1>2, <1>3, <1>5, <1>6

LEMMA PartsRoundTrip ==
  ASSUME NEW h \in Nat, NEW m \in 0..59, NEW sec \in 0..59
  PROVE  KlineSeconds(DigitsOf(h, m, sec)) = SecondsOf(h, m, sec)
<1> DEFINE k == 10000 * h + 100 * m + sec
<1>1. k \div 10000 = h
  <2> DEFINE r == 100 * m + sec
  <2>1. r \in Nat /\ r < 10000 /\ k \in Nat /\ k = 10000 * h + r
    OBVIOUS
  <2> HIDE DEF r, k
  <2> QED
    BY <2>1, Div10000
<1>2. (k \div 100) % 100 = m
  <2>1. k \in Nat /\ 100 * h + m \in Nat /\ k = 100 * (100 * h + m) + sec
    OBVIOUS
  <2>2. sec < 100 /\ m < 100
    OBVIOUS
  <2>3. k \div 100 = 100 * h + m
    BY <2>1, <2>2, Div100
  <2>4. (100 * h + m) % 100 = m
    BY <2>1, <2>2, Div100
  <2> QED
    BY <2>3, <2>4
<1>3. k % 100 = sec
  <2>1. k \in Nat /\ 100 * h + m \in Nat /\ k = 100 * (100 * h + m) + sec
    OBVIOUS
  <2>2. sec < 100
    OBVIOUS
  <2> QED
    BY <2>1, <2>2, Div100
<1> HIDE DEF k
<1>4. KlineSeconds(k) = h * 3600 + m * 60 + sec
  BY <1>1, <1>2, <1>3 DEF KlineSeconds
<1> QED
  BY <1>4 DEF k, DigitsOf, SecondsOf

\* A time survives the way through the decimal digits of kline_time.
LEMMA DigitsRoundTrip ==
  ASSUME NEW s \in Nat
  PROVE  KlineSeconds(HHMMSS(s)) = s
<1>1. Hour(s) \in Nat /\ Minute(s) \in 0..59 /\ Second(s) \in 0..59
  BY Parts
<1>2. KlineSeconds(DigitsOf(Hour(s), Minute(s), Second(s)))
        = SecondsOf(Hour(s), Minute(s), Second(s))
  BY <1>1, PartsRoundTrip
<1> QED
  BY <1>2, Parts

LEMMA PartsAscend ==
  ASSUME NEW h \in Nat, NEW m \in 0..59, NEW sec \in 0..59,
         NEW i \in Nat, NEW n \in 0..59, NEW r \in 0..59,
         SecondsOf(h, m, sec) < SecondsOf(i, n, r)
  PROVE  DigitsOf(h, m, sec) \in Nat /\ DigitsOf(h, m, sec) < DigitsOf(i, n, r)
<1>1. 3600 * h + 60 * m + sec < 3600 * i + 60 * n + r
  BY DEF SecondsOf
<1>2. h \in Int /\ i \in Int /\ m \in Int /\ n \in Int /\ sec \in Int /\ r \in Int
  OBVIOUS
<1>3. /\ 0 <= h /\ 0 <= m /\ m <= 59 /\ 0 <= sec /\ sec <= 59
      /\ 0 <= i /\ 0 <= n /\ n <= 59 /\ 0 <= r /\ r <= 59
  OBVIOUS
<1>4. ~(i < h) /\ (h = i => ~(n < m)) /\ (h = i /\ m = n => sec < r)
  BY <1>1, <1>2, <1>3
<1>5. 10000 * h + 100 * m + sec < 10000 * i + 100 * n + r
  BY <1>2, <1>3, <1>4
<1> QED
  BY <1>2, <1>3, <1>5 DEF DigitsOf

\* A later second has a greater decimal notation.
LEMMA DigitsAscend ==
  ASSUME NEW s \in Nat, NEW t \in Nat, s < t
  PROVE  HHMMSS(s) \in Nat /\ HHMMSS(s) < HHMMSS(t)
<1>1. /\ Hour(s) \in Nat /\ Minute(s) \in 0..59 /\ Second(s) \in 0..59
      /\ Hour(t) \in Nat /\ Minute(t) \in 0..59 /\ Second(t) \in 0..59
  BY Parts
<1>2. SecondsOf(Hour(s), Minute(s), Second(s)) < SecondsOf(Hour(t), Minute(t), Second(t))
  BY Parts
<1>3. /\ DigitsOf(Hour(s), Minute(s), Second(s)) \in Nat
      /\ DigitsOf(Hour(s), Minute(s), Second(s)) < DigitsOf(Hour(t), Minute(t), Second(t))
  BY <1>1, <1>2, PartsAscend
<1> QED
  BY <1>3, Parts

LEMMA BarSecondType ==
  ASSUME NEW b \in DayBars
  PROVE  BarSecond(b) \in Nat
BY DEF BarSecond, DayBars, LastBar, MorningBars, Open, Reopen

\* The bars ascend, over the hours and over noon: the times of get_time_range
\* are such as the bar loop of Process is assumed to walk through.
THEOREM BarsAscend ==
  /\ get_time_range \in [DayBars -> Nat]
  /\ \A b, c \in DayBars : b < c => get_time_range[b] < get_time_range[c]
<1>1. ASSUME NEW b \in DayBars PROVE get_time_range[b] \in Nat
  <2>1. BarSecond(b) \in Nat /\ BarSecond(b) < BarSecond(b) + 1 /\ BarSecond(b) + 1 \in Nat
    BY BarSecondType
  <2> QED
    BY <2>1, DigitsAscend DEF get_time_range
<1>2. ASSUME NEW b \in DayBars, NEW c \in DayBars, b < c
      PROVE  get_time_range[b] < get_time_range[c]
  <2>1. BarSecond(b) \in Nat /\ BarSecond(c) \in Nat
    BY BarSecondType
  <2>2. BarSecond(b) < BarSecond(c)
    BY <1>2 DEF BarSecond, DayBars, LastBar, MorningBars, Open, Reopen
  <2> QED
    BY <2>1, <2>2, DigitsAscend DEF get_time_range
<1> QED
  BY <1>1, <1>2 DEF get_time_range

\* The seconds process() computes for a bar are those of the bar.
LEMMA KlineSecondsOfBar ==
  ASSUME NEW b \in DayBars
  PROVE  KlineSeconds(get_time_range[b]) = BarSecond(b)
<1>1. BarSecond(b) \in Nat
  BY BarSecondType
<1>2. get_time_range[b] = HHMMSS(BarSecond(b))
  BY DEF get_time_range
<1> QED
  BY <1>1, <1>2, DigitsRoundTrip

\* effective_time_etf at the bars, before and after the break.
LEMMA EffectiveAtBar ==
  ASSUME NEW b \in DayBars
  PROVE  effective_time_etf(BarSecond(b)) =
           IF b <= 480 THEN 14400 - 15 * b ELSE 15 * (957 - b)
BY DEF effective_time_etf, BarSecond, DayBars, LastBar, MorningBars, Open,
       NoonBreak, Reopen, Close, DaySeconds

LEMMA MaturityAtBar ==
  ASSUME NEW b \in DayBars, NEW d \in Nat
  PROVE  Maturity(b, d) =
           (IF b <= 480 THEN 14400 - 15 * b ELSE 15 * (957 - b)) + 14400 * d
BY KlineSecondsOfBar, EffectiveAtBar DEF Maturity, DaySeconds

LEMMA BarBounds ==
  ASSUME NEW b \in DayBars
  PROVE  b \in Int /\ 1 <= b /\ b <= 957
BY DEF DayBars, LastBar
-----------------------------------------------------------------------------
LEMMA AnswersType ==
  ASSUME NEW m \in Int, NEW a \in Answers(m)
  PROVE  a \in [Vols -> BOOLEAN]
<1>1. CASE m > 0
  <2>1. PICK t \in Thresholds : a = [v \in Vols |-> v >= t]
    BY <1>1 DEF Answers, Answer
  <2> QED
    BY <2>1
<1>2. CASE ~(m > 0)
  <2>1. a = [v \in Vols |-> TRUE] \/ a = [v \in Vols |-> FALSE]
    BY <1>2 DEF Answers
  <2> QED
    BY <2>1
<1> QED
  BY <1>1, <1>2

LEMMA MaturityType ==
  ASSUME NEW b \in DayBars, NEW d \in Nat
  PROVE  Maturity(b, d) \in Nat
BY MaturityAtBar, BarBounds

LEMMA CountsType ==
  TypeOK => /\ counts \in Seq(Nat) /\ counts # <<>>
            /\ day \in 1..Len(counts) /\ expire_date \in Nat
<1> SUFFICES ASSUME TypeOK
             PROVE  /\ counts \in Seq(Nat) /\ counts # <<>>
                    /\ day \in 1..Len(counts) /\ expire_date \in Nat
  OBVIOUS
<1>1. counts \in Seq(Nat) /\ counts # <<>> /\ day \in DOMAIN counts
  BY CountsAssumption DEF TypeOK
<1> QED
  BY <1>1 DEF expire_date

LEMMA InitTypes == Init => TypeOK
<1> SUFFICES ASSUME Init PROVE TypeOK
  OBVIOUS
<1>1. counts \in Counts /\ day = 1 /\ bar = 1
  BY DEF Init
<1>2. counts \in Seq(Nat) /\ counts # <<>>
  BY <1>1, CountsAssumption
<1>3. day \in DOMAIN counts
  BY <1>1, <1>2
<1> QED
  BY <1>1, <1>3, TopAssumption DEF Init, TypeOK, DayBars, LastBar, Vols

\* Every reachable state is well-typed and the bracket is a real interval.
THEOREM TypeCorrect == Spec => []TypeOK
<1>1. Init => TypeOK
  BY InitTypes
<1>2. TypeOK /\ [Next]_vars => TypeOK'
  <2> SUFFICES ASSUME TypeOK, [Next]_vars PROVE TypeOK'
    OBVIOUS
  <2> USE TopAssumption DEF TypeOK
  <2>1. CASE BeginSearch
    <3>1. Maturity(bar, expire_date) \in Int
      BY MaturityType, CountsType
    <3>2. above' \in [Vols -> BOOLEAN]
      BY <2>1, <3>1, AnswersType DEF BeginSearch
    <3> QED
      BY <2>1, <3>2 DEF BeginSearch, Vols, clockVars
  <2>2. CASE Bisect
    BY <2>2 DEF Bisect, Vols, clockVars
  <2>3. CASE EndSearch
    BY <2>3 DEF EndSearch, clockVars, searchVars
  <2>4. CASE NextBar
    BY <2>4 DEF NextBar, searchVars, DayBars, LastBar
  <2>5. CASE NextDay
    <3>1. counts \in Seq(Nat) /\ day \in 1..Len(counts) /\ day < Len(counts)
      BY <2>5, CountsType DEF NextDay
    <3>2. day + 1 \in DOMAIN counts
      BY <3>1
    <3> QED
      BY <2>5, <3>2 DEF NextDay, searchVars, DayBars, LastBar
  <2>6. CASE UNCHANGED vars
    BY <2>6 DEF vars, clockVars, searchVars
  <2> QED
    BY <2>1, <2>2, <2>3, <2>4, <2>5, <2>6 DEF Next
<1> QED
  BY <1>1, <1>2, PTL DEF Spec

\* At every bar of every day some time is left, except the close of a day counted 0.
THEOREM TimeIsLeft == Spec => []TimeLeft
<1>1. TypeOK => TimeLeft
  <2> SUFFICES ASSUME TypeOK PROVE TimeLeft
    OBVIOUS
  <2>1. bar \in DayBars /\ expire_date \in Nat
    BY CountsType DEF TypeOK
  <2>2. bar \in Int /\ 1 <= bar /\ bar <= 957
    BY <2>1, BarBounds
  <2> DEFINE m == Maturity(bar, expire_date)
  <2>3. m = (IF bar <= 480 THEN 14400 - 15 * bar ELSE 15 * (957 - bar))
              + 14400 * expire_date
    BY <2>1, MaturityAtBar
  <2> HIDE DEF m
  <2>4. m >= 0 /\ (m = 0 <=> bar = 957 /\ expire_date = 0)
    BY <2>1, <2>2, <2>3
  <2> QED
    BY <2>4 DEF TimeLeft, LastBar, m
<1> QED
  BY <1>1, TypeCorrect, PTL

\* The maturity decreases with every bar, and over a night exactly when the next
\* listing counts fewer days.
THEOREM MaturityFalls == Spec => MaturityDecreases
<1> DEFINE Falls == Maturity(bar', expire_date') < Maturity(bar, expire_date)
<1>1. TypeOK /\ TypeOK' /\ [Next]_vars =>
        [clockVars' # clockVars => (Falls <=> day' = day \/ expire_date' < expire_date)]_vars
  <2> SUFFICES ASSUME TypeOK, TypeOK', [Next]_vars, clockVars' # clockVars
               PROVE  Falls <=> day' = day \/ expire_date' < expire_date
    OBVIOUS
  <2> DEFINE c == expire_date
             d == expire_date'
             m == Maturity(bar, c)
             n == Maturity(bar', d)
  <2>1. bar \in DayBars /\ c \in Nat /\ bar' \in DayBars /\ d \in Nat
    <3>1. (counts \in Seq(Nat) /\ day \in 1..Len(counts))'
      BY CountsType, PTL
    <3>2. counts' \in Seq(Nat) /\ day' \in 1..Len(counts')
      BY <3>1
    <3>3. expire_date' = counts'[day']
      BY DEF expire_date
    <3> QED
      BY <3>2, <3>3, CountsType DEF TypeOK
  <2>2. /\ bar \in Int /\ 1 <= bar /\ bar <= 957
        /\ bar' \in Int /\ 1 <= bar' /\ bar' <= 957
    BY <2>1, BarBounds
  <2>3. m = (IF bar <= 480 THEN 14400 - 15 * bar ELSE 15 * (957 - bar)) + 14400 * c
    BY <2>1, MaturityAtBar
  <2>4. n = (IF bar' <= 480 THEN 14400 - 15 * bar' ELSE 15 * (957 - bar')) + 14400 * d
    BY <2>1, MaturityAtBar
  <2>5. CASE NextBar
    <3>1. bar' = bar + 1 /\ day' = day /\ d = c
      BY <2>5 DEF NextBar, expire_date
    <3> HIDE DEF m, n, c, d
    <3>2. n < m
      BY <2>1, <2>2, <2>3, <2>4, <3>1
    <3> QED
      BY <3>1, <3>2 DEF m, n, c, d
  <2>6. CASE NextDay
    <3>1. bar = 957 /\ bar' = 1 /\ day' # day
      <4>1. day \in Int
        BY CountsType
      <4> QED
        BY <2>6, <4>1 DEF NextDay, LastBar
    <3> HIDE DEF m, n, c, d
    <3>2. m = 14400 * c /\ n = 14385 + 14400 * d
      BY <2>1, <2>3, <2>4, <3>1
    <3>3. n < m <=> d < c
      BY <2>1, <3>2
    <3> QED
      BY <3>1, <3>3 DEF m, n, c, d
  <2>7. CASE BeginSearch \/ Bisect \/ EndSearch
    BY <2>7 DEF BeginSearch, Bisect, EndSearch
  <2>8. CASE UNCHANGED vars
    BY <2>8 DEF vars
  <2> QED
    BY <2>5, <2>6, <2>7, <2>8 DEF Next
<1> QED
  BY <1>1, TypeCorrect, PTL DEF Spec, MaturityDecreases
-----------------------------------------------------------------------------
\* Thresholds make above monotone, whatever the maturity.
Monotone == \A v, w \in Vols : v <= w /\ above[v] => above[w]

\* What Bracket and AbortJustified need to be inductive.
Inv ==
  /\ TypeOK
  /\ Monotone
  /\ status # "bar" => (low > 0 => ~above[low]) /\ (high < Top => above[high])
  /\ status \in {"found", "aborted"} => high = low + 1
  /\ status = "aborted" => ~AtMostHundred

LEMMA AnswersMonotone ==
  ASSUME NEW m \in Int, NEW a \in Answers(m), NEW v \in Vols, NEW w \in Vols,
         v <= w, a[v]
  PROVE  a[w]
<1>1. CASE m > 0
  <2>1. PICK t \in Thresholds : a = [u \in Vols |-> u >= t]
    BY <1>1 DEF Answers, Answer
  <2>2. t \in Int /\ v \in Int /\ w \in Int
    BY ThresholdAssumption, TopAssumption DEF Vols
  <2>3. v >= t
    BY <2>1
  <2>4. w >= t
    BY <2>2, <2>3
  <2> QED
    BY <2>1, <2>4
<1>2. CASE ~(m > 0)
  <2>1. a = [u \in Vols |-> TRUE] \/ a = [u \in Vols |-> FALSE]
    BY <1>2 DEF Answers
  <2> QED
    BY <2>1
<1> QED
  BY <1>1, <1>2

LEMMA Invariance == Spec => []Inv
<1>1. Init => Inv
  <2> SUFFICES ASSUME Init PROVE Inv
    OBVIOUS
  <2>1. TypeOK
    BY InitTypes
  <2>2. Monotone
    BY DEF Init, Monotone
  <2> QED
    BY <2>1, <2>2 DEF Init, Inv
<1>2. TypeOK' /\ Inv /\ [Next]_vars => Inv'
  <2> SUFFICES ASSUME TypeOK', Inv, [Next]_vars PROVE Inv'
    OBVIOUS
  <2> USE DEF Inv
  <2>1. CASE BeginSearch
    <3>1. Maturity(bar, expire_date) \in Int
      <4>1. TypeOK
        OBVIOUS
      <4>2. expire_date \in Nat /\ bar \in DayBars
        BY <4>1, CountsType DEF TypeOK
      <4> QED
        BY <4>2, MaturityType
    <3>2. Monotone'
      BY <2>1, <3>1, AnswersMonotone DEF BeginSearch, Monotone, Vols
    <3> QED
      BY <2>1, <3>2, TopAssumption DEF BeginSearch
  <2>2. CASE Bisect
    <3>1. Monotone'
      BY <2>2 DEF Bisect, Monotone, Vols
    <3> QED
      BY <2>2, <3>1 DEF Bisect, TypeOK, Vols
  <2>3. CASE EndSearch
    <3>1. Monotone'
      BY <2>3 DEF EndSearch, searchVars, Monotone, Vols
    <3>2. high = low + 1
      BY <2>3, TopAssumption DEF EndSearch, TypeOK, Vols
    <3> QED
      BY <2>3, <3>1, <3>2 DEF EndSearch, searchVars, AtMostHundred
  <2>4. CASE NextBar \/ NextDay
    BY <2>4 DEF NextBar, NextDay, searchVars, Monotone, Vols
  <2>5. CASE UNCHANGED vars
    BY <2>5 DEF vars, searchVars, Monotone, Vols, AtMostHundred
  <2> QED
    BY <2>1, <2>2, <2>3, <2>4, <2>5 DEF Next
<1> QED
  BY <1>1, <1>2, TypeCorrect, PTL DEF Spec

\* The bisection keeps its answer between low and high.
THEOREM BracketHolds == Spec => []Bracket
<1>1. Inv => Bracket
  <2> SUFFICES ASSUME Inv, status # "bar" PROVE
        /\ \A v \in Vols : 0 < v /\ v <= low => ~above[v]
        /\ \A v \in Vols : high <= v /\ v < Top => above[v]
    BY DEF Bracket
  <2>1. /\ low \in Vols /\ high \in Vols /\ above \in [Vols -> BOOLEAN]
        /\ \A v \in Vols : v \in Int
        /\ Top \in Int
    BY TopAssumption DEF Inv, TypeOK, Vols
  <2>2. ASSUME NEW v \in Vols, 0 < v, v <= low PROVE ~above[v]
    <3>1. low > 0
      BY <2>1, <2>2
    <3>2. ~above[low]
      BY <3>1 DEF Inv
    <3> QED
      BY <2>1, <2>2, <3>2 DEF Inv, Monotone
  <2>3. ASSUME NEW v \in Vols, high <= v, v < Top PROVE above[v]
    <3>1. high < Top
      BY <2>1, <2>3
    <3>2. above[high]
      BY <3>1 DEF Inv
    <3> QED
      BY <2>1, <2>3, <3>2 DEF Inv, Monotone
  <2> QED
    BY <2>2, <2>3
<1> QED
  BY <1>1, Invariance, PTL

\* The program is stopped by the assertion only at the expiry or by a quote
\* whose volatility is more than 100 percent.
THEOREM AbortIsJustified == Spec => []AbortJustified
<1>1. Inv /\ Bracket => AbortJustified
  <2> SUFFICES ASSUME Inv, Bracket, status = "aborted",
                      NEW v \in Vols, 0 < v, 5 * v <= Top
               PROVE  ~above[v]
    BY DEF AbortJustified
  <2>1. low \in Int /\ high \in Int /\ v \in Int /\ Top \in Int
    BY TopAssumption DEF Inv, TypeOK, Vols
  <2>2. high = low + 1 /\ ~(5 * (low + high) <= 2 * Top)
    BY DEF Inv, AtMostHundred
  <2>3. v <= low
    BY <2>1, <2>2
  <2> QED
    BY <2>3 DEF Bracket
<1> QED
  BY <1>1, Invariance, BracketHolds, PTL

\* Half of the bracket, rounded up, is left, and less than the whole.
Halves == high' - low' < high - low /\ 2 * (high' - low') <= high - low + 1

\* The safety half of SearchEnds: every turn of the loop halves the bracket, so
\* that the code's 2^29 cells take 29 turns.
THEOREM TurnsHalve == Spec => [][status = "search" /\ status' = "search" => Halves]_vars
<1>1. TypeOK /\ [Next]_vars => [status = "search" /\ status' = "search" => Halves]_vars
  <2> SUFFICES ASSUME TypeOK, Next, status = "search", status' = "search"
               PROVE  Halves
    OBVIOUS
  <2>1. Bisect
    BY DEF Next, BeginSearch, EndSearch, NextBar, NextDay
  <2>2. low \in Nat /\ high \in Nat /\ high - low > 1
    BY <2>1, TopAssumption DEF TypeOK, Vols, Bisect
  <2> DEFINE vol == (high + low) \div 2
  <2>3. vol \in Nat /\ 2 * vol <= high + low /\ high + low <= 2 * vol + 1
    BY <2>2
  <2>4. \/ high' = vol /\ low' = low
        \/ low' = vol /\ high' = high
    BY <2>1 DEF Bisect
  <2> HIDE DEF vol
  <2> QED
    BY <2>2, <2>3, <2>4 DEF Halves
<1> QED
  BY <1>1, TypeCorrect, PTL DEF Spec
=============================================================================
