----------------------------- MODULE MCProcess -----------------------------
(***************************************************************************)
(* Constants for TLC: two bars, two pairs; every contract may be quoted at *)
(* any of the bars.                                                        *)
(***************************************************************************)
EXTENDS Process

CONSTANTS c1, c2, p1, p2   \* option codes

Codes == <<c1, c2, p1, p2>>

\* Contract k of Codes at bar b; all prices and volumes differ.
ItemOf(k, b) == [close_price |-> 20 * k + 3 * b, trade_volume |-> 10 * k + b]

DayTables ==
  [c \in {c1, c2, p1, p2} |->
     LET k == CHOOSE i \in 1..4 : Codes[i] = c
     IN  {[b \in S |-> ItemOf(k, b)] : S \in SUBSET (1..2)}]

\* The same quotes as rows, the later bar first; the table of c1 may have been
\* loaded twice, with other values.
Rows(items) ==
  LET RowAt(b) == [bar |-> b, item |-> items[b]]
  IN  IF DOMAIN items = {1, 2}
      THEN {<<RowAt(2), RowAt(1)>>}
      ELSE {[n \in 1..Cardinality(DOMAIN items) |-> RowAt(CHOOSE b \in DOMAIN items : TRUE)]}

LoadedTwice == <<[bar |-> 1, item |-> ItemOf(1, 1)], [bar |-> 1, item |-> ItemOf(5, 1)]>>

DayKlines ==
  [c \in {c1, c2, p1, p2} |->
     (UNION {Rows(items) : items \in DayTables[c]}) \union (IF c = c1 THEN {LoadedTwice} ELSE {})]

Calls == <<OptionChain(c1, 100), OptionChain(c2, 110)>>
Puts == <<OptionChain(p1, 100), OptionChain(p2, 110)>>

DayListings == {[call |-> Calls, put |-> Puts]}
DayUnfit ==
  {[call |-> <<>>, put |-> Puts], [call |-> Calls, put |-> <<>>],
   [call |-> Calls, put |-> <<OptionChain(p1, 100)>>]}

DayBars == 2
DayBarTime == <<93015, 93030>>

\* Day 2, hhmmss and hundredths of a second.
Stamp(hhmmss, hundredths) == (2000000 + hhmmss) * 100 + hundredths

TickAt(hhmmss, hundredths, price) ==
  [time |-> Stamp(hhmmss, hundredths), close_price |-> price]

\* A regular file with two ticks in one second and one in a bar's own second;
\* one out of order; one that begins at the first bar.
DayFiles ==
  {<<TickAt(93003, 0, 101), TickAt(93014, 20, 104), TickAt(93014, 80, 106),
     TickAt(93015, 0, 107), TickAt(93030, 0, 109)>>,
   <<TickAt(93012, 0, 105), TickAt(93005, 0, 102)>>,
   <<TickAt(93015, 0, 103)>>}

DaySpots == {101, 102, 103, 104, 105, 106, 107, 109}
DayStray == {900}
DayIVs == {20, 150}
=============================================================================
