-------------------------- MODULE MCMergeFuture --------------------------
(***************************************************************************)
(* Constants for TLC.  Every bar of every contract has its own close price *)
(* and volume, so a value shown at the wrong bar, for the wrong leg or for *)
(* the wrong pair cannot go unnoticed.                                     *)
(***************************************************************************)
EXTENDS MergeFuture

CONSTANTS c1, c2, c3, c4, p1, p2, p3, p4   \* option codes

Call(n) == <<c1, c2, c3, c4>>[n]
Put(n) == <<p1, p2, p3, p4>>[n]
Codes(n) == {Call(i) : i \in 1..n} \union {Put(i) : i \in 1..n}

\* The item of the k-th contract of a side at bar b.
ItemOf(side, k, b) ==
  [close_price |-> side * (20 * k + 3 * b * b), trade_volume |-> side * (4 ^ b) + k]

Quoted(side, k, S) == [b \in S |-> ItemOf(side, k, b)]

TableSet(n, Sets) ==
  [c \in Codes(n) |->
     LET k == CHOOSE i \in 1..n : c \in {Call(i), Put(i)}
         side == IF c = Call(k) THEN 2 ELSE 1
     IN  {Quoted(side, k, S) : S \in Sets}]

Listing(strikes) ==
  [call |-> [i \in DOMAIN strikes |-> OptionChain(Call(i), strikes[i])],
   put |-> [i \in DOMAIN strikes |-> OptionChain(Put(i), strikes[i])]]

\* Any subset of three bars may be quoted; two pairs.
CarryBars == 3
CarryTables == TableSet(2, SUBSET (1..3))
CarryListings == {Listing(<<100, 110>>)}
CarrySpots == {105}

\* Four pairs in and out of strike order around every position of the spot.
PriceBars == 1
PriceTables == TableSet(4, {{}, {1}})
PriceListings == {Listing(<<100, 110, 120, 130>>), Listing(<<120, 100, 130, 110>>)}
PriceSpots == {95, 105, 110, 115, 125, 140}

Stray == {-7, 0, 900}
=============================================================================
