------------------------ MODULE MergeFuture_proofs ------------------------
(***************************************************************************)
(* Theorems about MergeFuture for every number of bars, every listing and  *)
(* every content of the kline tables.                                      *)
(***************************************************************************)
EXTENDS MergeFuture, SequenceTheorems, WellFoundedInduction, TLAPS

\* A set of positive integers with an upper bound has a greatest element...
LEMMA GreatestExists ==
  ASSUME NEW n \in Nat, NEW S \in SUBSET (1..n), S # {}
  PROVE  \E x \in S : \A y \in S : x >= y
<1> DEFINE T == {n - x : x \in S}
           R == OpToRel(<, Nat)
<1>1. IsWellFoundedOn(R, Nat)
  BY NatLessThanWellFounded
<1>2. \A i, j \in Nat : <<i, j>> \in R <=> i < j
  BY DEF OpToRel
<1>3. T \subseteq Nat /\ T # {}
  <2>1. \A x \in S : x \in Int /\ 1 <= x /\ x <= n
    OBVIOUS
  <2>2. \A x \in S : n - x \in Nat
    BY <2>1
  <2> QED
    BY <2>2
<1> HIDE DEF R
<1>4. PICK t \in T : \A u \in T : ~(<<u, t>> \in R)
  <2> HIDE DEF T
  <2> QED
    BY <1>1, <1>3, WFMin
<1>5. PICK x \in S : t = n - x
  BY <1>4
<1>6. ASSUME NEW y \in S PROVE x >= y
  <2>1. n - y \in T /\ n - y \in Nat /\ t \in Nat
    BY <1>3
  <2>2. ~(n - y < t)
    BY <1>2, <1>4, <2>1
  <2> QED
    BY <1>5, <2>2
<1> QED
  BY <1>6

\* ... and a least one.
LEMMA LeastExists ==
  ASSUME NEW S \in SUBSET Nat, S # {}
  PROVE  \E x \in S : \A y \in S : x <= y
<1> DEFINE R == OpToRel(<, Nat)
<1>1. IsWellFoundedOn(R, Nat)
  BY NatLessThanWellFounded
<1>2. \A i, j \in Nat : <<i, j>> \in R <=> i < j
  BY DEF OpToRel
<1> HIDE DEF R
<1>3. PICK x \in S : \A y \in S : ~(<<y, x>> \in R)
  BY <1>1, WFMin
<1>4. ASSUME NEW y \in S PROVE x <= y
  <2>1. x \in Nat /\ y \in Nat
    OBVIOUS
  <2>2. ~(y < x)
    BY <1>2, <1>3, <2>1
  <2> QED
    BY <2>1, <2>2
<1> QED
  BY <1>4

LEMMA MaxInSet ==
  ASSUME NEW n \in Nat, NEW S \in SUBSET (1..n), S # {}
  PROVE  Max(S) \in S
BY GreatestExists DEF Max

LEMMA MinInSet ==
  ASSUME NEW n \in Nat, NEW S \in SUBSET (1..n), S # {}
  PROVE  Min(S) \in S
<1>1. S \in SUBSET Nat
  OBVIOUS
<1> QED
  BY <1>1, LeastExists DEF Min
-----------------------------------------------------------------------------
\* A chain new differs from a chain old in the data of contract p only.
Updated(old, new, p, item, volume) ==
  /\ new \in Seq(Contract)
  /\ Len(new) = Len(old)
  /\ \A i \in 1..Len(old) :
       /\ new[i].option_code = old[i].option_code
       /\ new[i].strike_price = old[i].strike_price
       /\ i # p => new[i] = old[i]
  /\ new[p].kline = item
  /\ new[p].total_trade_amount = volume
  /\ CodesOf(new) = CodesOf(old)

\* The assignments of one turn of the merging loop to a chain.
LEMMA ChainUpdate ==
  ASSUME NEW chain \in Seq(Contract), NEW p \in 1..Len(chain),
         NEW item \in Item, NEW volume \in Nat
  PROVE  Updated(chain, Showing(chain, p, item, volume), p, item, volume)
<1> DEFINE chain2 == Showing(chain, p, item, volume)
<1> DEFINE c == [chain[p] EXCEPT !.kline = item, !.total_trade_amount = volume]
<1>1. chain[p] \in Contract
  BY ElementOfSeq
<1>2. /\ c \in Contract
      /\ c.option_code = chain[p].option_code
      /\ c.strike_price = chain[p].strike_price
      /\ c.kline = item /\ c.total_trade_amount = volume
  BY <1>1 DEF Contract
<1>3. chain \in [1..Len(chain) -> Contract] /\ Len(chain) \in Nat
  BY LenProperties
<1>4. chain2 = [chain EXCEPT ![p] = c]
  BY <1>3 DEF Showing
<1> HIDE DEF c, chain2
<1>5. /\ chain2 \in Seq(Contract) /\ Len(chain2) = Len(chain)
      /\ \A i \in 1..Len(chain) : chain2[i] = IF i = p THEN c ELSE chain[i]
  BY <1>2, <1>4, ExceptSeq
<1>6. DOMAIN chain2 = 1..Len(chain) /\ DOMAIN chain = 1..Len(chain)
  BY <1>3, <1>4
<1>7. \A i \in 1..Len(chain) : chain2[i].option_code = chain[i].option_code
  BY <1>2, <1>5
<1>8. CodesOf(chain2) = CodesOf(chain)
  BY <1>6, <1>7 DEF CodesOf
<1>9. Updated(chain, chain2, p, item, volume)
  BY <1>2, <1>5, <1>7, <1>8 DEF Updated
<1> QED
  BY <1>9 DEF chain2
-----------------------------------------------------------------------------
\* Where the loops stand, and how long the price list is there.
LoopOK ==
  /\ option_count_ > 0
  /\ step = "merge" =>
       pair <= option_count_ /\ Len(merge_future_price_list) = pair - 1
  /\ step \in {"price", "use"} => Len(merge_future_price_list) = option_count_

DistinctCalls ==
  \A i, j \in 1..option_count_ :
    call_option_chains_[i].option_code = call_option_chains_[j].option_code => i = j

Base == TypeOK /\ LoopOK /\ DistinctCalls

\* The cache entry of pair i, and what MergePair makes of the current one.
EntryOf(i) == mfp_cache[call_option_chains_[i].option_code]
NewEntry == Refreshed(EntryOf(pair), CallItems(pair), PutItems(pair))

LEMMA CodeInCodes ==
  ASSUME NEW chain \in Seq(Contract), NEW i \in 1..Len(chain)
  PROVE  chain[i].option_code \in CodesOf(chain)
BY LenProperties DEF CodesOf

LEMMA CodeHasTable ==
  ASSUME NEW chain \in Seq(Contract), NEW c \in CodesOf(chain)
  PROVE  c \in DOMAIN QuoteTables
<1>1. PICK i \in 1..Len(chain) : c = chain[i].option_code
  BY LenProperties DEF CodesOf
<1>2. chain[i] \in Contract
  BY ElementOfSeq
<1> QED
  BY <1>1, <1>2 DEF Contract

LEMMA QuotesForType ==
  ASSUME NEW chain \in Seq(Contract), NEW q \in QuotesFor(chain)
  PROVE  DOMAIN q = CodesOf(chain) /\ \A c \in DOMAIN q : IsQuoteTable(q[c])
<1>1. DOMAIN q = CodesOf(chain) /\ \A c \in CodesOf(chain) : q[c] \in QuoteTables[c]
  BY DEF QuotesFor
<1> QED
  BY <1>1, CodeHasTable, QuoteAssumption

LEMMA FreshType == FreshCache \in MFPCache
BY DEF FreshCache, MFPCache, NoItem, Item

LEMMA BaseInit == Init => Base
<1> SUFFICES ASSUME Init PROVE Base
  OBVIOUS
<1>1. PICK l \in Listings :
        /\ call_option_chains_ = l.call
        /\ put_option_chains_ = l.put
        /\ option_count_ = Len(l.call)
        /\ call_option_quote_ \in QuotesFor(l.call)
        /\ put_option_quote_ \in QuotesFor(l.put)
  BY DEF Init
<1>2. /\ l.call \in Seq(Contract) /\ l.put \in Seq(Contract)
      /\ Len(l.call) = Len(l.put) /\ Len(l.call) > 0
      /\ \A i, j \in DOMAIN l.call :
           l.call[i].option_code = l.call[j].option_code => i = j
  BY ListingAssumption DEF ListingOK
<1>3. Len(l.call) \in Nat /\ DOMAIN l.call = 1..Len(l.call)
  BY <1>2, LenProperties
<1>4. TypeOK
  <2>1. /\ DOMAIN call_option_quote_ = CodesOf(call_option_chains_)
        /\ DOMAIN put_option_quote_ = CodesOf(put_option_chains_)
        /\ \A c \in DOMAIN call_option_quote_ : IsQuoteTable(call_option_quote_[c])
        /\ \A c \in DOMAIN put_option_quote_ : IsQuoteTable(put_option_quote_[c])
    BY <1>1, <1>2, QuotesForType
  <2>2. mfp_cache \in [CodesOf(call_option_chains_) -> MFPCache]
    BY FreshType DEF Init
  <2>3. bar \in Bars /\ pair \in 1..(option_count_ + 1)
    BY <1>1, <1>2, <1>3, BarsAssumption DEF Init, Bars
  <2>4. merge_future_price_list \in Seq(Int)
    BY EmptySeq DEF Init
  <2> QED
    BY <1>1, <1>2, <2>1, <2>2, <2>3, <2>4 DEF Init, TypeOK
<1>5. LoopOK
  BY <1>1, <1>2 DEF Init, LoopOK
<1>6. DistinctCalls
  BY <1>1, <1>2, <1>3 DEF DistinctCalls
<1> QED
  BY <1>4, <1>5, <1>6 DEF Base

LEMMA RefreshedType ==
  ASSUME NEW mc \in MFPCache, NEW call_items, NEW put_items,
         IsQuoteTable(call_items), IsQuoteTable(put_items)
  PROVE  Refreshed(mc, call_items, put_items) \in MFPCache
<1>1. CASE bar \in DOMAIN call_items \intersect DOMAIN put_items
  <2>1. call_items[bar] \in Item /\ put_items[bar] \in Item
    BY <1>1 DEF IsQuoteTable
  <2>2. /\ mc.call_total_trade_volume + call_items[bar].trade_volume \in Nat
        /\ mc.put_total_trade_volume + put_items[bar].trade_volume \in Nat
    BY <2>1 DEF Item, MFPCache
  <2> QED
    BY <1>1, <2>1, <2>2 DEF Refreshed, MFPCache
<1>2. CASE bar \notin DOMAIN call_items \intersect DOMAIN put_items
  BY <1>2 DEF Refreshed
<1> QED
  BY <1>1, <1>2

\* Everything one turn of the merging loop does and leaves alone.
LEMMA MergeStep ==
  ASSUME Base, MergePair
  PROVE  /\ pair \in 1..option_count_
         /\ NewEntry \in MFPCache
         /\ Updated(call_option_chains_, call_option_chains_', pair,
                    NewEntry.call, NewEntry.call_total_trade_volume)
         /\ Updated(put_option_chains_, put_option_chains_', pair,
                    NewEntry.put, NewEntry.put_total_trade_volume)
         /\ mfp_cache' =
              [mfp_cache EXCEPT ![call_option_chains_[pair].option_code] = NewEntry]
         /\ merge_future_price_list' =
              Append(merge_future_price_list,
                     NewEntry.call.close_price - NewEntry.put.close_price
                       + call_option_chains_[pair].strike_price)
         /\ NewEntry.call.close_price - NewEntry.put.close_price
              + call_option_chains_[pair].strike_price \in Int
<1> DEFINE mc == NewEntry
<1>1. /\ option_count_ \in Nat
      /\ pair \in 1..Len(call_option_chains_) /\ pair \in 1..Len(put_option_chains_)
      /\ option_count_ = Len(call_option_chains_) /\ option_count_ = Len(put_option_chains_)
      /\ call_option_chains_ \in Seq(Contract) /\ put_option_chains_ \in Seq(Contract)
  <2>1. /\ option_count_ = Len(call_option_chains_) /\ option_count_ = Len(put_option_chains_)
        /\ call_option_chains_ \in Seq(Contract) /\ put_option_chains_ \in Seq(Contract)
        /\ pair \in 1..(option_count_ + 1)
    BY DEF Base, TypeOK
  <2>2. option_count_ \in Nat
    BY <2>1, LenProperties
  <2>3. step = "merge"
    BY DEF MergePair
  <2>4. pair <= option_count_
    BY <2>3 DEF Base, LoopOK
  <2>5. pair \in 1..option_count_
    BY <2>1, <2>2, <2>4
  <2> QED
    BY <2>1, <2>2, <2>5
<1>2. /\ call_option_chains_[pair].option_code \in CodesOf(call_option_chains_)
      /\ put_option_chains_[pair].option_code \in CodesOf(put_option_chains_)
  BY <1>1, CodeInCodes
<1>3. /\ EntryOf(pair) \in MFPCache
      /\ IsQuoteTable(CallItems(pair)) /\ IsQuoteTable(PutItems(pair))
  BY <1>2 DEF Base, TypeOK, EntryOf, CallItems, PutItems
<1>4. mc \in MFPCache
  BY <1>3, RefreshedType DEF NewEntry
<1>5. /\ mc.call \in Item /\ mc.put \in Item
      /\ mc.call_total_trade_volume \in Nat /\ mc.put_total_trade_volume \in Nat
      /\ mc.call.close_price \in Int /\ mc.put.close_price \in Int
  BY <1>4 DEF MFPCache, Item
<1>6. /\ mfp_cache' =
           [mfp_cache EXCEPT ![call_option_chains_[pair].option_code] = mc]
      /\ merge_future_price_list' =
           Append(merge_future_price_list,
                  mc.call.close_price - mc.put.close_price
                    + call_option_chains_[pair].strike_price)
  BY DEF MergePair, NewEntry, EntryOf, CallItems, PutItems
<1> HIDE DEF mc
<1>7. call_option_chains_[pair].strike_price \in Int
  <2>1. call_option_chains_[pair] \in Contract
    BY <1>1, ElementOfSeq
  <2> QED
    BY <2>1 DEF Contract
<1>8. Updated(call_option_chains_, call_option_chains_', pair,
              mc.call, mc.call_total_trade_volume)
  <2>1. call_option_chains_' =
          Showing(call_option_chains_, pair, mc.call, mc.call_total_trade_volume)
    BY DEF mc, MergePair, NewEntry, EntryOf, CallItems, PutItems
  <2> QED
    BY <1>1, <1>5, <2>1, ChainUpdate
<1>9. Updated(put_option_chains_, put_option_chains_', pair,
              mc.put, mc.put_total_trade_volume)
  <2>1. put_option_chains_' =
          Showing(put_option_chains_, pair, mc.put, mc.put_total_trade_volume)
    BY DEF mc, MergePair, NewEntry, EntryOf, CallItems, PutItems
  <2> QED
    BY <1>1, <1>5, <2>1, ChainUpdate
<1>10. mc.call.close_price - mc.put.close_price
         + call_option_chains_[pair].strike_price \in Int
  BY <1>5, <1>7
<1> QED
  BY <1>1, <1>4, <1>6, <1>8, <1>9, <1>10 DEF mc

LEMMA MergeControl ==
  ASSUME MergePair
  PROVE  /\ step = "merge"
         /\ pair' = pair + 1
         /\ step' = IF pair = option_count_ THEN "price" ELSE "merge"
         /\ option_count_' = option_count_
         /\ call_option_quote_' = call_option_quote_
         /\ put_option_quote_' = put_option_quote_
         /\ bar' = bar
         /\ stock_close_price' = stock_close_price
         /\ merge_future_price' = merge_future_price
BY DEF MergePair, quoteVars

\* The second read of a list may leave it, the first one cannot.
LEMMA LastTwoType ==
  ASSUME TypeOK, NEW n \in Nat, n = Len(merge_future_price_list),
         NEW S \in SUBSET (1..n), NEW v \in LastTwo(S)
  PROVE  v[1] \in Int /\ v[2] \in Int
<1>1. \A i \in 1..n : merge_future_price_list[i] \in Int
  BY ElementOfSeq DEF TypeOK
<1>2. CASE S = {}
  BY <1>2 DEF LastTwo
<1>3. CASE S # {}
  <2>1. Max(S) \in 1..n
    BY <1>3, MaxInSet
  <2>2. S \ {Max(S)} # {} => Max(S \ {Max(S)}) \in 1..n
    BY MaxInSet
  <2>3. S # {Max(S)} => S \ {Max(S)} # {}
    BY <1>3
  <2> QED
    BY <1>1, <1>3, <2>1, <2>2, <2>3, PriceAssumption DEF LastTwo
<1> QED
  BY <1>2, <1>3

LEMMA FirstTwoType ==
  ASSUME TypeOK, NEW n \in Nat, n = Len(merge_future_price_list),
         NEW S \in SUBSET (1..n), NEW v \in FirstTwo(S)
  PROVE  v[1] \in Int /\ v[2] \in Int
<1>1. \A i \in 1..n : merge_future_price_list[i] \in Int
  BY ElementOfSeq DEF TypeOK
<1>2. CASE S = {}
  BY <1>2 DEF FirstTwo
<1>3. CASE S # {}
  <2>1. Min(S) \in 1..n
    BY <1>3, MinInSet
  <2>2. S \ {Min(S)} # {} => Min(S \ {Min(S)}) \in 1..n
    BY MinInSet
  <2>3. S # {Min(S)} => S \ {Min(S)} # {}
    BY <1>3
  <2> QED
    BY <1>1, <1>3, <2>1, <2>2, <2>3, PriceAssumption DEF FirstTwo
<1> QED
  BY <1>2, <1>3

LEMMA FuturePriceType ==
  ASSUME Base, step = "price", NEW p \in FuturePrices(stock_close_price)
  PROVE  p \in Int
<1>1. /\ option_count_ \in Nat /\ option_count_ = Len(merge_future_price_list)
      /\ Less(stock_close_price) \in SUBSET (1..option_count_)
      /\ Greater(stock_close_price) \in SUBSET (1..option_count_)
  BY LenProperties DEF Base, TypeOK, LoopOK, Less, Greater
<1>2. PICK v \in LastTwo(Less(stock_close_price)),
           w \in FirstTwo(Greater(stock_close_price)) :
        p = RoundQuarter(v[1] + v[2] + w[1] + w[2])
  BY DEF FuturePrices
<1>3. TypeOK
  BY DEF Base
<1>4. v[1] \in Int /\ v[2] \in Int
  BY <1>1, <1>3, LastTwoType
<1>5. w[1] \in Int /\ w[2] \in Int
  BY <1>1, <1>3, FirstTwoType
<1> DEFINE n == v[1] + v[2] + w[1] + w[2]
<1>6. n \in Int
  BY <1>4, <1>5
<1> HIDE DEF n
<1>7. RoundQuarter(n) \in Int
  BY <1>6 DEF RoundQuarter
<1> QED
  BY <1>2, <1>7 DEF n

\* The head of the loop body keeps Base, whatever the price read.
LEMMA BaseSpot ==
  ASSUME Base, NEW spot \in Int, ReadSpot(spot)
  PROVE  Base'
<1> USE DEF ReadSpot, chainVars, quoteVars
<1>1. option_count_ \in Nat
  BY LenProperties DEF Base, TypeOK
<1>2. TypeOK'
  <2>1. <<>> \in Seq(Int)
    OBVIOUS
  <2>2. pair' \in 1..(option_count_ + 1)
    BY <1>1
  <2> QED
    BY <2>1, <2>2 DEF Base, TypeOK
<1>3. LoopOK'
  BY <1>1, EmptySeq DEF Base, LoopOK
<1>4. DistinctCalls'
  BY DEF Base, DistinctCalls
<1> QED
  BY <1>2, <1>3, <1>4 DEF Base

LEMMA BaseNext == Base /\ [Next]_mergeVars => Base'
<1> SUFFICES ASSUME Base, [Next]_mergeVars PROVE Base'
  OBVIOUS
<1>1. ASSUME NEW spot \in Spots, ReadSpot(spot) PROVE Base'
  BY <1>1, PriceAssumption, BaseSpot
<1>2. CASE MergePair
  <2>1. /\ option_count_ \in Nat /\ pair \in 1..option_count_
        /\ option_count_ = Len(call_option_chains_)
        /\ option_count_ = Len(put_option_chains_)
    <3>1. /\ option_count_ = Len(call_option_chains_)
          /\ option_count_ = Len(put_option_chains_)
          /\ call_option_chains_ \in Seq(Contract)
      BY DEF Base, TypeOK
    <3> QED
      BY <1>2, <3>1, MergeStep, LenProperties
  <2>2. TypeOK'
    <3>1. /\ call_option_chains_' \in Seq(Contract) /\ put_option_chains_' \in Seq(Contract)
          /\ option_count_' = Len(call_option_chains_')
          /\ option_count_' = Len(put_option_chains_')
          /\ CodesOf(call_option_chains_') = CodesOf(call_option_chains_)
          /\ CodesOf(put_option_chains_') = CodesOf(put_option_chains_)
      BY <1>2, <2>1, MergeStep, MergeControl DEF Updated
    <3>2. mfp_cache' \in [CodesOf(call_option_chains_) -> MFPCache]
      <4>1. mfp_cache \in [CodesOf(call_option_chains_) -> MFPCache]
        BY DEF Base, TypeOK
      <4> QED
        BY <1>2, <4>1, MergeStep
    <3>3. merge_future_price_list' \in Seq(Int)
      <4>1. merge_future_price_list \in Seq(Int)
        BY DEF Base, TypeOK
      <4> QED
        BY <1>2, <4>1, MergeStep, AppendProperties
    <3>4. /\ pair' \in 1..(option_count_' + 1)
          /\ step' \in {"read", "merge", "price", "use"}
      BY <1>2, <2>1, MergeControl
    <3> QED
      BY <1>2, <3>1, <3>2, <3>3, <3>4, MergeControl DEF Base, TypeOK
  <2>3. LoopOK'
    <3>1. Len(merge_future_price_list') = Len(merge_future_price_list) + 1
      <4>1. merge_future_price_list \in Seq(Int)
        BY DEF Base, TypeOK
      <4> QED
        BY <1>2, <4>1, MergeStep, AppendProperties
    <3>2. Len(merge_future_price_list) = pair - 1 /\ option_count_ > 0
      BY <1>2, MergeControl DEF Base, LoopOK
    <3> QED
      BY <1>2, <2>1, <3>1, <3>2, MergeControl DEF LoopOK
  <2>4. DistinctCalls'
    <3>1. \A i \in 1..option_count_ :
            call_option_chains_'[i].option_code = call_option_chains_[i].option_code
      BY <1>2, <2>1, MergeStep DEF Updated
    <3> QED
      BY <1>2, <3>1, MergeControl DEF Base, DistinctCalls
  <2> QED
    BY <2>2, <2>3, <2>4 DEF Base
<1>3. CASE PriceBar
  <2> USE <1>3 DEF PriceBar, chainVars, quoteVars
  <2>1. merge_future_price' \in Int
    BY FuturePriceType
  <2> QED
    BY <2>1 DEF Base, TypeOK, LoopOK, DistinctCalls
<1>4. CASE NextBar
  <2> USE <1>4 DEF NextBar, chainVars, quoteVars, priceVars
  <2>1. bar' \in Bars
    BY BarsAssumption DEF Base, TypeOK, Bars
  <2> QED
    BY <2>1 DEF Base, TypeOK, LoopOK, DistinctCalls
<1>5. CASE UNCHANGED mergeVars
  BY <1>5 DEF mergeVars, chainVars, quoteVars, loopVars, priceVars,
              Base, TypeOK, LoopOK, DistinctCalls
<1> QED
  BY <1>1, <1>2, <1>3, <1>4, <1>5 DEF Next

LEMMA BaseHolds == Spec => []Base
BY BaseInit, BaseNext, PTL DEF Spec

\* The loop variables keep their types and their ranges; in particular no
\* access of a chain, a table or the cache leaves its container.
THEOREM TypeCorrect == Spec => []TypeOK
<1>1. Base => TypeOK
  BY DEF Base
<1> QED
  BY <1>1, BaseHolds, PTL
-----------------------------------------------------------------------------
\* The cache entry of a pair is what its two chains show.
CacheShown ==
  \A i \in 1..option_count_ :
    /\ call_option_chains_[i].kline = EntryOf(i).call
    /\ put_option_chains_[i].kline = EntryOf(i).put

LEMMA MergedBarType ==
  ASSUME TypeOK, NEW i \in 1..option_count_
  PROVE  MergedBar(i) \in Nat /\ bar \in Nat /\ bar > 0
BY BarsAssumption DEF TypeOK, MergedBar, Bars

LEMMA CommonBarsType ==
  ASSUME Base, NEW i \in 1..option_count_
  PROVE  /\ CommonBars(i) \subseteq Int
         /\ \A s \in CommonBars(i) : s > 0
         /\ CommonBars(i) = DOMAIN CallItems(i) \intersect DOMAIN PutItems(i)
<1>1. /\ option_count_ = Len(call_option_chains_) /\ option_count_ = Len(put_option_chains_)
      /\ call_option_chains_ \in Seq(Contract) /\ put_option_chains_ \in Seq(Contract)
  BY DEF Base, TypeOK
<1>2. call_option_chains_[i].option_code \in DOMAIN call_option_quote_
  BY <1>1, CodeInCodes DEF Base, TypeOK
<1>3. IsQuoteTable(CallItems(i))
  BY <1>2 DEF Base, TypeOK, CallItems
<1>4. DOMAIN CallItems(i) \subseteq 1..NBars
  BY <1>3 DEF IsQuoteTable, Bars
<1> QED
  BY <1>4 DEF CommonBars, CallItems, PutItems

\* Nothing the property reads of pair i changes but its last merged bar.
LEMMA CarrySame ==
  ASSUME NEW i \in 1..option_count_, CarryForward,
         call_option_chains_'[i].kline = call_option_chains_[i].kline,
         put_option_chains_'[i].kline = put_option_chains_[i].kline,
         call_option_chains_'[i].option_code = call_option_chains_[i].option_code,
         put_option_chains_'[i].option_code = put_option_chains_[i].option_code,
         call_option_quote_' = call_option_quote_,
         put_option_quote_' = put_option_quote_,
         MergedBar(i)' = MergedBar(i)
  PROVE  (\E s \in 0..MergedBar(i) :
            /\ LastCommonBar(i, MergedBar(i), s)
            /\ call_option_chains_[i].kline = ItemAt(CallItems(i), s)
            /\ put_option_chains_[i].kline = ItemAt(PutItems(i), s))'
<1>1. PICK s \in 0..MergedBar(i) :
        /\ LastCommonBar(i, MergedBar(i), s)
        /\ call_option_chains_[i].kline = ItemAt(CallItems(i), s)
        /\ put_option_chains_[i].kline = ItemAt(PutItems(i), s)
  BY DEF CarryForward
<1>2. /\ CallItems(i)' = CallItems(i) /\ PutItems(i)' = PutItems(i)
      /\ CommonBars(i)' = CommonBars(i)
  BY DEF CallItems, PutItems, CommonBars
<1>3. LastCommonBar(i, MergedBar(i), s)'
  BY <1>1, <1>2 DEF LastCommonBar
<1> QED
  BY <1>1, <1>2, <1>3 DEF ItemAt

CarryInv == Base /\ CacheShown /\ CarryForward

LEMMA CarryInit == Init => CarryInv
<1> SUFFICES ASSUME Init PROVE CarryInv
  OBVIOUS
<1>1. Base
  BY BaseInit
<1>2. PICK l \in Listings :
        /\ call_option_chains_ = l.call
        /\ put_option_chains_ = l.put
        /\ option_count_ = Len(l.call)
  BY DEF Init
<1>3. /\ \A i \in DOMAIN l.call : l.call[i].kline = NoItem /\ l.put[i].kline = NoItem
      /\ DOMAIN l.call = 1..option_count_
      /\ l.call \in Seq(Contract)
  BY <1>2, ListingAssumption, LenProperties DEF ListingOK
<1>4. ASSUME NEW i \in 1..option_count_
      PROVE  /\ call_option_chains_[i].kline = NoItem
             /\ put_option_chains_[i].kline = NoItem
             /\ EntryOf(i) = FreshCache
  <2>1. call_option_chains_[i].option_code \in CodesOf(call_option_chains_)
    BY <1>2, <1>3, CodeInCodes
  <2> QED
    BY <1>2, <1>3, <2>1 DEF Init, EntryOf
<1>5. CacheShown
  BY <1>4 DEF CacheShown, FreshCache
<1>6. CarryForward
  <2> SUFFICES ASSUME NEW i \in 1..option_count_
               PROVE  \E s \in 0..MergedBar(i) :
                        /\ LastCommonBar(i, MergedBar(i), s)
                        /\ call_option_chains_[i].kline = ItemAt(CallItems(i), s)
                        /\ put_option_chains_[i].kline = ItemAt(PutItems(i), s)
    BY DEF CarryForward
  <2>1. MergedBar(i) = 0
    BY DEF Init, MergedBar
  <2>2. LastCommonBar(i, 0, 0)
    BY <1>1, CommonBarsType DEF LastCommonBar
  <2>3. 0 \in 0..MergedBar(i)
    BY <2>1
  <2> QED
    BY <1>4, <2>1, <2>2, <2>3 DEF ItemAt
<1> QED
  BY <1>1, <1>5, <1>6 DEF CarryInv

\* A step that leaves chains, cache and quotes alone keeps CarryInv as long as
\* it merges nothing.
LEMMA CarryIdle ==
  ASSUME CarryInv, Base', UNCHANGED <<chainVars, quoteVars, mfp_cache>>,
         \A i \in 1..option_count_ : MergedBar(i)' = MergedBar(i)
  PROVE  CarryInv'
<1>1. /\ call_option_chains_' = call_option_chains_
      /\ put_option_chains_' = put_option_chains_
      /\ call_option_quote_' = call_option_quote_
      /\ put_option_quote_' = put_option_quote_
      /\ option_count_' = option_count_
      /\ mfp_cache' = mfp_cache
  BY DEF chainVars, quoteVars
<1>2. CacheShown'
  BY <1>1 DEF CarryInv, CacheShown, EntryOf
<1>3. CarryForward'
  BY <1>1, CarrySame DEF CarryInv, CarryForward
<1> QED
  BY <1>2, <1>3 DEF CarryInv

\* What the turn of pair p leaves of the other pairs.
LEMMA OtherPairs ==
  ASSUME CarryInv, MergePair, NEW i \in 1..option_count_, i # pair
  PROVE  /\ call_option_chains_'[i] = call_option_chains_[i]
         /\ put_option_chains_'[i] = put_option_chains_[i]
         /\ EntryOf(i)' = EntryOf(i)
         /\ MergedBar(i)' = MergedBar(i)
<1>1. /\ option_count_ \in Nat
      /\ option_count_ = Len(call_option_chains_) /\ option_count_ = Len(put_option_chains_)
      /\ call_option_chains_ \in Seq(Contract)
      /\ mfp_cache \in [CodesOf(call_option_chains_) -> MFPCache]
  BY LenProperties DEF CarryInv, Base, TypeOK
<1>2. Base /\ pair \in 1..option_count_
  BY MergeStep DEF CarryInv
<1>3. /\ call_option_chains_'[i] = call_option_chains_[i]
      /\ put_option_chains_'[i] = put_option_chains_[i]
  BY <1>1, <1>2, MergeStep DEF Updated
<1>4. EntryOf(i)' = EntryOf(i)
  <2>1. call_option_chains_[i].option_code # call_option_chains_[pair].option_code
    BY <1>2 DEF Base, DistinctCalls
  <2>2. call_option_chains_[i].option_code \in CodesOf(call_option_chains_)
    BY <1>1, CodeInCodes
  <2> QED
    BY <1>1, <1>2, <1>3, <2>1, <2>2, MergeStep DEF EntryOf
<1>5. MergedBar(i)' = MergedBar(i)
  BY <1>1, <1>2, MergeControl DEF MergedBar
<1> QED
  BY <1>3, <1>4, <1>5

\* What the turn of a pair makes of its own chains and cache entry.
LEMMA ThisPair ==
  ASSUME CarryInv, MergePair
  PROVE  /\ pair \in 1..option_count_
         /\ call_option_chains_'[pair].kline = NewEntry.call
         /\ put_option_chains_'[pair].kline = NewEntry.put
         /\ mfp_cache'[call_option_chains_'[pair].option_code] = NewEntry
         /\ CallItems(pair) = call_option_quote_'[call_option_chains_'[pair].option_code]
         /\ PutItems(pair) = put_option_quote_'[put_option_chains_'[pair].option_code]
<1>1. /\ option_count_ \in Nat
      /\ option_count_ = Len(call_option_chains_) /\ option_count_ = Len(put_option_chains_)
      /\ call_option_chains_ \in Seq(Contract)
      /\ mfp_cache \in [CodesOf(call_option_chains_) -> MFPCache]
  BY LenProperties DEF CarryInv, Base, TypeOK
<1>2. Base /\ pair \in 1..option_count_
  BY MergeStep DEF CarryInv
<1>3. /\ call_option_chains_'[pair].kline = NewEntry.call
      /\ put_option_chains_'[pair].kline = NewEntry.put
      /\ call_option_chains_'[pair].option_code = call_option_chains_[pair].option_code
      /\ put_option_chains_'[pair].option_code = put_option_chains_[pair].option_code
  BY <1>1, <1>2, MergeStep DEF Updated
<1>4. call_option_chains_[pair].option_code \in CodesOf(call_option_chains_)
  BY <1>1, <1>2, CodeInCodes
<1>5. mfp_cache'[call_option_chains_[pair].option_code] = NewEntry
  BY <1>1, <1>2, <1>4, MergeStep
<1> QED
  BY <1>2, <1>3, <1>5, MergeControl DEF CallItems, PutItems

\* The turn of a pair keeps both properties of that pair.
LEMMA CarryMerge ==
  ASSUME CarryInv, Base', MergePair
  PROVE  CarryInv'
<1> USE DEF CarryInv
<1>1. /\ option_count_' = option_count_ /\ option_count_ \in Nat
      /\ pair \in 1..option_count_
      /\ bar' = bar /\ bar \in Nat /\ bar > 0
  BY ThisPair, MergeControl, MergedBarType, LenProperties DEF Base, TypeOK
<1>2. CacheShown'
  <2> SUFFICES ASSUME NEW i \in 1..option_count_
               PROVE  (/\ call_option_chains_[i].kline = EntryOf(i).call
                       /\ put_option_chains_[i].kline = EntryOf(i).put)'
    BY <1>1 DEF CacheShown
  <2>1. CASE i = pair
    BY <2>1, ThisPair DEF EntryOf
  <2>2. CASE i # pair
    BY <2>2, OtherPairs DEF CacheShown
  <2> QED
    BY <2>1, <2>2
<1>3. CarryForward'
  <2> SUFFICES ASSUME NEW i \in 1..option_count_
               PROVE  (\E s \in 0..MergedBar(i) :
                         /\ LastCommonBar(i, MergedBar(i), s)
                         /\ call_option_chains_[i].kline = ItemAt(CallItems(i), s)
                         /\ put_option_chains_[i].kline = ItemAt(PutItems(i), s))'
    BY <1>1 DEF CarryForward
  <2>1. CASE i # pair
    <3>1. /\ call_option_quote_' = call_option_quote_
          /\ put_option_quote_' = put_option_quote_
      BY MergeControl
    <3> QED
      BY <2>1, <3>1, OtherPairs, CarrySame
  <2>2. CASE i = pair
    <3>1. MergedBar(i)' = bar /\ MergedBar(i) = bar - 1
      BY <1>1, <2>2, MergeControl DEF MergedBar
    <3>2. /\ CallItems(i)' = CallItems(i) /\ PutItems(i)' = PutItems(i)
          /\ CommonBars(i)' = CommonBars(i)
      <4>1. CallItems(i)' = CallItems(i) /\ PutItems(i)' = PutItems(i)
        BY <2>2, ThisPair DEF CallItems, PutItems
      <4> QED
        BY <4>1 DEF CommonBars, CallItems, PutItems
    <3>3. /\ CommonBars(i) \subseteq Int
          /\ \A s \in CommonBars(i) : s > 0
          /\ CommonBars(i) = DOMAIN CallItems(i) \intersect DOMAIN PutItems(i)
      BY CommonBarsType
    <3>4. CASE bar \in CommonBars(i)
      <4>1. NewEntry.call = CallItems(i)[bar] /\ NewEntry.put = PutItems(i)[bar]
        BY <2>2, <3>3, <3>4 DEF NewEntry, Refreshed
      <4>2. /\ (call_option_chains_[i].kline = ItemAt(CallItems(i), bar))'
            /\ (put_option_chains_[i].kline = ItemAt(PutItems(i), bar))'
        BY <1>1, <2>2, <3>2, <4>1, ThisPair DEF ItemAt
      <4>3. LastCommonBar(i, bar, bar)'
        BY <1>1, <3>2, <3>4 DEF LastCommonBar
      <4>4. bar \in 0..bar
        BY <1>1
      <4> QED
        BY <1>1, <3>1, <4>2, <4>3, <4>4
    <3>5. CASE bar \notin CommonBars(i)
      <4>1. PICK s \in 0..(bar - 1) :
              /\ LastCommonBar(i, bar - 1, s)
              /\ call_option_chains_[i].kline = ItemAt(CallItems(i), s)
              /\ put_option_chains_[i].kline = ItemAt(PutItems(i), s)
        BY <3>1 DEF CarryForward
      <4>2. NewEntry = EntryOf(i)
        BY <2>2, <3>3, <3>5 DEF NewEntry, Refreshed
      <4>3. /\ EntryOf(i).call = call_option_chains_[i].kline
            /\ EntryOf(i).put = put_option_chains_[i].kline
        BY DEF CacheShown
      <4>4. /\ (call_option_chains_[i].kline = ItemAt(CallItems(i), s))'
            /\ (put_option_chains_[i].kline = ItemAt(PutItems(i), s))'
        BY <2>2, <3>2, <4>1, <4>2, <4>3, ThisPair DEF ItemAt
      <4>5. LastCommonBar(i, bar, s)'
        BY <1>1, <3>2, <3>3, <3>5, <4>1 DEF LastCommonBar
      <4>6. s \in 0..bar
        BY <1>1, <4>1
      <4> QED
        BY <1>1, <3>1, <4>4, <4>5, <4>6
    <3> QED
      BY <3>4, <3>5
  <2> QED
    BY <2>1, <2>2
<1> QED
  BY <1>2, <1>3

LEMMA CarrySpot ==
  ASSUME CarryInv, NEW spot \in Int, ReadSpot(spot)
  PROVE  CarryInv'
<1>1. Base'
  BY BaseSpot DEF CarryInv
<1>2. /\ UNCHANGED <<chainVars, quoteVars, mfp_cache>>
      /\ bar' = bar /\ step = "read" /\ step' = "merge" /\ pair' = 1
  BY DEF ReadSpot
<1>3. \A i \in 1..option_count_ : MergedBar(i)' = MergedBar(i)
  BY <1>2 DEF MergedBar
<1> QED
  BY <1>1, <1>2, <1>3, CarryIdle

LEMMA CarryNext == CarryInv /\ [Next]_mergeVars => CarryInv'
<1> SUFFICES ASSUME CarryInv, [Next]_mergeVars PROVE CarryInv'
  OBVIOUS
<1>1. Base'
  BY BaseNext DEF CarryInv
<1>2. ASSUME NEW spot \in Spots, ReadSpot(spot) PROVE CarryInv'
  BY <1>2, PriceAssumption, CarrySpot
<1>3. CASE MergePair
  BY <1>1, <1>3, CarryMerge
<1>4. CASE PriceBar
  <2>1. /\ UNCHANGED <<chainVars, quoteVars, mfp_cache>>
        /\ bar' = bar /\ step = "price" /\ step' = "use" /\ pair' = pair
    BY <1>4 DEF PriceBar
  <2>2. \A i \in 1..option_count_ : MergedBar(i)' = MergedBar(i)
    BY <2>1 DEF MergedBar
  <2> QED
    BY <1>1, <2>1, <2>2, CarryIdle
<1>5. CASE NextBar
  <2>1. /\ UNCHANGED <<chainVars, quoteVars, mfp_cache>>
        /\ bar' = bar + 1 /\ step = "use" /\ step' = "read" /\ pair' = pair
    BY <1>5 DEF NextBar
  <2>2. bar \in Int
    BY DEF CarryInv, Base, TypeOK, Bars
  <2>3. \A i \in 1..option_count_ : MergedBar(i)' = MergedBar(i)
    BY <2>1, <2>2 DEF MergedBar
  <2> QED
    BY <1>1, <2>1, <2>3, CarryIdle
<1>6. CASE UNCHANGED mergeVars
  <2>1. /\ UNCHANGED <<chainVars, quoteVars, mfp_cache>>
        /\ bar' = bar /\ step' = step /\ pair' = pair
    BY <1>6 DEF mergeVars, loopVars
  <2>2. \A i \in 1..option_count_ : MergedBar(i)' = MergedBar(i)
    BY <2>1 DEF MergedBar
  <2> QED
    BY <1>1, <2>1, <2>2, CarryIdle
<1> QED
  BY <1>2, <1>3, <1>4, <1>5, <1>6 DEF Next

\* Whatever bars the two legs of a pair are quoted at, calc_and_save reads both
\* legs from one bar, the last common one.
THEOREM CarryHolds == Spec => []CarryForward
<1>1. CarryInv => CarryForward
  BY DEF CarryInv
<1> QED
  BY <1>1, CarryInit, CarryNext, PTL DEF Spec
-----------------------------------------------------------------------------
\* A quarter of a sum of four, rounded, stays between bounds of the four.
LEMMA QuarterBetween ==
  ASSUME NEW lo \in Int, NEW hi \in Int, NEW n \in Int, 4 * lo <= n, n <= 4 * hi
  PROVE  lo <= RoundQuarter(n) /\ RoundQuarter(n) <= hi
<1>1. CASE n >= 0
  <2>1. RoundQuarter(n) = (n + 2) \div 4
    BY <1>1 DEF RoundQuarter
  <2>2. lo <= (n + 2) \div 4 /\ (n + 2) \div 4 <= hi
    OBVIOUS
  <2> QED
    BY <2>1, <2>2
<1>2. CASE n < 0
  <2>1. RoundQuarter(n) = -((2 - n) \div 4)
    BY <1>2 DEF RoundQuarter
  <2>2. lo <= -((2 - n) \div 4) /\ -((2 - n) \div 4) <= hi
    OBVIOUS
  <2> QED
    BY <2>1, <2>2
<1> QED
  BY <1>1, <1>2

\* Of four integers one is the least and one the greatest.
LEMMA BoundsOfFour ==
  ASSUME NEW H \in SUBSET Int, NEW a \in H, NEW b \in H, NEW c \in H, NEW d \in H
  PROVE  \E lo, hi \in H : 4 * lo <= a + b + c + d /\ a + b + c + d <= 4 * hi
<1>1. \E lo \in {a, b, c, d} : lo <= a /\ lo <= b /\ lo <= c /\ lo <= d
  OBVIOUS
<1>2. \E hi \in {a, b, c, d} : a <= hi /\ b <= hi /\ c <= hi /\ d <= hi
  OBVIOUS
<1>3. PICK lo \in {a, b, c, d} : lo <= a /\ lo <= b /\ lo <= c /\ lo <= d
  BY <1>1
<1>4. PICK hi \in {a, b, c, d} : a <= hi /\ b <= hi /\ c <= hi /\ d <= hi
  BY <1>2
<1>5. /\ lo \in H /\ hi \in H
      /\ lo \in Int /\ hi \in Int /\ a \in Int /\ b \in Int /\ c \in Int /\ d \in Int
  OBVIOUS
<1>6. 4 * lo <= a + b + c + d /\ a + b + c + d <= 4 * hi
  BY <1>3, <1>4, <1>5
<1> QED
  BY <1>5, <1>6

\* The price list holds the synthetic prices of the pairs merged so far, and
\* the future price is made from it.
PricesShown ==
  /\ step = "merge" => \A i \in 1..(pair - 1) : merge_future_price_list[i] = Synthetic(i)
  /\ step \in {"price", "use"} =>
       \A i \in 1..option_count_ : merge_future_price_list[i] = Synthetic(i)
  /\ step = "use" => merge_future_price \in FuturePrices(stock_close_price)

LEMMA SyntheticType ==
  ASSUME Base, NEW i \in 1..option_count_
  PROVE  Synthetic(i) \in Int
<1>1. /\ option_count_ = Len(call_option_chains_) /\ option_count_ = Len(put_option_chains_)
      /\ call_option_chains_ \in Seq(Contract) /\ put_option_chains_ \in Seq(Contract)
  BY DEF Base, TypeOK
<1>2. call_option_chains_[i] \in Contract /\ put_option_chains_[i] \in Contract
  BY <1>1, ElementOfSeq
<1>3. /\ call_option_chains_[i].kline.close_price \in Int
      /\ put_option_chains_[i].kline.close_price \in Int
      /\ call_option_chains_[i].strike_price \in Int
  BY <1>2 DEF Contract, Item
<1> QED
  BY <1>3 DEF Synthetic

LEMMA PricesMerge == Base /\ PricesShown /\ MergePair => PricesShown'
<1> SUFFICES ASSUME Base, PricesShown, MergePair PROVE PricesShown'
  OBVIOUS
<1>1. /\ pair \in 1..option_count_
      /\ Updated(call_option_chains_, call_option_chains_', pair,
                 NewEntry.call, NewEntry.call_total_trade_volume)
      /\ Updated(put_option_chains_, put_option_chains_', pair,
                 NewEntry.put, NewEntry.put_total_trade_volume)
      /\ merge_future_price_list' =
           Append(merge_future_price_list,
                  NewEntry.call.close_price - NewEntry.put.close_price
                    + call_option_chains_[pair].strike_price)
      /\ NewEntry.call.close_price - NewEntry.put.close_price
           + call_option_chains_[pair].strike_price \in Int
  BY MergeStep
<1>2. /\ option_count_ \in Nat /\ merge_future_price_list \in Seq(Int)
      /\ option_count_ = Len(call_option_chains_) /\ option_count_ = Len(put_option_chains_)
  BY LenProperties DEF Base, TypeOK
<1>3. step = "merge" /\ Len(merge_future_price_list) = pair - 1
  BY DEF MergePair, Base, LoopOK
<1>4. /\ pair' = pair + 1 /\ option_count_' = option_count_
      /\ step' = IF pair = option_count_ THEN "price" ELSE "merge"
  BY DEF MergePair, quoteVars
<1>5. ASSUME NEW i \in 1..pair
      PROVE  merge_future_price_list'[i] = Synthetic(i)'
  <2>1. CASE i = pair
    <3>1. merge_future_price_list'[i] =
            NewEntry.call.close_price - NewEntry.put.close_price
              + call_option_chains_[pair].strike_price
      BY <1>1, <1>2, <1>3, <2>1, AppendProperties
    <3>2. /\ call_option_chains_'[i].kline = NewEntry.call
          /\ put_option_chains_'[i].kline = NewEntry.put
          /\ call_option_chains_'[i].strike_price = call_option_chains_[pair].strike_price
      BY <1>1, <1>2, <2>1 DEF Updated
    <3> QED
      BY <3>1, <3>2 DEF Synthetic
  <2>2. CASE i # pair
    <3>1. i \in 1..(pair - 1) /\ i \in 1..option_count_
      BY <1>1, <1>2, <2>2
    <3>2. merge_future_price_list'[i] = merge_future_price_list[i]
      BY <1>1, <1>2, <1>3, <3>1, AppendProperties
    <3>3. call_option_chains_'[i] = call_option_chains_[i]
      BY <1>1, <1>2, <2>2, <3>1 DEF Updated
    <3>4. put_option_chains_'[i] = put_option_chains_[i]
      BY <1>1, <1>2, <2>2, <3>1 DEF Updated
    <3>5. merge_future_price_list[i] = Synthetic(i)
      BY <1>3, <3>1 DEF PricesShown
    <3> QED
      BY <3>2, <3>3, <3>4, <3>5 DEF Synthetic
  <2> QED
    BY <2>1, <2>2
<1>6. \A i \in 1..pair : merge_future_price_list'[i] = Synthetic(i)'
  BY <1>5
<1>7. CASE pair = option_count_
  BY <1>4, <1>6, <1>7 DEF PricesShown
<1>8. CASE pair # option_count_
  <2>1. pair' - 1 = pair
    BY <1>1, <1>4
  <2> QED
    BY <1>4, <1>6, <1>8, <2>1 DEF PricesShown
<1> QED
  BY <1>7, <1>8

LEMMA PricesInit == Init => PricesShown
BY DEF Init, PricesShown

LEMMA PricesSpot ==
  ASSUME NEW spot, ReadSpot(spot)
  PROVE  PricesShown'
<1>1. step' = "merge" /\ pair' - 1 = 0
  BY DEF ReadSpot
<1> QED
  BY <1>1 DEF PricesShown

LEMMA PricesNext == Base /\ PricesShown /\ [Next]_mergeVars => PricesShown'
<1> SUFFICES ASSUME Base, PricesShown, [Next]_mergeVars PROVE PricesShown'
  OBVIOUS
<1>1. ASSUME NEW spot \in Spots, ReadSpot(spot) PROVE PricesShown'
  BY <1>1, PricesSpot
<1>2. CASE MergePair
  BY <1>2, PricesMerge
<1>3. CASE PriceBar
  <2>1. /\ step = "price" /\ step' = "use"
        /\ UNCHANGED <<call_option_chains_, put_option_chains_, option_count_>>
        /\ UNCHANGED <<stock_close_price, merge_future_price_list>>
        /\ merge_future_price' \in FuturePrices(stock_close_price)
    BY <1>3 DEF PriceBar, chainVars, quoteVars
  <2>2. \A i \in 1..option_count_ : merge_future_price_list'[i] = Synthetic(i)'
    BY <2>1 DEF PricesShown, Synthetic
  <2>3. FuturePrices(stock_close_price)' = FuturePrices(stock_close_price)
    BY <2>1 DEF FuturePrices, Less, Greater, LastTwo, FirstTwo
  <2> QED
    BY <2>1, <2>2, <2>3 DEF PricesShown
<1>4. CASE NextBar
  BY <1>4 DEF NextBar, PricesShown
<1>5. CASE UNCHANGED mergeVars
  <2>1. /\ UNCHANGED <<call_option_chains_, put_option_chains_, option_count_, step, pair>>
        /\ UNCHANGED <<stock_close_price, merge_future_price_list, merge_future_price>>
    BY <1>5 DEF mergeVars, chainVars, quoteVars, loopVars, priceVars
  <2>2. \A i : Synthetic(i)' = Synthetic(i)
    BY <2>1 DEF Synthetic
  <2>3. FuturePrices(stock_close_price)' = FuturePrices(stock_close_price)
    BY <2>1 DEF FuturePrices, Less, Greater, LastTwo, FirstTwo
  <2> QED
    BY <2>1, <2>2, <2>3 DEF PricesShown
<1> QED
  BY <1>1, <1>2, <1>3, <1>4, <1>5 DEF Next

\* The two prices read from a side that is not a single strike are 0, when it
\* is empty, or prices of pairs of that side.
LEMMA LastTwoShown ==
  ASSUME NEW n \in Nat, NEW S \in SUBSET (1..n), \A i \in S : S # {i}, NEW v \in LastTwo(S)
  PROVE  \/ S = {} /\ v[1] = 0 /\ v[2] = 0
         \/ \E i, j \in S : v[1] = merge_future_price_list[i] /\ v[2] = merge_future_price_list[j]
<1>1. CASE S = {}
  BY <1>1 DEF LastTwo
<1>2. CASE S # {}
  <2> DEFINE i == Max(S)
             j == Max(S \ {i})
  <2>1. i \in S
    BY <1>2, MaxInSet
  <2>2. S \ {i} # {} /\ S \ {i} \in SUBSET (1..n)
    BY <2>1
  <2>3. j \in S \ {i}
    <3> HIDE DEF i
    <3> QED
      BY <2>2, MaxInSet
  <2>4. S # {Max(S)}
    BY <2>1
  <2>5. v[1] = merge_future_price_list[i] /\ v[2] = merge_future_price_list[j]
    BY <1>2, <2>4 DEF LastTwo
  <2> HIDE DEF i, j
  <2> QED
    BY <2>1, <2>3, <2>5
<1> QED
  BY <1>1, <1>2

LEMMA FirstTwoShown ==
  ASSUME NEW n \in Nat, NEW S \in SUBSET (1..n), \A i \in S : S # {i}, NEW v \in FirstTwo(S)
  PROVE  \/ S = {} /\ v[1] = 0 /\ v[2] = 0
         \/ \E i, j \in S : v[1] = merge_future_price_list[i] /\ v[2] = merge_future_price_list[j]
<1>1. CASE S = {}
  BY <1>1 DEF FirstTwo
<1>2. CASE S # {}
  <2> DEFINE i == Min(S)
             j == Min(S \ {i})
  <2>1. i \in S
    BY <1>2, MinInSet
  <2>2. S \ {i} # {} /\ S \ {i} \in SUBSET (1..n)
    BY <2>1
  <2>3. j \in S \ {i}
    <3> HIDE DEF i
    <3> QED
      BY <2>2, MinInSet
  <2>4. S # {Min(S)}
    BY <2>1
  <2>5. v[1] = merge_future_price_list[i] /\ v[2] = merge_future_price_list[j]
    BY <1>2, <2>4 DEF FirstTwo
  <2> HIDE DEF i, j
  <2> QED
    BY <2>1, <2>3, <2>5
<1> QED
  BY <1>1, <1>2

LEMMA PricesInHull == Base /\ PricesShown => PriceInHull
<1> DEFINE less == Less(stock_close_price)
           greater == Greater(stock_close_price)
           zero == IF less = {} \/ greater = {} THEN {0} ELSE {}
           hull == {Synthetic(i) : i \in less \union greater} \union zero
<1> SUFFICES ASSUME Base, PricesShown, step = "use",
                    \A i \in 1..option_count_ : less # {i} /\ greater # {i}
             PROVE  \E lo, hi \in hull : lo <= merge_future_price /\ merge_future_price <= hi
  BY DEF PriceInHull
<1>1. option_count_ \in Nat
  BY LenProperties DEF Base, TypeOK
<1>2. less \in SUBSET (1..option_count_) /\ greater \in SUBSET (1..option_count_)
  BY DEF Less, Greater
<1>3. \A i \in 1..option_count_ : merge_future_price_list[i] = Synthetic(i)
  BY DEF PricesShown
<1>4. PICK v \in LastTwo(less), w \in FirstTwo(greater) :
        merge_future_price = RoundQuarter(v[1] + v[2] + w[1] + w[2])
  BY DEF PricesShown, FuturePrices
<1>5. hull \in SUBSET Int
  <2>1. \A i \in less \union greater : Synthetic(i) \in Int
    BY <1>2, SyntheticType
  <2>2. zero \in SUBSET Int
    OBVIOUS
  <2> HIDE DEF less, greater, zero
  <2> QED
    BY <2>1, <2>2
<1>6. v[1] \in hull /\ v[2] \in hull
  <2>1. \A i \in less : less # {i}
    BY <1>2
  <2>2. \/ less = {} /\ v[1] = 0 /\ v[2] = 0
        \/ \E i, j \in less : v[1] = merge_future_price_list[i] /\ v[2] = merge_future_price_list[j]
    <3> HIDE DEF less
    <3> QED
      BY <1>1, <1>2, <2>1, LastTwoShown
  <2>3. \A i \in less : merge_future_price_list[i] = Synthetic(i)
    BY <1>2, <1>3
  <2> HIDE DEF less, greater
  <2> QED
    BY <2>2, <2>3
<1>7. w[1] \in hull /\ w[2] \in hull
  <2>1. \A i \in greater : greater # {i}
    BY <1>2
  <2>2. \/ greater = {} /\ w[1] = 0 /\ w[2] = 0
        \/ \E i, j \in greater :
             w[1] = merge_future_price_list[i] /\ w[2] = merge_future_price_list[j]
    <3> HIDE DEF greater
    <3> QED
      BY <1>1, <1>2, <2>1, FirstTwoShown
  <2>3. \A i \in greater : merge_future_price_list[i] = Synthetic(i)
    BY <1>2, <1>3
  <2> HIDE DEF less, greater
  <2> QED
    BY <2>2, <2>3
<1> DEFINE n == v[1] + v[2] + w[1] + w[2]
<1> HIDE DEF hull, less, greater
<1>8. PICK lo, hi \in hull : 4 * lo <= n /\ n <= 4 * hi
  BY <1>5, <1>6, <1>7, BoundsOfFour DEF n
<1>9. n \in Int /\ lo \in Int /\ hi \in Int
  <2>1. lo \in Int /\ hi \in Int
    BY <1>5
  <2>2. v[1] \in Int /\ v[2] \in Int /\ w[1] \in Int /\ w[2] \in Int
    BY <1>5, <1>6, <1>7
  <2>3. n \in Int
    BY <2>2 DEF n
  <2> QED
    BY <2>1, <2>3
<1>10. merge_future_price = RoundQuarter(n)
  BY <1>4 DEF n
<1> HIDE DEF n
<1> QED
  BY <1>8, <1>9, <1>10, QuarterBetween

\* With no side of exactly one strike, the synthetic future price of a bar lies
\* between the extremes of what the pairs show at that bar.
THEOREM PriceHolds == Spec => []PriceInHull
BY PricesInit, BaseHolds, PricesNext, PricesInHull, PTL DEF Spec
=============================================================================
