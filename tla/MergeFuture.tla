---------------------------- MODULE MergeFuture ----------------------------
(***************************************************************************)
(* The bar loop of Process::process() (src/src/process.cpp): for every     *)
(* kline_time of get_time_range() the program reads the stock price,       *)
(* merges the call and put quotes of every contract pair into mfp_cache    *)
(* (first overload of merge_future_price_calc), copies the cached values   *)
(* back into the option chains and derives one synthetic future price      *)
(* from the pairs around the stock price (second overload).                *)
(*                                                                         *)
(* Prices are integers in ticks of 0.0001 and bars are the positions of    *)
(* their kline_time in get_time_range().  A quote item stands for the      *)
(* seven fields copied together from an OptionKlineItem; the close price   *)
(* and the traded volume are the two the program computes with.            *)
(***************************************************************************)
EXTENDS Integers, Sequences, FiniteSetsExt

CONSTANTS
  NBars,         \* the number of bars of a day
  Listings,      \* the pairs of option chains that pass the tests of init()
  QuoteTables,   \* QuoteTables[c]: what the kline table of contract c may hold
  Spots,         \* the stock prices
  StrayDoubles   \* what a read outside a vector<double> may return

VARIABLES
  call_option_chains_, put_option_chains_,  \* the chains, paired by position
  call_option_quote_, put_option_quote_,    \* option code -> bar -> item
  option_count_,
  mfp_cache,                                \* call option code -> MFPCache
  bar,                                      \* the bar being processed
  step,                                     \* where its loop body stands
  pair,                                     \* index of the merging loop
  stock_close_price,
  merge_future_price_list,
  merge_future_price

chainVars == <<call_option_chains_, put_option_chains_>>
quoteVars == <<call_option_quote_, put_option_quote_, option_count_>>
loopVars == <<bar, step, pair>>
priceVars == <<stock_close_price, merge_future_price_list, merge_future_price>>
mergeVars == <<chainVars, quoteVars, mfp_cache, loopVars, priceVars>>
-----------------------------------------------------------------------------
Bars == 1..NBars
Item == [close_price : Int, trade_volume : Nat]
NoItem == [close_price |-> 0, trade_volume |-> 0]

\* kline_items: a partial function from bars to items.
IsQuoteTable(items) ==
  DOMAIN items \subseteq Bars /\ items \in [DOMAIN items -> Item]

\* OptionChain: the fields the constructor sets, and those of the loop.
Contract == [option_code : DOMAIN QuoteTables, strike_price : Int,
             kline : Item, total_trade_amount : Nat, total_trade_volume : Nat]

OptionChain(code, strike) ==
  [option_code |-> code, strike_price |-> strike, kline |-> NoItem,
   total_trade_amount |-> 0, total_trade_volume |-> 0]

MFPCache == [call : Item, put : Item,
             call_total_trade_volume : Nat, put_total_trade_volume : Nat]

FreshCache == [call |-> NoItem, put |-> NoItem,
               call_total_trade_volume |-> 0, put_total_trade_volume |-> 0]

CodesOf(chain) == {chain[i].option_code : i \in DOMAIN chain}

\* A listing names a contract once, and init() has compared the two sizes.
ListingOK(l) ==
  /\ l.call \in Seq(Contract) /\ l.put \in Seq(Contract)
  /\ Len(l.call) = Len(l.put) /\ Len(l.call) > 0
  /\ \A i, j \in DOMAIN l.call :
       l.call[i].option_code = l.call[j].option_code => i = j
  /\ \A i \in DOMAIN l.call :
       /\ l.call[i].kline = NoItem /\ l.put[i].kline = NoItem
       /\ l.call[i].total_trade_amount = 0 /\ l.put[i].total_trade_amount = 0

ASSUME BarsAssumption == NBars \in Nat \ {0}
ASSUME QuoteAssumption ==
  \A c \in DOMAIN QuoteTables : \A items \in QuoteTables[c] : IsQuoteTable(items)
ASSUME ListingAssumption == \A l \in Listings : ListingOK(l)
ASSUME PriceAssumption == Spots \subseteq Int /\ StrayDoubles \subseteq Int
-----------------------------------------------------------------------------
\* The quotes of one kind that fetch_option_quote may leave for a chain.
QuotesFor(chain) ==
  {q \in [CodesOf(chain) -> UNION {QuoteTables[c] : c \in CodesOf(chain)}] :
     \A c \in CodesOf(chain) : q[c] \in QuoteTables[c]}

Init ==
  /\ \E l \in Listings :
       /\ call_option_chains_ = l.call
       /\ put_option_chains_ = l.put
       /\ option_count_ = Len(l.call)
       /\ call_option_quote_ \in QuotesFor(l.call)
       /\ put_option_quote_ \in QuotesFor(l.put)
  /\ mfp_cache = [c \in CodesOf(call_option_chains_) |-> FreshCache]
  /\ bar = 1
  /\ step = "read"
  /\ pair = 1
  /\ stock_close_price = 0
  /\ merge_future_price_list = <<>>
  /\ merge_future_price = 0

\* The head of the loop body: the stock price of the bar is known.
ReadSpot(spot) ==
  /\ step = "read"
  /\ stock_close_price' = spot
  /\ merge_future_price_list' = <<>>
  /\ pair' = 1
  /\ step' = "merge"
  /\ UNCHANGED <<chainVars, quoteVars, mfp_cache, bar, merge_future_price>>

\* Mutated form of Refreshed: the call leg alone advances when the put is missing.
RefreshedByLeg(mc, call_items, put_items) ==
  [call |-> IF bar \in DOMAIN call_items THEN call_items[bar] ELSE mc.call,
   put |-> IF bar \in DOMAIN put_items THEN put_items[bar] ELSE mc.put,
   call_total_trade_volume |-> mc.call_total_trade_volume,
   put_total_trade_volume |-> mc.put_total_trade_volume]

\* Mutated form of Refreshed: the cached volume is added again at every bar.
RefreshedRepeating(mc, call_items, put_items) ==
  LET common == bar \in DOMAIN call_items \intersect DOMAIN put_items
      call == IF common THEN call_items[bar] ELSE mc.call
      put == IF common THEN put_items[bar] ELSE mc.put
  IN  [call |-> call, put |-> put,
       call_total_trade_volume |-> mc.call_total_trade_volume + call.trade_volume,
       put_total_trade_volume |-> mc.put_total_trade_volume + put.trade_volume]

\* mc after the try block: both at() calls come before any assignment, so a
\* missing leg leaves the whole entry as the last common bar left it.
Refreshed(mc, call_items, put_items) ==
  IF bar \in DOMAIN call_items \intersect DOMAIN put_items
  THEN [call |-> call_items[bar], put |-> put_items[bar],
        call_total_trade_volume |->
          mc.call_total_trade_volume + call_items[bar].trade_volume,
        put_total_trade_volume |->
          mc.put_total_trade_volume + put_items[bar].trade_volume]
  ELSE mc

\* A chain after the cached item of contract i has been copied into it.
Showing(chain, i, item, total_volume) ==
  [chain EXCEPT ![i].kline = item, ![i].total_trade_amount = total_volume]

\* One turn of the loop over the pairs: refresh the cache entry, push the
\* pair's synthetic price, copy the entry into both chains.
MergePair ==
  /\ step = "merge"
  /\ LET call == call_option_chains_[pair]
         put == put_option_chains_[pair]
         mc == Refreshed(mfp_cache[call.option_code],
                         call_option_quote_[call.option_code],
                         put_option_quote_[put.option_code])
     IN  /\ mfp_cache' = [mfp_cache EXCEPT ![call.option_code] = mc]
         /\ merge_future_price_list' =
              Append(merge_future_price_list,
                     mc.call.close_price - mc.put.close_price + call.strike_price)
         /\ call_option_chains_' =
              Showing(call_option_chains_, pair, mc.call, mc.call_total_trade_volume)
         /\ put_option_chains_' =
              Showing(put_option_chains_, pair, mc.put, mc.put_total_trade_volume)
  /\ pair' = pair + 1
  /\ step' = IF pair = option_count_ THEN "price" ELSE "merge"
  /\ UNCHANGED <<quoteVars, bar, stock_close_price, merge_future_price>>
-----------------------------------------------------------------------------
\* less_list and greater_list, as the positions of their elements.
Less(spot) == {i \in 1..option_count_ : call_option_chains_[i].strike_price < spot}
Greater(spot) == {i \in 1..option_count_ : call_option_chains_[i].strike_price > spot}

\* Mutated form of LastTwo: both subscripts are one too large.
LastTwoShifted(S) ==
  IF S = {} THEN {<<0, 0>>} ELSE StrayDoubles \X {merge_future_price_list[Max(S)]}

\* The two prices read from one list: (0, 0) when it is empty; a list of one
\* element makes the second read fall outside the vector.
LastTwo(S) ==
  IF S = {} THEN {<<0, 0>>}
  ELSE {merge_future_price_list[Max(S)]}
         \X (IF S = {Max(S)} THEN StrayDoubles
             ELSE {merge_future_price_list[Max(S \ {Max(S)})]})

FirstTwo(S) ==
  IF S = {} THEN {<<0, 0>>}
  ELSE {merge_future_price_list[Min(S)]}
         \X (IF S = {Min(S)} THEN StrayDoubles
             ELSE {merge_future_price_list[Min(S \ {Min(S)})]})

\* m_round(n / 4), half away from zero as std::round does.
RoundQuarter(n) == IF n >= 0 THEN (n + 2) \div 4 ELSE -((2 - n) \div 4)

FuturePrices(spot) ==
  {RoundQuarter(v[1] + v[2] + w[1] + w[2]) :
     v \in LastTwo(Less(spot)), w \in FirstTwo(Greater(spot))}

\* The second overload of merge_future_price_calc.
PriceBar ==
  /\ step = "price"
  /\ merge_future_price' \in FuturePrices(stock_close_price)
  /\ step' = "use"
  /\ UNCHANGED <<chainVars, quoteVars, mfp_cache, bar, pair,
                 stock_close_price, merge_future_price_list>>

\* Mutated form of NextBar: the loop runs one bar too far.
NextBarTooFar ==
  /\ step = "use"
  /\ bar' = bar + 1 /\ step' = "read"
  /\ UNCHANGED <<chainVars, quoteVars, mfp_cache, pair, priceVars>>

\* calc_and_save has consumed the bar; the loop goes on to the next one.
NextBar ==
  /\ step = "use"
  /\ bar < NBars
  /\ bar' = bar + 1
  /\ step' = "read"
  /\ UNCHANGED <<chainVars, quoteVars, mfp_cache, pair, priceVars>>

Next == (\E spot \in Spots : ReadSpot(spot)) \/ MergePair \/ PriceBar \/ NextBar

Spec == Init /\ [][Next]_mergeVars
-----------------------------------------------------------------------------
\* The bars already merged for pair i.
MergedBar(i) ==
  IF step = "read" \/ (step = "merge" /\ pair <= i) THEN bar - 1 ELSE bar

\* The bars at which both legs of pair i have a quote.
CommonBars(i) ==
  DOMAIN call_option_quote_[call_option_chains_[i].option_code]
    \intersect DOMAIN put_option_quote_[put_option_chains_[i].option_code]

\* s is the last common bar of pair i up to bar b, or 0 when there is none.
LastCommonBar(i, b, s) ==
  /\ s = 0 \/ s \in CommonBars(i)
  /\ \A u \in CommonBars(i) : u <= b => u <= s

\* The item a chain shows when its data come from bar s of its own table.
ItemAt(items, s) == IF s = 0 THEN NoItem ELSE items[s]

CallItems(i) == call_option_quote_[call_option_chains_[i].option_code]
PutItems(i) == put_option_quote_[put_option_chains_[i].option_code]

\* Every variable has the type of its C++ counterpart, and the loop indices
\* stay inside the ranges the loops of process() run over.
TypeOK ==
  /\ call_option_chains_ \in Seq(Contract)
  /\ put_option_chains_ \in Seq(Contract)
  /\ option_count_ = Len(call_option_chains_)
  /\ option_count_ = Len(put_option_chains_)
  /\ DOMAIN call_option_quote_ = CodesOf(call_option_chains_)
  /\ DOMAIN put_option_quote_ = CodesOf(put_option_chains_)
  /\ \A c \in DOMAIN call_option_quote_ : IsQuoteTable(call_option_quote_[c])
  /\ \A c \in DOMAIN put_option_quote_ : IsQuoteTable(put_option_quote_[c])
  /\ mfp_cache \in [CodesOf(call_option_chains_) -> MFPCache]
  /\ bar \in Bars
  /\ step \in {"read", "merge", "price", "use"}
  /\ pair \in 1..(option_count_ + 1)
  /\ stock_close_price \in Int
  /\ merge_future_price_list \in Seq(Int)
  /\ merge_future_price \in Int

\* What calc_and_save reads for a pair at a bar comes from one bar for both
\* legs: the last bar, not later than the current one, at which both the call
\* and the put were quoted; zeros before the first such bar
\* (process.cpp:366, 382-408 and the copies at 415-430).
CarryForward ==
  \A i \in 1..option_count_ :
    \E s \in 0..MergedBar(i) :
      /\ LastCommonBar(i, MergedBar(i), s)
      /\ call_option_chains_[i].kline = ItemAt(CallItems(i), s)
      /\ put_option_chains_[i].kline = ItemAt(PutItems(i), s)

VolumeUpTo(items, common, b) ==
  MapThenSumSet(LAMBDA s : items[s].trade_volume, {s \in common : s <= b})

\* The accumulated volume of a leg is the sum over the common bars so far,
\* each counted once however often the cached item is shown again
\* (process.cpp:394, 402, 421, 429).
CumulativeVolume ==
  \A i \in 1..option_count_ :
    /\ call_option_chains_[i].total_trade_amount =
         VolumeUpTo(CallItems(i), CommonBars(i), MergedBar(i))
    /\ put_option_chains_[i].total_trade_amount =
         VolumeUpTo(PutItems(i), CommonBars(i), MergedBar(i))

\* call - put + strike of pair i, from what the chains show.
Synthetic(i) ==
  call_option_chains_[i].kline.close_price - put_option_chains_[i].kline.close_price
    + call_option_chains_[i].strike_price

\* With no strike list of exactly one element, the synthetic future price is a
\* mean: it lies between the extremes of the pairs' current synthetic prices,
\* to which 0 belongs only when one side has no strike at all
\* (process.cpp:454-467).
PriceInHull ==
  LET less == Less(stock_close_price)
      greater == Greater(stock_close_price)
      zero == IF less = {} \/ greater = {} THEN {0} ELSE {}
      hull == {Synthetic(i) : i \in less \union greater} \union zero
  IN  /\ step = "use"
      /\ \A i \in 1..option_count_ : less # {i} /\ greater # {i}
      => \E lo, hi \in hull : lo <= merge_future_price /\ merge_future_price <= hi

\* The "today volume" of a saved row (comment at process.cpp:301) is the
\* volume of the contract accumulated up to the row's bar.
TodayVolumeAccumulates ==
  step = "use" =>
    \A i \in 1..option_count_ :
      call_option_chains_[i].total_trade_volume =
        VolumeUpTo(CallItems(i), CommonBars(i), bar)
=============================================================================
