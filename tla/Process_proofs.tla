--------------------------- MODULE Process_proofs ---------------------------
(***************************************************************************)
(* Theorems about one Process object, for every listing, content of the    *)
(* kline tables, stock quote file and number of bars: its types, the stock *)
(* price of a bar and when there is none, the quotes and volumes of its    *)
(* rows, that it never does a thing twice, and that each of its steps is a *)
(* step of DayStore or changes nothing DayStore can see.                   *)
(***************************************************************************)
EXTENDS Process, Volume_proofs

\* The codes of the first n contracts of a chain.
FirstCodes(chain, n) == {chain[i].option_code : i \in 1..n}

\* fetch_option_quote has done the first n contracts of a chain.
Fetched(chain, quote, n) ==
  /\ quote = [c \in FirstCodes(chain, n) |-> quote[c]]
  /\ \A c \in DOMAIN quote : quote[c] \in QuoteTables[c]

\* Nothing of process() has run.
Unstarted ==
  /\ bar = 1 /\ step = "read" /\ pair = 1
  /\ stock_close_price = 0 /\ merge_future_price_list = <<>> /\ merge_future_price = 0
  /\ sql_ = <<>>

ListedChains ==
  \E l \in Listings : call_option_chains_ = l.call /\ put_option_chains_ = l.put

\* The phases up to the bar loop.
CreatedOK ==
  phase = "created" =>
    /\ IF Accepted THEN row \in 1..Len(call_option_chains_) ELSE row = 1
    /\ Fetched(call_option_chains_, call_option_quote_, row - 1)
    /\ Fetched(put_option_chains_, put_option_quote_, 0)

FetchPutOK ==
  phase = "fetch_put" =>
    /\ row \in 1..Len(put_option_chains_)
    /\ Fetched(call_option_chains_, call_option_quote_, Len(call_option_chains_))
    /\ Fetched(put_option_chains_, put_option_quote_, row - 1)

CheckOK ==
  phase \in {"check", "csv"} =>
    /\ row = 1
    /\ Fetched(call_option_chains_, call_option_quote_, Len(call_option_chains_))
    /\ Fetched(put_option_chains_, put_option_quote_, Len(put_option_chains_))

EarlyOK ==
  /\ phase \in {"created", "fetch_put", "check", "csv"} =>
       /\ Unstarted
       /\ Accepted => ListedChains
       /\ phase # "created" => Accepted
       /\ option_count_ = IF phase = "csv" THEN Len(call_option_chains_) ELSE 0
  /\ CreatedOK /\ FetchPutOK /\ CheckOK

\* What MergeFuture_proofs and Volume_proofs show to be inductive in the bar loop.
LoopInv == VolumeInv /\ PricesShown

\* A row of the buffer.
SavedRow == [time : Bars, CP : {"call", "put"}, chain : Contract]

LateOK ==
  /\ phase \in {"bars", "insert", "done", "exited"} => LoopInv /\ sql_ \in Seq(SavedRow)
  /\ phase \in {"bars", "insert"} =>
       /\ row \in 1..(option_count_ + 1)
       /\ step # "use" => row = 1
       /\ Len(sql_) = RowsBefore(bar, row)
  /\ phase = "insert" => bar = NBars /\ row = option_count_ + 1

\* The rows reach the table no earlier than the INSERT.
UnsavedOK == phase \in Running => saved = <<>>

PInv == ProcessTypeOK /\ EarlyOK /\ LateOK /\ UnsavedOK
-----------------------------------------------------------------------------
LEMMA LoopInvBase == LoopInv => Base /\ TypeOK
BY DEF LoopInv, VolumeInv, CarryInv, Base

LEMMA LoopInit == Init => LoopInv
BY VolumeInit, PricesInit DEF LoopInv

LEMMA LoopSpot ==
  ASSUME LoopInv, NEW spot \in Int, ReadSpot(spot)
  PROVE  LoopInv'
<1>1. VolumeInv'
  BY VolumeSpot DEF LoopInv
<1>2. PricesShown'
  BY PricesSpot
<1> QED
  BY <1>1, <1>2 DEF LoopInv

LEMMA LoopNext == LoopInv /\ [Next]_mergeVars => LoopInv'
BY LoopInvBase, VolumeNext, PricesNext DEF LoopInv
-----------------------------------------------------------------------------
\* One more bar of n pairs, and a whole day of them.
LEMMA OneMoreBar ==
  ASSUME NEW b \in Nat, NEW n \in Nat
  PROVE  /\ b * n \in Nat
         /\ (b + 1) * n = b * n + n
OBVIOUS

LEMMA BarsMonotone ==
  ASSUME NEW b \in Nat, NEW c \in Nat, b <= c, NEW n \in Nat
  PROVE  b * n <= c * n
OBVIOUS

LEMMA NoRows ==
  ASSUME NEW n \in Nat
  PROVE  2 * ((1 - 1) * n) + 2 * (1 - 1) = 0
<1>1. 0 * n = 0
  OBVIOUS
<1> QED
  BY <1>1

LEMMA WholeDay ==
  ASSUME NEW n \in Nat
  PROVE  /\ 2 * NBars * n = 2 * (NBars * n)
         /\ 0 <= 2 * NBars * n
<1>1. NBars \in Nat
  BY BarsAssumption
<1> QED
  BY <1>1

LEMMA RowsWithinDay ==
  ASSUME NEW n \in Nat, NEW b \in Bars, NEW r \in 1..(n + 1)
  PROVE  /\ 2 * ((b - 1) * n) + 2 * (r - 1) <= 2 * NBars * n
         /\ 2 * ((b - 1) * n) + 2 * (r - 1) \in Nat
<1>1. NBars \in Nat /\ b - 1 \in Nat /\ b \in Nat /\ b <= NBars /\ r \in Nat
  BY BarsAssumption DEF Bars
<1> DEFINE before == (b - 1) * n
           upto == b * n
           day == NBars * n
<1>2. before \in Nat /\ upto = before + n
  <2>1. (b - 1) + 1 = b
    BY <1>1
  <2> QED
    BY <1>1, <2>1, OneMoreBar
<1>3. upto <= day /\ day \in Nat
  BY <1>1, BarsMonotone, OneMoreBar
<1>4. 2 * NBars * n = 2 * day
  BY WholeDay
<1>5. r - 1 <= n /\ r - 1 \in Nat
  BY <1>1
<1> HIDE DEF before, upto, day
<1>6. 2 * before + 2 * (r - 1) <= 2 * day /\ 2 * before + 2 * (r - 1) \in Nat
  BY <1>2, <1>3, <1>5
<1> QED
  BY <1>4, <1>6 DEF before

\* A bounded set of naturals has a greatest element.
LEMMA GreatestBelow ==
  ASSUME NEW S \in SUBSET Nat, S # {}, NEW n \in Nat, \A x \in S : x <= n
  PROVE  Max(S) \in S /\ \A y \in S : y <= Max(S)
<1> DEFINE R == {n - x : x \in S}
<1>1. R \in SUBSET Nat /\ R # {}
  <2>1. PICK x \in S : TRUE
    OBVIOUS
  <2>2. n - x \in R
    BY <2>1
  <2>3. ASSUME NEW x1 \in S PROVE n - x1 \in Nat
    BY <2>3
  <2>4. \A r \in R : r \in Nat
    BY <2>3
  <2> QED
    BY <2>2, <2>4
<1>2. PICK r \in R : \A y \in R : r <= y
  BY <1>1, LeastExists
<1>3. PICK g \in S : r = n - g
  OBVIOUS
<1>4. \A y \in S : y <= g
  <2> SUFFICES ASSUME NEW y \in S PROVE y <= g
    OBVIOUS
  <2>1. n - y \in R
    OBVIOUS
  <2>2. r <= n - y /\ r = n - g
    BY <1>2, <1>3, <2>1
  <2>3. y \in Int /\ g \in Int /\ n \in Int
    OBVIOUS
  <2> HIDE DEF R
  <2> QED
    BY <2>2, <2>3
<1> QED
  BY <1>4 DEF Max

LEMMA AllCodes ==
  ASSUME NEW chain \in Seq(Contract)
  PROVE  FirstCodes(chain, Len(chain)) = CodesOf(chain)
BY LenProperties DEF FirstCodes, CodesOf

\* Both maps are empty at first.
LEMMA NothingFetched ==
  ASSUME NEW chain
  PROVE  Fetched(chain, <<>>, 0)
<1>1. FirstCodes(chain, 0) = {}
  BY DEF FirstCodes
<1>2. DOMAIN <<>> = {}
  OBVIOUS
<1>3. <<>> = [c \in {} |-> <<>>[c]]
  OBVIOUS
<1> QED
  BY <1>1, <1>2, <1>3 DEF Fetched

\* One more contract: the entry made of its answer is one of its tables.
LEMMA OneMoreQuote ==
  ASSUME ProcessTypeOK, NEW chain \in Seq(Contract), NEW n \in 1..Len(chain),
         NEW quote, NEW quote2, Fetched(chain, quote, n - 1),
         quote2 = [c \in DOMAIN quote \union {chain[n].option_code} |->
                     IF c \in DOMAIN quote THEN quote[c] ELSE KlineItems(kline_tables[c])]
  PROVE  Fetched(chain, quote2, n)
<1> DEFINE code == chain[n].option_code
<1>1. code \in DOMAIN QuoteTables
  <2>1. chain[n] \in Contract
    BY ElementOfSeq
  <2> QED
    BY <2>1 DEF Contract
<1>2. KlineItems(kline_tables[code]) \in QuoteTables[code]
  <2>1. kline_tables[code] \in KlineTables[code]
    BY <1>1 DEF ProcessTypeOK
  <2> QED
    BY <1>1, <2>1, KlineAssumption
<1>3. Len(chain) \in Nat /\ n \in Nat
  BY LenProperties
<1>4. FirstCodes(chain, n) = FirstCodes(chain, n - 1) \union {code}
  <2>1. 1..n = (1..(n - 1)) \union {n}
    BY <1>3
  <2> QED
    BY <2>1 DEF FirstCodes
<1>5. quote2 = [c \in FirstCodes(chain, n) |-> quote2[c]]
  <2>1. DOMAIN quote2 = FirstCodes(chain, n)
    BY <1>4 DEF Fetched
  <2> QED
    BY <2>1
<1>6. ASSUME NEW c \in DOMAIN quote2 PROVE quote2[c] \in QuoteTables[c]
  <2>1. CASE c \in DOMAIN quote
    BY <2>1 DEF Fetched
  <2>2. CASE c \notin DOMAIN quote
    BY <1>2, <2>2
  <2> QED
    BY <2>1, <2>2
<1> QED
  BY <1>5, <1>6 DEF Fetched
-----------------------------------------------------------------------------
\* A listing init() takes is one of Listings.
LEMMA AcceptedListed ==
  ASSUME NEW l \in Listings \union Unfit,
         l.call # <<>>, l.put # <<>>, Len(l.call) = Len(l.put)
  PROVE  l \in Listings
BY UnfitAssumption

LEMMA ProcessInitOK == ProcessInit => PInv
<1> SUFFICES ASSUME ProcessInit PROVE PInv
  OBVIOUS
<1>1. PICK l \in Listings \union Unfit :
        call_option_chains_ = l.call /\ put_option_chains_ = l.put
  BY DEF ProcessInit
<1>2. call_option_chains_ \in Seq(Contract) /\ put_option_chains_ \in Seq(Contract)
  BY <1>1, ListingAssumption, UnfitAssumption DEF ListingOK
<1>3. Len(call_option_chains_) \in Nat
  BY <1>2, LenProperties
<1>4. Accepted => ListedChains
  <2> SUFFICES ASSUME Accepted PROVE ListedChains
    OBVIOUS
  <2>1. l \in Listings
    BY <1>1, AcceptedListed DEF Accepted
  <2> QED
    BY <1>1, <2>1 DEF ListedChains
<1>5. Accepted => row \in 1..Len(call_option_chains_)
  BY <1>2, <1>3, EmptySeq, LenProperties DEF ProcessInit, Accepted
<1>6. /\ phase = "created" /\ row = 1 /\ sql_ = <<>> /\ saved = <<>>
      /\ option_count_ = 0 /\ stock_quote_doc = <<>>
      /\ call_option_quote_ = <<>> /\ put_option_quote_ = <<>>
  BY DEF ProcessInit
<1>7. ProcessTypeOK
  <2>1. row \in 1..(Len(call_option_chains_) + 1)
    BY <1>3, <1>6
  <2>2. Len(sql_) <= 2 * NBars * option_count_
    BY <1>6, BarsAssumption, EmptySeq
  <2>3. stock_quote_doc \in Seq(Tick)
    BY <1>6, EmptySeq
  <2> QED
    BY <1>6, <2>1, <2>2, <2>3 DEF ProcessTypeOK, ProcessInit, Running, Final
<1>8. EarlyOK
  <2>1. Unstarted
    BY <1>6 DEF ProcessInit, Unstarted
  <2>2. /\ Fetched(call_option_chains_, call_option_quote_, row - 1)
        /\ Fetched(put_option_chains_, put_option_quote_, 0)
    BY <1>6, NothingFetched
  <2> QED
    BY <1>4, <1>5, <1>6, <2>1, <2>2 DEF EarlyOK, CreatedOK, FetchPutOK, CheckOK
<1>9. LateOK /\ UnsavedOK
  BY <1>6 DEF LateOK, UnsavedOK
<1> QED
  BY <1>7, <1>8, <1>9 DEF PInv

\* A step that ends the object leaves everything but the database alone.
LEMMA EndingOK ==
  ASSUME PInv, UNCHANGED <<mergeVars, stock_quote_doc, bufferVars, kline_tables, schema>>,
         phase' \in Final, phase' \in {"done", "exited"} => phase = "insert",
         table' \in BOOLEAN, table' => schema, saved' \in {saved, sql_}
  PROVE  PInv'
<1>1. /\ UNCHANGED <<call_option_chains_, put_option_chains_, call_option_quote_,
                     put_option_quote_, option_count_, mfp_cache>>
      /\ UNCHANGED <<bar, step, pair, stock_close_price, merge_future_price_list,
                     merge_future_price>>
      /\ UNCHANGED <<stock_quote_doc, row, sql_, kline_tables, schema>>
  BY DEF mergeVars, chainVars, quoteVars, loopVars, priceVars, bufferVars
<1>2. phase' \in {"done", "exited"} => LoopInv' /\ TypeOK'
  <2> SUFFICES ASSUME phase' \in {"done", "exited"} PROVE LoopInv' /\ TypeOK'
    OBVIOUS
  <2>1. LoopInv
    BY DEF PInv, LateOK
  <2>2. LoopInv'
    BY <2>1, LoopNext
  <2> QED
    BY <2>2, LoopInvBase, PTL
<1>3. ProcessTypeOK'
  <2>1. phase' \in {"bars", "insert", "done", "exited"} => TypeOK'
    BY <1>2 DEF PInv, ProcessTypeOK, Final
  <2>2. saved' \in {<<>>, sql_'}
    BY <1>1 DEF PInv, ProcessTypeOK
  <2>3. /\ stock_quote_doc' \in Seq(Tick)
        /\ row' \in 1..(Len(call_option_chains_') + 1)
        /\ Len(sql_') <= 2 * NBars * option_count_'
        /\ schema' \in BOOLEAN
        /\ \A c \in DOMAIN QuoteTables : kline_tables'[c] \in KlineTables[c]
    BY <1>1 DEF PInv, ProcessTypeOK
  <2>4. table' \in BOOLEAN /\ (table' => schema')
    BY <1>1
  <2> QED
    BY <2>1, <2>2, <2>3, <2>4 DEF ProcessTypeOK
<1>4. EarlyOK'
  BY DEF EarlyOK, CreatedOK, FetchPutOK, CheckOK, Final
<1>5. LateOK'
  BY <1>1, <1>2 DEF PInv, LateOK, Final
<1>6. UnsavedOK'
  BY DEF UnsavedOK, Running, Final
<1> QED
  BY <1>3, <1>4, <1>5, <1>6 DEF PInv
-----------------------------------------------------------------------------
\* The chains of an accepted day are paired sequences of contracts.
LEMMA AcceptedChains ==
  ASSUME PInv, phase \in {"created", "fetch_put", "check", "csv"}, Accepted
  PROVE  /\ call_option_chains_ \in Seq(Contract) /\ put_option_chains_ \in Seq(Contract)
         /\ Len(call_option_chains_) \in Nat /\ Len(call_option_chains_) > 0
         /\ Len(put_option_chains_) = Len(call_option_chains_)
<1>1. PICK l \in Listings : call_option_chains_ = l.call /\ put_option_chains_ = l.put
  BY DEF PInv, EarlyOK, ListedChains
<1> QED
  BY <1>1, ListingAssumption, LenProperties DEF ListingOK

LEMMA FetchCallOK == PInv /\ FetchCall => PInv'
<1> SUFFICES ASSUME PInv, FetchCall PROVE PInv'
  OBVIOUS
<1>1. /\ phase = "created" /\ Accepted
      /\ UNCHANGED <<call_option_chains_, put_option_chains_, put_option_quote_, option_count_>>
      /\ UNCHANGED <<mfp_cache, bar, step, pair>>
      /\ UNCHANGED <<stock_close_price, merge_future_price_list, merge_future_price>>
      /\ UNCHANGED <<stock_quote_doc, sql_, kline_tables, schema, table, saved>>
  BY DEF FetchCall, FetchNext, chainVars, loopVars, priceVars, dbVars
<1>2. /\ call_option_chains_ \in Seq(Contract) /\ put_option_chains_ \in Seq(Contract)
      /\ Len(call_option_chains_) \in Nat /\ Len(call_option_chains_) > 0
      /\ Len(put_option_chains_) = Len(call_option_chains_)
  BY <1>1, AcceptedChains
<1>3. /\ row \in 1..Len(call_option_chains_)
      /\ Fetched(call_option_chains_, call_option_quote_, row - 1)
      /\ Fetched(put_option_chains_, put_option_quote_, 0)
  BY <1>1 DEF PInv, EarlyOK, CreatedOK
<1>4. /\ call_option_quote_' =
           [c \in DOMAIN call_option_quote_ \union {call_option_chains_[row].option_code} |->
              IF c \in DOMAIN call_option_quote_ THEN call_option_quote_[c]
              ELSE KlineItems(kline_tables[c])]
      /\ row' = IF row < Len(call_option_chains_) THEN row + 1 ELSE 1
      /\ phase' = IF row < Len(call_option_chains_) THEN "created" ELSE "fetch_put"
  BY <1>1 DEF FetchCall, FetchNext
<1>5. ProcessTypeOK
  BY DEF PInv
<1>6. Fetched(call_option_chains_, call_option_quote_', row)
  BY <1>2, <1>3, <1>4, <1>5, OneMoreQuote
<1>7. ProcessTypeOK'
  BY <1>1, <1>2, <1>3, <1>4, <1>5 DEF ProcessTypeOK, Running, Final
<1>8. EarlyOK'
  <2>1. Unstarted' /\ Accepted' /\ ListedChains' /\ option_count_' = 0
    BY <1>1 DEF PInv, EarlyOK, Unstarted, Accepted, ListedChains
  <2>2. CreatedOK'
    BY <1>1, <1>2, <1>3, <1>4, <1>6, <2>1 DEF CreatedOK
  <2>3. FetchPutOK'
    <3> SUFFICES ASSUME phase' = "fetch_put"
                 PROVE  /\ row' \in 1..Len(put_option_chains_)
                        /\ Fetched(call_option_chains_, call_option_quote_',
                                   Len(call_option_chains_))
                        /\ Fetched(put_option_chains_, put_option_quote_, row' - 1)
      BY <1>1 DEF FetchPutOK, Fetched, FirstCodes
    <3>1. row = Len(call_option_chains_) /\ row' = 1
      BY <1>2, <1>3, <1>4
    <3>2. row' - 1 = 0
      BY <3>1
    <3> QED
      BY <1>1, <1>2, <1>3, <1>6, <3>1, <3>2
  <2> QED
    BY <1>4, <2>1, <2>2, <2>3 DEF EarlyOK, CheckOK
<1>9. LateOK' /\ UnsavedOK'
  BY <1>1, <1>4 DEF PInv, LateOK, UnsavedOK, Running
<1> QED
  BY <1>7, <1>8, <1>9 DEF PInv

LEMMA FetchPutStepOK == PInv /\ FetchPut => PInv'
<1> SUFFICES ASSUME PInv, FetchPut PROVE PInv'
  OBVIOUS
<1>1. /\ phase = "fetch_put" /\ Accepted
      /\ UNCHANGED <<call_option_chains_, put_option_chains_, call_option_quote_, option_count_>>
      /\ UNCHANGED <<mfp_cache, bar, step, pair>>
      /\ UNCHANGED <<stock_close_price, merge_future_price_list, merge_future_price>>
      /\ UNCHANGED <<stock_quote_doc, sql_, kline_tables, schema, table, saved>>
  BY DEF PInv, EarlyOK, FetchPut, FetchNext, chainVars, loopVars, priceVars, dbVars
<1>2. /\ call_option_chains_ \in Seq(Contract) /\ put_option_chains_ \in Seq(Contract)
      /\ Len(call_option_chains_) \in Nat /\ Len(call_option_chains_) > 0
      /\ Len(put_option_chains_) = Len(call_option_chains_)
  BY <1>1, AcceptedChains
<1>3. /\ row \in 1..Len(put_option_chains_)
      /\ Fetched(call_option_chains_, call_option_quote_, Len(call_option_chains_))
      /\ Fetched(put_option_chains_, put_option_quote_, row - 1)
  BY <1>1 DEF PInv, EarlyOK, FetchPutOK
<1>4. /\ put_option_quote_' =
           [c \in DOMAIN put_option_quote_ \union {put_option_chains_[row].option_code} |->
              IF c \in DOMAIN put_option_quote_ THEN put_option_quote_[c]
              ELSE KlineItems(kline_tables[c])]
      /\ row' = IF row < Len(put_option_chains_) THEN row + 1 ELSE 1
      /\ phase' = IF row < Len(put_option_chains_) THEN "fetch_put" ELSE "check"
  BY <1>1 DEF FetchPut, FetchNext
<1>5. ProcessTypeOK
  BY DEF PInv
<1>6. Fetched(put_option_chains_, put_option_quote_', row)
  BY <1>2, <1>3, <1>4, <1>5, OneMoreQuote
<1>7. ProcessTypeOK'
  BY <1>1, <1>2, <1>3, <1>4, <1>5 DEF ProcessTypeOK, Running, Final
<1>8. EarlyOK'
  <2>1. Unstarted' /\ Accepted' /\ ListedChains' /\ option_count_' = 0
    BY <1>1 DEF PInv, EarlyOK, Unstarted, Accepted, ListedChains
  <2>2. FetchPutOK'
    BY <1>1, <1>2, <1>3, <1>4, <1>6 DEF FetchPutOK
  <2>3. CheckOK'
    <3> SUFFICES ASSUME phase' = "check"
                 PROVE  /\ row' = 1
                        /\ Fetched(call_option_chains_, call_option_quote_,
                                   Len(call_option_chains_))
                        /\ Fetched(put_option_chains_, put_option_quote_',
                                   Len(put_option_chains_))
      BY <1>1, <1>4 DEF CheckOK
    <3>1. row = Len(put_option_chains_) /\ row' = 1
      BY <1>2, <1>3, <1>4
    <3> QED
      BY <1>3, <1>6, <3>1
  <2> QED
    BY <1>4, <2>1, <2>2, <2>3 DEF EarlyOK, CreatedOK
<1>9. LateOK' /\ UnsavedOK'
  BY <1>1, <1>4 DEF PInv, LateOK, UnsavedOK, Running
<1> QED
  BY <1>7, <1>8, <1>9 DEF PInv

LEMMA CheckSchemaOK == PInv /\ CheckSchema => PInv'
<1> SUFFICES ASSUME PInv, CheckSchema PROVE PInv'
  OBVIOUS
<1>1. /\ phase = "check" /\ Accepted
      /\ UNCHANGED <<call_option_chains_, put_option_chains_>>
      /\ UNCHANGED <<call_option_quote_, put_option_quote_>>
      /\ UNCHANGED <<mfp_cache, bar, step, pair>>
      /\ UNCHANGED <<stock_close_price, merge_future_price_list, merge_future_price>>
      /\ UNCHANGED <<stock_quote_doc, row, sql_, kline_tables, schema, saved>>
  BY DEF PInv, EarlyOK, CheckSchema, chainVars, loopVars, priceVars, bufferVars
<1>2. CASE schema
  <2>1. table' = TRUE /\ option_count_' = Len(call_option_chains_) /\ phase' = "csv"
    BY <1>2 DEF CheckSchema
  <2>2. Unstarted /\ ListedChains /\ CheckOK
    BY <1>1 DEF PInv, EarlyOK
  <2>3. ProcessTypeOK'
    <3>1. Len(sql_') = 0 /\ option_count_' \in Nat
      BY <1>1, <2>1, <2>2, AcceptedChains, EmptySeq DEF Unstarted
    <3>2. Len(sql_') <= 2 * NBars * option_count_'
      <4>1. 0 <= 2 * NBars * option_count_'
        BY <3>1, WholeDay
      <4> QED
        BY <3>1, <4>1
    <3> QED
      BY <1>1, <1>2, <2>1, <3>2 DEF PInv, ProcessTypeOK, Running
  <2>4. EarlyOK'
    <3>1. Unstarted' /\ ListedChains' /\ Accepted'
      BY <1>1, <2>2 DEF Unstarted, ListedChains, Accepted
    <3>2. CheckOK'
      BY <1>1, <2>1, <2>2 DEF CheckOK
    <3> QED
      BY <1>1, <2>1, <3>1, <3>2 DEF EarlyOK, CreatedOK, FetchPutOK
  <2>5. LateOK' /\ UnsavedOK'
    BY <1>1, <2>1 DEF PInv, LateOK, UnsavedOK, Running
  <2> QED
    BY <2>3, <2>4, <2>5 DEF PInv
<1>3. CASE ~schema
  <2>1. UNCHANGED <<table, option_count_>> /\ phase' = "aborted"
    BY <1>3 DEF CheckSchema
  <2>2. UNCHANGED <<mergeVars, stock_quote_doc, bufferVars, kline_tables, schema>>
    BY <1>1, <2>1 DEF mergeVars, chainVars, quoteVars, loopVars, priceVars, bufferVars
  <2>3. table' \in BOOLEAN /\ (table' => schema) /\ saved' = saved
    BY <1>1, <2>1 DEF PInv, ProcessTypeOK
  <2> QED
    BY <2>1, <2>2, <2>3, EndingOK DEF Final
<1> QED
  BY <1>2, <1>3

\* What the fetches of a chain leave is what MergeFuture starts from.
LEMMA FetchedQuotes ==
  ASSUME NEW chain \in Seq(Contract), NEW quote, Fetched(chain, quote, Len(chain))
  PROVE  quote \in QuotesFor(chain)
<1>1. quote = [c \in CodesOf(chain) |-> quote[c]]
  BY AllCodes DEF Fetched
<1>2. \A c \in CodesOf(chain) : quote[c] \in QuoteTables[c]
  <2>1. DOMAIN quote = CodesOf(chain)
    BY <1>1
  <2> QED
    BY <2>1 DEF Fetched
<1> QED
  BY <1>1, <1>2 DEF QuotesFor

\* The bar loop of an object starts in an initial state of MergeFuture.
LEMMA LoopStarts == PInv /\ ReadCsv => Init'
<1> SUFFICES ASSUME PInv, ReadCsv PROVE Init'
  OBVIOUS
<1>1. /\ phase = "csv" /\ Accepted
      /\ UNCHANGED <<call_option_chains_, put_option_chains_, call_option_quote_,
                     put_option_quote_, option_count_>>
      /\ UNCHANGED <<bar, step, pair>>
      /\ UNCHANGED <<stock_close_price, merge_future_price_list, merge_future_price>>
      /\ mfp_cache' = [c \in CodesOf(call_option_chains_) |-> FreshCache]
  BY DEF PInv, EarlyOK, ReadCsv, chainVars, quoteVars, loopVars, priceVars
<1>2. /\ Unstarted /\ CheckOK
      /\ option_count_ = Len(call_option_chains_)
  BY <1>1 DEF PInv, EarlyOK
<1>3. PICK l \in Listings : call_option_chains_ = l.call /\ put_option_chains_ = l.put
  BY <1>1 DEF PInv, EarlyOK, ListedChains
<1>4. call_option_chains_ \in Seq(Contract) /\ put_option_chains_ \in Seq(Contract)
  BY <1>1, AcceptedChains
<1>5. call_option_quote_ \in QuotesFor(call_option_chains_)
  <2>1. Fetched(call_option_chains_, call_option_quote_, Len(call_option_chains_))
    BY <1>1, <1>2 DEF CheckOK
  <2> QED
    BY <1>4, <2>1, FetchedQuotes
<1>6. put_option_quote_ \in QuotesFor(put_option_chains_)
  <2>1. Fetched(put_option_chains_, put_option_quote_, Len(put_option_chains_))
    BY <1>1, <1>2 DEF CheckOK
  <2> QED
    BY <1>4, <2>1, FetchedQuotes
<1>7. \E l1 \in Listings :
        /\ call_option_chains_' = l1.call
        /\ put_option_chains_' = l1.put
        /\ option_count_' = Len(l1.call)
        /\ call_option_quote_' \in QuotesFor(l1.call)
        /\ put_option_quote_' \in QuotesFor(l1.put)
  BY <1>1, <1>2, <1>3, <1>5, <1>6
<1> QED
  BY <1>1, <1>2, <1>7 DEF Init, Unstarted

LEMMA ReadCsvOK == PInv /\ ReadCsv => PInv'
<1> SUFFICES ASSUME PInv, ReadCsv PROVE PInv'
  OBVIOUS
<1>1. /\ phase = "csv" /\ phase' = "bars"
      /\ UNCHANGED <<call_option_chains_, put_option_chains_, option_count_>>
      /\ UNCHANGED <<bar, step, row, sql_, kline_tables, schema, table, saved>>
      /\ stock_quote_doc' \in TickFiles
  BY DEF ReadCsv, chainVars, quoteVars, loopVars, bufferVars, dbVars
<1>2. /\ Unstarted /\ row = 1 /\ Accepted /\ option_count_ = Len(call_option_chains_)
  BY <1>1 DEF PInv, EarlyOK, CheckOK
<1>3. LoopInv'
  <2>1. Init'
    BY LoopStarts
  <2>2. Init' => LoopInv'
    BY LoopInit, PTL
  <2> QED
    BY <2>1, <2>2
<1>4. ProcessTypeOK'
  <2>1. TypeOK'
    BY <1>3 DEF LoopInv, VolumeInv, CarryInv, Base
  <2>2. stock_quote_doc' \in Seq(Tick)
    BY <1>1, TickAssumption
  <2> QED
    BY <1>1, <2>1, <2>2 DEF PInv, ProcessTypeOK, Running
<1>5. EarlyOK'
  BY <1>1 DEF EarlyOK, CreatedOK, FetchPutOK, CheckOK
<1>6. LateOK'
  <2>1. sql_' = <<>> /\ bar' = 1 /\ row' = 1 /\ step' = "read"
    BY <1>1, <1>2 DEF Unstarted
  <2>2. option_count_' \in Nat
    BY <1>1, <1>2, AcceptedChains
  <2>3. Len(sql_') = RowsBefore(bar, row)'
    <3>1. RowsBefore(bar, row)' = 2 * ((1 - 1) * option_count_') + 2 * (1 - 1)
      BY <2>1 DEF RowsBefore
    <3> QED
      BY <2>1, <2>2, <3>1, NoRows, EmptySeq
  <2> QED
    BY <1>1, <1>3, <2>1, <2>2, <2>3, EmptySeq DEF LateOK
<1>7. UnsavedOK'
  BY <1>1 DEF PInv, UnsavedOK, Running
<1> QED
  BY <1>4, <1>5, <1>6, <1>7 DEF PInv
-----------------------------------------------------------------------------
\* The key of the last tick of a second before bar b, and that tick.
Second(i) == DateTimeKey(stock_quote_doc[i].time, TRUE)

\* find_idx returns the last tick in file order of the latest second before v.
LEMMA TickFound ==
  ASSUME stock_quote_doc \in Seq(Tick), NEW v \in Nat,
         find_idx(stock_date_time_indexes, v) # -1
  PROVE  LET i == find_idx(stock_date_time_indexes, v) + 1
         IN  /\ i \in DOMAIN stock_quote_doc
             /\ Second(i) < v
             /\ \A j \in DOMAIN stock_quote_doc :
                  \/ Second(j) >= v
                  \/ Second(j) < Second(i)
                  \/ Second(j) = Second(i) /\ j <= i
<1> DEFINE rows == DOMAIN stock_quote_doc
           m == stock_date_time_indexes
           At(k) == {i \in rows : Second(i) = k}
           earlier == {k \in DOMAIN m : k < v}
<1>1. rows = 1..Len(stock_quote_doc) /\ Len(stock_quote_doc) \in Nat
  BY LenProperties
<1>2. \A i \in rows : Second(i) \in Nat
  <2> SUFFICES ASSUME NEW i \in rows PROVE Second(i) \in Nat
    OBVIOUS
  <2>1. stock_quote_doc[i] \in Tick
    BY <1>1, ElementOfSeq
  <2>2. stock_quote_doc[i].time \in Nat
    BY <2>1 DEF Tick
  <2> QED
    BY <2>2 DEF Second, DateTimeKey
<1>3. DOMAIN m = {Second(i) : i \in rows}
  BY DEF stock_date_time_indexes, Second
<1>4. ASSUME NEW k \in DOMAIN m
      PROVE  /\ m[k] = Max(At(k)) - 1
             /\ Max(At(k)) \in At(k)
             /\ \A j \in At(k) : j <= Max(At(k))
  <2>1. m[k] = Max(At(k)) - 1
    BY <1>3 DEF stock_date_time_indexes, Second
  <2>2. At(k) # {}
    BY <1>3
  <2>3. At(k) \in SUBSET Nat /\ \A j \in At(k) : j <= Len(stock_quote_doc)
    BY <1>1
  <2> HIDE DEF At, m
  <2> QED
    BY <1>1, <2>1, <2>2, <2>3, GreatestBelow
<1>5. earlier # {}
  BY DEF find_idx
<1>6. find_idx(m, v) = m[Max(earlier)]
  BY <1>5 DEF find_idx
<1>7. Max(earlier) \in earlier /\ \A k \in earlier : k <= Max(earlier)
  <2>1. earlier \in SUBSET Nat /\ \A k \in earlier : k <= v
    BY <1>2, <1>3
  <2> HIDE DEF earlier
  <2> QED
    BY <1>5, <2>1, GreatestBelow
<1> DEFINE top == Max(earlier)
           i0 == find_idx(m, v) + 1
<1>8. top \in DOMAIN m /\ top < v /\ \A k \in DOMAIN m : k < v => k <= top
  BY <1>7
<1> HIDE DEF top
<1>9. i0 = Max(At(top)) /\ i0 \in At(top) /\ \A j \in At(top) : j <= i0
  <2>1. m[top] = Max(At(top)) - 1 /\ Max(At(top)) \in At(top) /\ \A j \in At(top) : j <= Max(At(top))
    BY <1>4, <1>8
  <2>2. find_idx(m, v) = m[top]
    BY <1>6 DEF top
  <2>3. Max(At(top)) \in Int
    BY <1>1, <2>1
  <2> HIDE DEF m, At
  <2> QED
    BY <2>1, <2>2, <2>3
<1>10. i0 \in rows /\ Second(i0) = top
  BY <1>9
<1>11. ASSUME NEW j \in rows, Second(j) < v
       PROVE  Second(j) < top \/ (Second(j) = top /\ j <= i0)
  <2>1. Second(j) \in DOMAIN m
    BY <1>3
  <2>2. Second(j) <= top /\ Second(j) \in Nat /\ top \in Nat
    BY <1>2, <1>8, <1>10, <1>11, <2>1
  <2>3. Second(j) = top => j \in At(top)
    OBVIOUS
  <2> HIDE DEF i0, At
  <2> QED
    BY <1>9, <2>2, <2>3
<1>12. \A j \in rows : Second(j) \in Nat
  BY <1>2
<1>13. /\ i0 \in rows /\ Second(i0) < v
       /\ \A j \in rows : \/ Second(j) >= v
                          \/ Second(j) < Second(i0)
                          \/ Second(j) = Second(i0) /\ j <= i0
  <2> HIDE DEF i0, m
  <2> QED
    BY <1>8, <1>10, <1>11, <1>12
<1> QED
  BY <1>13
-----------------------------------------------------------------------------
\* What holds throughout the bar loop.
LEMMA LoopFacts ==
  ASSUME PInv, phase = "bars"
  PROVE  /\ LoopInv /\ TypeOK
         /\ option_count_ \in Nat /\ option_count_ > 0
         /\ option_count_ = Len(call_option_chains_)
         /\ option_count_ = Len(put_option_chains_)
         /\ call_option_chains_ \in Seq(Contract) /\ put_option_chains_ \in Seq(Contract)
         /\ bar \in Bars
         /\ row \in 1..(option_count_ + 1)
         /\ step # "use" => row = 1
         /\ sql_ \in Seq(SavedRow)
         /\ Len(sql_) = RowsBefore(bar, row)
<1>1. LoopInv /\ TypeOK /\ LoopOK
  BY DEF PInv, LateOK, LoopInv, VolumeInv, CarryInv, Base
<1>2. option_count_ \in Nat
  BY <1>1, LenProperties DEF TypeOK
<1> QED
  BY <1>1, <1>2 DEF PInv, LateOK, TypeOK, LoopOK

\* A step inside the bar loop, given what it does to the buffer.
LEMMA BarStepOK ==
  ASSUME PInv, phase = "bars", phase' = "bars", LoopInv',
         UNCHANGED <<option_count_, stock_quote_doc, kline_tables, schema, table, saved>>,
         sql_' \in Seq(SavedRow), row' \in 1..(option_count_ + 1),
         step' # "use" => row' = 1,
         Len(sql_') = 2 * ((bar' - 1) * option_count_) + 2 * (row' - 1)
  PROVE  PInv'
<1>1. TypeOK' /\ option_count_ \in Nat
  BY LoopFacts DEF LoopInv, VolumeInv, CarryInv, Base
<1>2. option_count_ = Len(call_option_chains_')
  BY <1>1 DEF TypeOK
<1>3. Len(sql_') <= 2 * NBars * option_count_
  <2>1. bar' \in Bars
    BY <1>1 DEF TypeOK
  <2>2. 2 * ((bar' - 1) * option_count_) + 2 * (row' - 1) <= 2 * NBars * option_count_
    BY <1>1, <2>1, RowsWithinDay
  <2> QED
    BY <2>2
<1>4. saved' = <<>>
  BY DEF PInv, UnsavedOK, Running
<1>5. ProcessTypeOK'
  <2>1. phase' \in Running \union Final
    BY DEF Running
  <2>2. row' \in 1..(Len(call_option_chains_') + 1)
    BY <1>2
  <2>3. Len(sql_') <= 2 * NBars * option_count_'
    BY <1>3
  <2>4. /\ stock_quote_doc' \in Seq(Tick)
        /\ schema' \in BOOLEAN /\ table' \in BOOLEAN /\ (table' => schema')
        /\ \A c \in DOMAIN QuoteTables : kline_tables'[c] \in KlineTables[c]
    BY DEF PInv, ProcessTypeOK
  <2> QED
    BY <1>1, <1>4, <2>1, <2>2, <2>3, <2>4 DEF ProcessTypeOK
<1>6. EarlyOK'
  BY DEF EarlyOK, CreatedOK, FetchPutOK, CheckOK
<1>7. LateOK'
  BY DEF LateOK, RowsBefore
<1>8. UnsavedOK'
  BY <1>4 DEF UnsavedOK
<1> QED
  BY <1>5, <1>6, <1>7, <1>8 DEF PInv

LEMMA StartBarOK == PInv /\ StartBar => PInv'
<1> SUFFICES ASSUME PInv, StartBar PROVE PInv'
  OBVIOUS
<1>1. /\ phase = "bars" /\ phase' = "bars"
      /\ UNCHANGED <<stock_quote_doc, row, sql_, kline_tables, schema, table, saved>>
  BY DEF StartBar, bufferVars, dbVars
<1>2. /\ step = "read" /\ step' = "merge"
      /\ bar' = bar /\ option_count_' = option_count_
  BY DEF StartBar, ReadSpot, quoteVars
<1> DEFINE i == TickBefore(bar) + 1
<1>3. stock_quote_doc[i].close_price \in Int
  <2>1. stock_quote_doc \in Seq(Tick) /\ BarTime[bar] \in Nat
    BY <1>1, LoopFacts, BarTimeAssumption DEF PInv, ProcessTypeOK
  <2>2. find_idx(stock_date_time_indexes, BarTime[bar]) # -1
    BY DEF StartBar, TickBefore
  <2>3. i \in DOMAIN stock_quote_doc
    BY <2>1, <2>2, TickFound DEF TickBefore
  <2>4. stock_quote_doc[i] \in Tick
    BY <2>1, <2>3, LenProperties, ElementOfSeq
  <2> QED
    BY <2>4 DEF Tick
<1>4. ReadSpot(stock_quote_doc[i].close_price)
  BY DEF StartBar
<1>5. LoopInv'
  BY <1>1, <1>3, <1>4, LoopFacts, LoopSpot
<1> QED
  BY <1>1, <1>2, <1>5, LoopFacts, BarStepOK DEF RowsBefore

LEMMA MergeQuotesOK == PInv /\ MergeQuotes => PInv'
<1> SUFFICES ASSUME PInv, MergeQuotes PROVE PInv'
  OBVIOUS
<1>1. /\ phase = "bars" /\ phase' = "bars"
      /\ UNCHANGED <<stock_quote_doc, row, sql_, kline_tables, schema, table, saved>>
  BY DEF MergeQuotes, bufferVars, dbVars
<1>2. bar' = bar /\ option_count_' = option_count_ /\ step # "use"
  BY DEF MergeQuotes, MergePair, PriceBar, quoteVars
<1>3. LoopInv'
  <2>1. [Next]_mergeVars
    BY DEF MergeQuotes, Next
  <2> QED
    BY <1>1, <2>1, LoopFacts, LoopNext
<1>4. row = 1 /\ option_count_ \in Nat
  BY <1>1, <1>2, LoopFacts
<1> QED
  BY <1>1, <1>2, <1>3, <1>4, LoopFacts, BarStepOK DEF RowsBefore

LEMMA CalcAndSaveOK == PInv /\ CalcAndSave => PInv'
<1> SUFFICES ASSUME PInv, CalcAndSave PROVE PInv'
  OBVIOUS
<1>1. /\ phase = "bars" /\ phase' = "bars" /\ step = "use" /\ row <= option_count_
      /\ row' = row + 1
      /\ UNCHANGED <<mergeVars, stock_quote_doc, kline_tables, schema, table, saved>>
  BY DEF CalcAndSave, dbVars
<1>2. step' = step /\ bar' = bar /\ option_count_' = option_count_
  BY <1>1 DEF mergeVars, loopVars, quoteVars
<1>3. LoopInv'
  <2>1. [Next]_mergeVars
    BY <1>1
  <2> QED
    BY <1>1, <2>1, LoopFacts, LoopNext
<1> DEFINE call_row == RowOf("call", call_option_chains_[row])
           put_row == RowOf("put", put_option_chains_[row])
<1>4. /\ bar \in Bars /\ option_count_ \in Nat /\ row \in 1..option_count_
      /\ row \in 1..Len(call_option_chains_) /\ row \in 1..Len(put_option_chains_)
      /\ call_option_chains_ \in Seq(Contract) /\ put_option_chains_ \in Seq(Contract)
      /\ sql_ \in Seq(SavedRow) /\ Len(sql_) = RowsBefore(bar, row)
  BY <1>1, LoopFacts
<1>5. call_row \in SavedRow /\ put_row \in SavedRow
  <2>1. call_option_chains_[row] \in Contract /\ put_option_chains_[row] \in Contract
    BY <1>4, ElementOfSeq
  <2> QED
    BY <1>4, <2>1 DEF RowOf, SavedRow
<1>6. sql_' = sql_ \o <<call_row, put_row>>
  BY DEF CalcAndSave
<1> HIDE DEF call_row, put_row
<1>7. /\ <<call_row, put_row>> \in Seq(SavedRow) /\ Len(<<call_row, put_row>>) = 2
  BY <1>5
<1>8. sql_' \in Seq(SavedRow) /\ Len(sql_') = Len(sql_) + 2
  BY <1>4, <1>6, <1>7, ConcatProperties
<1>9. Len(sql_') = 2 * ((bar' - 1) * option_count_) + 2 * (row' - 1)
  <2> DEFINE before == 2 * ((bar - 1) * option_count_)
  <2>1. before \in Nat
    <3>1. bar - 1 \in Nat
      BY <1>4, BarsAssumption DEF Bars
    <3>2. (bar - 1) * option_count_ \in Nat
      BY <1>4, <3>1, OneMoreBar
    <3> QED
      BY <3>2
  <2>2. Len(sql_) = before + 2 * (row - 1)
    BY <1>4 DEF RowsBefore
  <2>3. before = 2 * ((bar' - 1) * option_count_)
    BY <1>2
  <2> HIDE DEF before
  <2>4. Len(sql_') = before + 2 * (row' - 1)
    BY <1>1, <1>4, <1>8, <2>1, <2>2
  <2> QED
    BY <2>3, <2>4
<1>10. row' \in 1..(option_count_ + 1)
  BY <1>1, <1>4
<1> QED
  BY <1>1, <1>2, <1>3, <1>8, <1>9, <1>10, BarStepOK

LEMMA EndBarOK == PInv /\ EndBar => PInv'
<1> SUFFICES ASSUME PInv, EndBar PROVE PInv'
  OBVIOUS
<1>1. /\ phase = "bars" /\ phase' = "bars" /\ step = "use" /\ row > option_count_
      /\ row' = 1
      /\ UNCHANGED <<stock_quote_doc, sql_, kline_tables, schema, table, saved>>
  BY DEF EndBar, dbVars
<1>2. step' = "read" /\ bar' = bar + 1 /\ option_count_' = option_count_
  BY DEF EndBar, NextBar, quoteVars
<1>3. LoopInv'
  <2>1. [Next]_mergeVars
    BY DEF EndBar, Next
  <2> QED
    BY <1>1, <2>1, LoopFacts, LoopNext
<1>4. /\ bar \in Nat /\ bar - 1 \in Nat /\ option_count_ \in Nat
      /\ row = option_count_ + 1
      /\ sql_ \in Seq(SavedRow) /\ Len(sql_) = RowsBefore(bar, row)
  BY <1>1, LoopFacts, BarsAssumption DEF Bars
<1>5. Len(sql_') = 2 * ((bar' - 1) * option_count_) + 2 * (row' - 1)
  <2> DEFINE before == (bar - 1) * option_count_
             after == bar * option_count_
  <2>1. before \in Nat /\ after = before + option_count_
    <3>1. (bar - 1) + 1 = bar
      BY <1>4
    <3> QED
      BY <1>4, <3>1, OneMoreBar
  <2>2. Len(sql_) = 2 * before + 2 * (row - 1)
    BY <1>4 DEF RowsBefore
  <2>3. bar' - 1 = bar
    BY <1>2, <1>4
  <2>4. after = (bar' - 1) * option_count_
    BY <2>3
  <2> HIDE DEF before, after
  <2>5. Len(sql_') = 2 * after + 2 * (row' - 1)
    BY <1>1, <1>4, <2>1, <2>2
  <2> QED
    BY <2>4, <2>5
<1>6. sql_' \in Seq(SavedRow) /\ row' \in 1..(option_count_ + 1)
  BY <1>1, <1>4
<1> QED
  BY <1>1, <1>2, <1>3, <1>5, <1>6, BarStepOK

LEMMA EndBarsOK == PInv /\ EndBars => PInv'
<1> SUFFICES ASSUME PInv, EndBars PROVE PInv'
  OBVIOUS
<1>1. /\ phase = "bars" /\ phase' = "insert" /\ step = "use" /\ row > option_count_
      /\ bar = NBars
      /\ UNCHANGED <<mergeVars, stock_quote_doc, row, sql_>>
      /\ UNCHANGED <<kline_tables, schema, table, saved>>
  BY DEF EndBars, bufferVars, dbVars
<1>2. UNCHANGED <<call_option_chains_, option_count_, bar, step>>
  BY <1>1 DEF mergeVars, chainVars, quoteVars, loopVars
<1>3. LoopInv'
  <2>1. [Next]_mergeVars
    BY <1>1
  <2> QED
    BY <1>1, <2>1, LoopFacts, LoopNext
<1>4. TypeOK'
  BY <1>3 DEF LoopInv, VolumeInv, CarryInv, Base
<1>5. row = option_count_ + 1 /\ sql_ \in Seq(SavedRow) /\ Len(sql_) = RowsBefore(bar, row)
  BY <1>1, LoopFacts
<1>6. ProcessTypeOK'
  <2>1. phase' \in Running
    BY <1>1 DEF Running
  <2> QED
    BY <1>1, <1>2, <1>4, <2>1 DEF PInv, ProcessTypeOK
<1>7. EarlyOK'
  BY <1>1 DEF EarlyOK, CreatedOK, FetchPutOK, CheckOK
<1>8. LateOK'
  <2>1. RowsBefore(bar, row)' = RowsBefore(bar, row)
    BY <1>1, <1>2 DEF RowsBefore
  <2>2. row' \in 1..(option_count_' + 1) /\ row' = option_count_' + 1
    BY <1>1, <1>2, <1>5, LoopFacts
  <2> QED
    BY <1>1, <1>2, <1>3, <1>5, <2>1, <2>2 DEF LateOK
<1>9. UnsavedOK'
  BY <1>1 DEF PInv, UnsavedOK, Running
<1> QED
  BY <1>6, <1>7, <1>8, <1>9 DEF PInv
-----------------------------------------------------------------------------
\* When the INSERT is sent, nothing is stored and the buffer is not empty.
LEMMA InsertFacts ==
  ASSUME PInv, phase = "insert"
  PROVE  /\ saved = <<>> /\ sql_ # <<>>
         /\ saved \o sql_ = sql_
<1>1. /\ LoopInv /\ sql_ \in Seq(SavedRow)
      /\ bar = NBars /\ row = option_count_ + 1 /\ Len(sql_) = RowsBefore(bar, row)
  BY DEF PInv, LateOK
<1>2. option_count_ \in Nat /\ option_count_ > 0
  BY <1>1, LenProperties DEF LoopInv, VolumeInv, CarryInv, Base, TypeOK, LoopOK
<1>3. Len(sql_) > 0
  <2> DEFINE before == (bar - 1) * option_count_
  <2>1. before \in Nat
    <3>1. bar - 1 \in Nat
      BY <1>1, BarsAssumption
    <3> QED
      BY <1>2, <3>1, OneMoreBar
  <2>2. Len(sql_) = 2 * before + 2 * option_count_
    <3>1. Len(sql_) = 2 * before + 2 * (row - 1)
      BY <1>1 DEF RowsBefore
    <3>2. row - 1 = option_count_
      BY <1>1, <1>2
    <3> QED
      BY <3>1, <3>2
  <2> HIDE DEF before
  <2> QED
    BY <1>2, <2>1, <2>2
<1>4. sql_ # <<>>
  BY <1>3, EmptySeq
<1>5. saved = <<>>
  BY DEF PInv, UnsavedOK, Running
<1> QED
  BY <1>1, <1>4, <1>5, ConcatProperties, ConcatEmptySeq

LEMMA RefuseOK == PInv /\ Refuse => PInv'
<1> SUFFICES ASSUME PInv, Refuse PROVE PInv'
  OBVIOUS
<1>1. /\ UNCHANGED <<mergeVars, stock_quote_doc, bufferVars, kline_tables, schema>>
      /\ UNCHANGED <<table, saved>> /\ phase' = "skipped"
  BY DEF Refuse, dbVars
<1> QED
  BY <1>1, EndingOK DEF PInv, ProcessTypeOK, Final

LEMMA UncaughtErrorOK == PInv /\ UncaughtError => PInv'
<1> SUFFICES ASSUME PInv, UncaughtError PROVE PInv'
  OBVIOUS
<1>1. /\ UNCHANGED <<mergeVars, stock_quote_doc, bufferVars, kline_tables, schema>>
      /\ UNCHANGED saved /\ phase' = "aborted"
      /\ table' = table \/ (schema /\ table' = TRUE)
  BY DEF UncaughtError, TableCreatedUnseen
<1>2. table \in BOOLEAN /\ (table => schema)
  BY DEF PInv, ProcessTypeOK
<1>3. table' \in BOOLEAN
  BY <1>1, <1>2
<1>4. table' => schema
  BY <1>1, <1>2
<1> QED
  BY <1>1, <1>3, <1>4, EndingOK DEF Final

LEMMA AssertionFailsOK == PInv /\ AssertionFails => PInv'
<1> SUFFICES ASSUME PInv, AssertionFails PROVE PInv'
  OBVIOUS
<1>1. /\ UNCHANGED <<mergeVars, stock_quote_doc, bufferVars, kline_tables, schema>>
      /\ UNCHANGED <<table, saved>> /\ phase' = "aborted"
  BY DEF AssertionFails, dbVars
<1> QED
  BY <1>1, EndingOK DEF PInv, ProcessTypeOK, Final

LEMMA InsertsOK == PInv /\ (Insert \/ InsertError) => PInv'
<1> SUFFICES ASSUME PInv, Insert \/ InsertError PROVE PInv'
  OBVIOUS
<1>1. /\ UNCHANGED <<mergeVars, stock_quote_doc, bufferVars, kline_tables, schema>>
      /\ UNCHANGED table /\ phase = "insert" /\ phase' \in Final
      /\ saved' \in {saved, saved \o sql_}
  BY DEF Insert, InsertError, Final
<1>2. saved' \in {saved, sql_}
  BY <1>1, InsertFacts
<1>3. table' \in BOOLEAN /\ (table' => schema)
  BY <1>1 DEF PInv, ProcessTypeOK
<1> QED
  BY <1>1, <1>2, <1>3, EndingOK

LEMMA KilledOK == PInv /\ Killed => PInv'
<1> SUFFICES ASSUME PInv, Killed PROVE PInv'
  OBVIOUS
<1>1. /\ UNCHANGED <<mergeVars, stock_quote_doc, bufferVars, kline_tables, schema>>
      /\ phase' = "killed"
      /\ table' = table \/ (schema /\ table' = TRUE)
  BY DEF Killed, TableCreatedUnseen
<1>2. saved' \in {saved, sql_}
  BY InsertFacts DEF Killed
<1>3. table \in BOOLEAN /\ (table => schema)
  BY DEF PInv, ProcessTypeOK
<1>4. table' \in BOOLEAN
  BY <1>1, <1>3
<1>5. table' => schema
  BY <1>1, <1>3
<1> QED
  BY <1>1, <1>2, <1>4, <1>5, EndingOK DEF Final

LEMMA ProcessIdleOK == PInv /\ UNCHANGED processVars => PInv'
<1> SUFFICES ASSUME PInv, UNCHANGED processVars PROVE PInv'
  OBVIOUS
<1>1. /\ UNCHANGED <<call_option_chains_, put_option_chains_, call_option_quote_,
                     put_option_quote_, option_count_, mfp_cache>>
      /\ UNCHANGED <<bar, step, pair, stock_close_price, merge_future_price_list,
                     merge_future_price>>
      /\ UNCHANGED <<phase, stock_quote_doc, row, sql_, kline_tables, schema, table, saved>>
      /\ UNCHANGED mergeVars
  BY DEF processVars, mergeVars, chainVars, quoteVars, loopVars, priceVars, bufferVars, dbVars
<1>2. TypeOK' = TypeOK
  BY <1>1 DEF TypeOK
<1>3. ProcessTypeOK'
  BY <1>1, <1>2 DEF PInv, ProcessTypeOK
<1>4. EarlyOK'
  BY <1>1 DEF PInv, EarlyOK, CreatedOK, FetchPutOK, CheckOK, Unstarted, Accepted,
              ListedChains, Fetched, FirstCodes
<1>5. LateOK'
  <2>1. phase' \in {"bars", "insert", "done", "exited"} => LoopInv'
    BY <1>1, LoopNext DEF PInv, LateOK
  <2> QED
    BY <1>1, <2>1 DEF PInv, LateOK, RowsBefore
<1>6. UnsavedOK'
  BY <1>1 DEF PInv, UnsavedOK
<1> QED
  BY <1>3, <1>4, <1>5, <1>6 DEF PInv

LEMMA ProcessNextOK == PInv /\ [ProcessNext]_processVars => PInv'
<1> SUFFICES ASSUME PInv, [ProcessNext]_processVars PROVE PInv'
  OBVIOUS
<1>1. CASE Step
  BY <1>1, RefuseOK, FetchCallOK, FetchPutStepOK, CheckSchemaOK, ReadCsvOK, StartBarOK,
     MergeQuotesOK, CalcAndSaveOK, EndBarOK, EndBarsOK, InsertsOK DEF Step
<1>2. CASE UncaughtError \/ AssertionFails \/ InsertError \/ Killed
  BY <1>2, UncaughtErrorOK, AssertionFailsOK, InsertsOK, KilledOK
<1>3. CASE UNCHANGED processVars
  BY <1>3, ProcessIdleOK
<1> QED
  BY <1>1, <1>2, <1>3 DEF ProcessNext

LEMMA PInvHolds == ProcessSpec => []PInv
BY ProcessInitOK, ProcessNextOK, PTL DEF ProcessSpec

\* The phases of an object, its buffer and its database keep their types, the
\* buffer never outgrows the day, and the table holds none or all of it.
THEOREM ObjectTypes == ProcessSpec => []ProcessTypeOK
<1>1. PInv => ProcessTypeOK
  BY DEF PInv
<1> QED
  BY <1>1, PInvHolds, PTL

\* The bar loop of an object, started from what its fetches left, keeps the
\* promises of MergeFuture: both legs of a pair come from one bar ...
THEOREM LoopCarries ==
  ProcessSpec => [](phase \in {"bars", "insert"} => CarryForward)
<1>1. PInv => (phase \in {"bars", "insert"} => CarryForward)
  BY DEF PInv, LateOK, LoopInv, VolumeInv, CarryInv
<1> QED
  BY <1>1, PInvHolds, PTL

\* ... the accumulated volumes of a pair count each of its common bars once ...
THEOREM LoopAddsVolumes ==
  ProcessSpec => [](phase \in {"bars", "insert"} => CumulativeVolume)
<1>1. PInv => (phase \in {"bars", "insert"} => CumulativeVolume)
  BY DEF PInv, LateOK, LoopInv, VolumeInv
<1> QED
  BY <1>1, PInvHolds, PTL

\* ... and the synthetic future price of a bar is a mean of what its pairs show.
THEOREM LoopPrices ==
  ProcessSpec => [](phase \in {"bars", "insert"} => PriceInHull)
<1>1. PInv => (phase \in {"bars", "insert"} => PriceInHull)
  BY LoopInvBase, PricesInHull DEF PInv, LateOK, LoopInv
<1> QED
  BY <1>1, PInvHolds, PTL
-----------------------------------------------------------------------------
\* A step inside the body of a bar keeps the price the bar started with.
LEMMA LookStays ==
  ASSUME NoLookAhead, phase = "bars", step # "read",
         UNCHANGED <<stock_quote_doc, stock_close_price, bar>>
  PROVE  NoLookAhead'
BY DEF NoLookAhead

LEMMA StartBarLooksBack ==
  ASSUME PInv, StartBar
  PROVE  NoLookAhead'
<1> DEFINE i == TickBefore(bar) + 1
<1>1. phase = "bars" /\ stock_quote_doc \in Seq(Tick) /\ BarTime[bar] \in Nat
  BY LoopFacts, BarTimeAssumption DEF StartBar, PInv, ProcessTypeOK
<1>2. find_idx(stock_date_time_indexes, BarTime[bar]) # -1
  BY DEF StartBar, TickBefore
<1>3. /\ i \in DOMAIN stock_quote_doc
      /\ Second(i) < BarTime[bar]
      /\ \A j \in DOMAIN stock_quote_doc :
           \/ Second(j) >= BarTime[bar]
           \/ Second(j) < Second(i)
           \/ Second(j) = Second(i) /\ j <= i
  BY <1>1, <1>2, TickFound DEF TickBefore
<1>4. /\ stock_close_price' = stock_quote_doc[i].close_price
      /\ stock_quote_doc' = stock_quote_doc /\ bar' = bar
  BY DEF StartBar, ReadSpot
<1> HIDE DEF i
<1> QED
  BY <1>3, <1>4 DEF NoLookAhead, Second, DateTimeKey

LEMMA LookNext == PInv /\ NoLookAhead /\ [ProcessNext]_processVars => NoLookAhead'
<1> SUFFICES ASSUME PInv, NoLookAhead, [ProcessNext]_processVars, phase' = "bars", step' # "read"
             PROVE  NoLookAhead'
  BY DEF NoLookAhead
<1>1. CASE ReadCsv
  <2>1. step' = "read"
    BY <1>1 DEF ReadCsv, PInv, EarlyOK, Unstarted, loopVars
  <2> QED
    BY <2>1
<1>2. CASE StartBar
  BY <1>2, StartBarLooksBack
<1>3. CASE MergeQuotes
  <2>1. /\ phase = "bars" /\ step # "read"
        /\ UNCHANGED <<stock_quote_doc, stock_close_price, bar>>
    BY <1>3 DEF MergeQuotes, MergePair, PriceBar
  <2> QED
    BY <2>1, LookStays
<1>4. CASE CalcAndSave
  <2>1. /\ phase = "bars" /\ step # "read"
        /\ UNCHANGED <<stock_quote_doc, stock_close_price, bar>>
    BY <1>4 DEF CalcAndSave, mergeVars, loopVars, priceVars
  <2> QED
    BY <2>1, LookStays
<1>5. CASE EndBar
  BY <1>5 DEF EndBar, NextBar
<1>6. CASE UNCHANGED processVars
  <2>1. /\ phase = "bars" /\ step # "read"
        /\ UNCHANGED <<stock_quote_doc, stock_close_price, bar>>
    BY <1>6 DEF processVars, mergeVars, loopVars, priceVars
  <2> QED
    BY <2>1, LookStays
<1>7. ASSUME \/ Refuse \/ FetchCall \/ FetchPut \/ CheckSchema \/ EndBars \/ Insert
             \/ UncaughtError \/ AssertionFails \/ InsertError \/ Killed
      PROVE  FALSE
  BY <1>7 DEF Refuse, FetchCall, FetchPut, FetchNext, CheckSchema, EndBars, Insert,
              UncaughtError, AssertionFails, InsertError, Killed
<1> QED
  BY <1>1, <1>2, <1>3, <1>4, <1>5, <1>6, <1>7 DEF ProcessNext, Step

\* Whatever the order of the ticks in the file, the price of a bar was quoted
\* before the bar, and no more recent one was.
THEOREM PricesLookBack == ProcessSpec => []NoLookAhead
<1>1. ProcessInit => NoLookAhead
  BY DEF ProcessInit, NoLookAhead
<1> QED
  BY <1>1, LookNext, PInvHolds, PTL DEF ProcessSpec
-----------------------------------------------------------------------------
LEMMA KeysAreSeconds ==
  /\ DOMAIN stock_date_time_indexes = {Second(i) : i \in DOMAIN stock_quote_doc}
  /\ \A k \in DOMAIN stock_date_time_indexes :
       stock_date_time_indexes[k] = Max({i \in DOMAIN stock_quote_doc : Second(i) = k}) - 1
BY DEF stock_date_time_indexes, Second

\* No row index is mistaken for the answer "none", so that the lookup fails just
\* when the file has no tick of an earlier second.
LEMMA TickExists ==
  ASSUME stock_quote_doc \in Seq(Tick), NEW v \in Nat
  PROVE  find_idx(stock_date_time_indexes, v) # -1 <=>
           \E j \in DOMAIN stock_quote_doc : Second(j) < v
<1> DEFINE m == stock_date_time_indexes
           earlier == {k \in DOMAIN m : k < v}
<1>1. ASSUME find_idx(m, v) # -1
      PROVE  \E j \in DOMAIN stock_quote_doc : Second(j) < v
  BY <1>1, TickFound
<1>2. ASSUME NEW j \in DOMAIN stock_quote_doc, Second(j) < v
      PROVE  find_idx(m, v) # -1
  <2>1. DOMAIN stock_quote_doc = 1..Len(stock_quote_doc) /\ Len(stock_quote_doc) \in Nat
    BY LenProperties
  <2>2. \A i \in DOMAIN stock_quote_doc : Second(i) \in Nat
    <3> SUFFICES ASSUME NEW i \in DOMAIN stock_quote_doc PROVE Second(i) \in Nat
      OBVIOUS
    <3>1. stock_quote_doc[i] \in Tick
      BY <2>1, ElementOfSeq
    <3>2. stock_quote_doc[i].time \in Nat
      BY <3>1 DEF Tick
    <3> QED
      BY <3>2 DEF Second, DateTimeKey
  <2>3. earlier # {} /\ earlier \in SUBSET Nat /\ \A k \in earlier : k <= v
    BY <1>2, <2>2, KeysAreSeconds
  <2>4. find_idx(m, v) = m[Max(earlier)]
    BY <2>3 DEF find_idx
  <2>5. Max(earlier) \in earlier
    <3> HIDE DEF earlier
    <3> QED
      BY <2>3, GreatestBelow
  <2> DEFINE top == Max(earlier)
             rows == {i \in DOMAIN stock_quote_doc : Second(i) = top}
  <2>6. top \in DOMAIN m
    BY <2>5
  <2> HIDE DEF top, m
  <2>7. rows # {} /\ rows \in SUBSET Nat /\ \A i \in rows : i >= 1 /\ i <= Len(stock_quote_doc)
    BY <2>1, <2>6, KeysAreSeconds DEF m
  <2>8. m[top] = Max(rows) - 1
    BY <2>6, KeysAreSeconds DEF m
  <2>9. Max(rows) \in rows
    <3> HIDE DEF rows
    <3> QED
      BY <2>1, <2>7, GreatestBelow
  <2>10. Max(rows) \in Nat /\ Max(rows) >= 1
    <3> HIDE DEF rows
    <3> QED
      BY <2>7, <2>9
  <2>11. find_idx(m, v) = Max(rows) - 1
    BY <2>4, <2>8 DEF top
  <2> HIDE DEF rows
  <2> QED
    BY <2>10, <2>11
<1> QED
  BY <1>1, <1>2

\* The file stays as it is and the bars ascend, so a tick found once is found
\* again.
LEMMA TickForLaterBars ==
  ASSUME stock_quote_doc \in Seq(Tick), NEW b \in Bars, NEW c \in Bars, b < c,
         TickBefore(b) # -1
  PROVE  TickBefore(c) # -1
<1>1. BarTime[b] \in Nat /\ BarTime[c] \in Nat /\ BarTime[b] < BarTime[c]
  BY BarTimeAssumption
<1>2. PICK j \in DOMAIN stock_quote_doc : Second(j) < BarTime[b]
  BY <1>1, TickExists DEF TickBefore
<1>3. Second(j) \in Int
  <2>1. stock_quote_doc[j] \in Tick
    BY LenProperties, ElementOfSeq
  <2>2. stock_quote_doc[j].time \in Nat
    BY <2>1 DEF Tick
  <2> QED
    BY <2>2 DEF Second, DateTimeKey
<1>4. Second(j) < BarTime[c]
  BY <1>1, <1>2, <1>3
<1> QED
  BY <1>1, <1>4, TickExists DEF TickBefore

\* Past the first lookup of a day every lookup succeeds.
TickKnown == phase = "bars" /\ (step # "read" \/ bar # 1) => TickBefore(bar) # -1

LEMMA TickStays ==
  ASSUME TickKnown, phase = "bars", step # "read" \/ bar # 1,
         UNCHANGED <<stock_quote_doc, bar>>
  PROVE  TickKnown'
BY DEF TickKnown, TickBefore, stock_date_time_indexes

LEMMA TickKnownNext == PInv /\ TickKnown /\ [ProcessNext]_processVars => TickKnown'
<1> SUFFICES ASSUME PInv, TickKnown, [ProcessNext]_processVars, phase' = "bars",
                    step' # "read" \/ bar' # 1
             PROVE  TickKnown'
  BY DEF TickKnown
<1>1. CASE ReadCsv
  <2>1. step' = "read" /\ bar' = 1
    BY <1>1 DEF ReadCsv, PInv, EarlyOK, Unstarted, loopVars
  <2> QED
    BY <2>1
<1>2. CASE StartBar
  BY <1>2 DEF StartBar, ReadSpot, TickKnown, TickBefore, stock_date_time_indexes
<1>3. CASE MergeQuotes
  <2>1. phase = "bars" /\ step # "read" /\ UNCHANGED <<stock_quote_doc, bar>>
    BY <1>3 DEF MergeQuotes, MergePair, PriceBar
  <2> QED
    BY <2>1, TickStays
<1>4. CASE CalcAndSave
  <2>1. phase = "bars" /\ step # "read" /\ UNCHANGED <<stock_quote_doc, bar>>
    BY <1>4 DEF CalcAndSave, mergeVars, loopVars
  <2> QED
    BY <2>1, TickStays
<1>5. CASE EndBar
  <2>1. /\ phase = "bars" /\ step = "use" /\ bar < NBars /\ bar' = bar + 1
        /\ stock_quote_doc' = stock_quote_doc
    BY <1>5 DEF EndBar, NextBar
  <2>2. bar \in Bars /\ bar' \in Bars /\ bar < bar'
    BY <2>1, LoopFacts, BarsAssumption DEF Bars
  <2>3. TickBefore(bar) # -1
    BY <2>1 DEF TickKnown
  <2>4. TickBefore(bar') # -1
    BY <2>2, <2>3, TickForLaterBars DEF PInv, ProcessTypeOK
  <2> QED
    BY <2>1, <2>4 DEF TickKnown, TickBefore, stock_date_time_indexes
<1>6. CASE UNCHANGED processVars
  <2>1. phase = "bars" /\ step' = step /\ UNCHANGED <<stock_quote_doc, bar>>
    BY <1>6 DEF processVars, mergeVars, loopVars
  <2> QED
    BY <2>1, TickStays
<1>7. ASSUME \/ Refuse \/ FetchCall \/ FetchPut \/ CheckSchema \/ EndBars \/ Insert
             \/ UncaughtError \/ AssertionFails \/ InsertError \/ Killed
      PROVE  FALSE
  BY <1>7 DEF Refuse, FetchCall, FetchPut, FetchNext, CheckSchema, EndBars, Insert,
              UncaughtError, AssertionFails, InsertError, Killed
<1> QED
  BY <1>1, <1>2, <1>3, <1>4, <1>5, <1>6, <1>7 DEF ProcessNext, Step

\* Whatever the file holds, assert(idx != -1) strikes at the first bar or never.
THEOREM FirstBarDecides == ProcessSpec => []OnlyFirstBarLacksTick
<1>1. ProcessInit => TickKnown
  BY DEF ProcessInit, TickKnown
<1>2. PInv /\ TickKnown => OnlyFirstBarLacksTick
  <2> SUFFICES ASSUME PInv, TickKnown, phase = "bars", TickBefore(bar) = -1
               PROVE  bar = 1 /\ sql_ = <<>>
    BY DEF OnlyFirstBarLacksTick
  <2>1. bar = 1 /\ step = "read"
    BY DEF TickKnown
  <2>2. /\ row = 1 /\ option_count_ \in Nat
        /\ sql_ \in Seq(SavedRow) /\ Len(sql_) = RowsBefore(bar, row)
    BY <2>1, LoopFacts
  <2>3. Len(sql_) = 0
    BY <2>1, <2>2 DEF RowsBefore
  <2> QED
    BY <2>1, <2>2, <2>3, EmptySeq
<1> QED
  BY <1>1, <1>2, TickKnownNext, PInvHolds, PTL DEF ProcessSpec
-----------------------------------------------------------------------------
\* The safety half of Termination: a day takes no step back and none in place,
\* so that with the bounds of ProcessTypeOK it can only take finitely many.
THEOREM DayGoesForward == ProcessSpec => NeverBack
<1>1. ASSUME PInv, ProcessNext PROVE Forward
  <2> USE DEF Forward
  <2>1. phase = "fetch_put" \/ (phase = "created" /\ Accepted) => row \in Nat
    <3>1. CASE phase = "created" /\ Accepted
      BY <1>1, <3>1, AcceptedChains DEF PInv, EarlyOK, CreatedOK
    <3>2. CASE phase = "fetch_put"
      <4>1. Accepted
        BY <1>1, <3>2 DEF PInv, EarlyOK
      <4>2. Len(put_option_chains_) \in Nat
        BY <1>1, <3>2, <4>1, AcceptedChains
      <4> QED
        BY <1>1, <3>2, <4>2 DEF PInv, EarlyOK, FetchPutOK
    <3> QED
      BY <3>1, <3>2, Zenon
  <2>2. phase = "bars" => bar \in Nat /\ pair \in Nat /\ row \in Nat
    <3> SUFFICES ASSUME phase = "bars" PROVE bar \in Nat /\ pair \in Nat /\ row \in Nat
      OBVIOUS
    <3>1. bar \in Bars /\ option_count_ \in Nat /\ row \in 1..(option_count_ + 1)
      BY <1>1, LoopFacts
    <3>2. pair \in 1..(option_count_ + 1)
      BY <1>1, LoopFacts DEF TypeOK
    <3> QED
      BY <3>1, <3>2, BarsAssumption DEF Bars
  <2>3. CASE Refuse \/ CheckSchema \/ ReadCsv \/ EndBars \/ Insert
    BY <2>3 DEF Refuse, CheckSchema, ReadCsv, EndBars, Insert, Stage
  <2>4. CASE UncaughtError \/ AssertionFails \/ InsertError \/ Killed
    BY <2>4 DEF UncaughtError, AssertionFails, InsertError, Killed, Running, Stage
  <2>5. CASE FetchCall
    BY <2>1, <2>5 DEF FetchCall, FetchNext, Stage
  <2>6. CASE FetchPut
    BY <2>1, <2>6 DEF FetchPut, FetchNext, Stage
  <2>7. CASE StartBar
    BY <2>7 DEF StartBar, ReadSpot, Place
  <2>8. CASE MergeQuotes
    <3>1. phase = "bars" /\ phase' = phase /\ row' = row /\ bar' = bar
      BY <2>8 DEF MergeQuotes, MergePair, PriceBar, bufferVars
    <3>2. CASE MergePair
      <4>1. step = "merge" /\ pair' = pair + 1 /\ step' \in {"merge", "price"}
        BY <3>2 DEF MergePair
      <4>2. CASE step' = step
        BY <2>1, <2>2, <3>1, <4>1, <4>2
      <4>3. CASE step' = "price"
        BY <3>1, <4>1, <4>3 DEF Place
      <4> QED
        BY <4>1, <4>2, <4>3
    <3>3. CASE PriceBar
      BY <3>1, <3>3 DEF PriceBar, Place
    <3> QED
      BY <2>8, <3>2, <3>3 DEF MergeQuotes
  <2>9. CASE CalcAndSave
    <3>1. /\ phase = "bars" /\ phase' = phase /\ row' = row + 1
          /\ bar' = bar /\ step' = step /\ pair' = pair
      BY <2>9 DEF CalcAndSave, mergeVars, loopVars
    <3> QED
      BY <2>1, <2>2, <3>1
  <2>10. CASE EndBar
    BY <2>2, <2>10 DEF EndBar, NextBar
  <2> QED
    BY <1>1, <2>3, <2>4, <2>5, <2>6, <2>7, <2>8, <2>9, <2>10 DEF ProcessNext, Step
<1>2. PInv /\ [ProcessNext]_processVars => [Forward]_processVars
  BY <1>1
<1> QED
  BY <1>2, PInvHolds, PTL DEF ProcessSpec, NeverBack
-----------------------------------------------------------------------------
LEMMA StoreInit == ProcessInit => Abstract!Init
BY DEF ProcessInit, Abstract!Init, dayOutcome, dayRows

\* What DayStore sees of an object that still runs.
LEMMA NothingStored == PInv /\ phase \in Running => dayRows = "none"
BY DEF PInv, UnsavedOK, dayRows

\* A step that leaves the table and the stored rows alone, and moves on to a
\* phase of the same outcome.
LEMMA StoreStutter ==
  ASSUME PInv, phase \in Running, phase' \in Running, UNCHANGED <<table, saved>>,
         phase \in {"created", "fetch_put", "check"} <=>
           phase' \in {"created", "fetch_put", "check"}
  PROVE  UNCHANGED Abstract!storeVars
<1>1. dayOutcome' = dayOutcome
  BY DEF dayOutcome, Running
<1>2. dayRows = "none" /\ dayRows' = "none"
  BY DEF PInv, UnsavedOK, dayRows
<1> QED
  BY <1>1, <1>2 DEF Abstract!storeVars

\* A step that ends the program without having stored a row.
LEMMA StoreFail ==
  ASSUME PInv, phase \in Running, phase' \in {"aborted", "exited", "killed"}, saved' = saved,
         table' = table \/ (phase = "check" /\ table' = TRUE)
  PROVE  Abstract!Fail
<1>1. dayOutcome' = "failed" /\ dayOutcome \in {"deciding", "working"}
  BY DEF dayOutcome, Running
<1>2. dayRows' = "none"
  BY DEF PInv, UnsavedOK, dayRows
<1>3. phase = "check" => dayOutcome = "deciding"
  BY DEF dayOutcome
<1> QED
  BY <1>1, <1>2, <1>3 DEF Abstract!Fail

LEMMA StoreNext == PInv /\ [ProcessNext]_processVars => [Abstract!Next]_(Abstract!storeVars)
<1> SUFFICES ASSUME PInv, [ProcessNext]_processVars
             PROVE  Abstract!Next \/ UNCHANGED Abstract!storeVars
  OBVIOUS
<1>1. CASE Refuse
  <2>1. /\ phase = "created" /\ phase' = "skipped" /\ UNCHANGED <<table, saved>>
    BY <1>1 DEF Refuse, dbVars
  <2>2. dayOutcome = "deciding" /\ dayOutcome' = "skipped"
    BY <2>1 DEF dayOutcome
  <2>3. dayRows = "none" /\ dayRows' = "none"
    BY <2>1 DEF PInv, UnsavedOK, dayRows, Running
  <2> QED
    BY <2>1, <2>2, <2>3 DEF Abstract!Next, Abstract!Skip
<1>2. CASE FetchCall \/ FetchPut
  <2>1. /\ phase \in {"created", "fetch_put"} /\ phase' \in {"created", "fetch_put", "check"}
        /\ UNCHANGED <<table, saved>>
    BY <1>2 DEF FetchCall, FetchPut, FetchNext, dbVars
  <2> QED
    BY <2>1, StoreStutter DEF Running
<1>3. CASE CheckSchema
  <2>1. phase = "check" /\ phase \in Running /\ saved' = saved
    BY <1>3 DEF CheckSchema, Running
  <2>2. CASE schema
    <3>1. table' = TRUE /\ phase' = "csv"
      BY <1>3, <2>2 DEF CheckSchema
    <3>2. dayOutcome = "deciding" /\ dayOutcome' = "working"
      BY <2>1, <3>1 DEF dayOutcome
    <3>3. dayRows' = dayRows
      BY <2>1 DEF PInv, UnsavedOK, dayRows
    <3> QED
      BY <3>1, <3>2, <3>3 DEF Abstract!Next, Abstract!Accept
  <2>3. CASE ~schema
    <3>1. table' = table /\ phase' = "aborted"
      BY <1>3, <2>3 DEF CheckSchema
    <3> QED
      BY <2>1, <3>1, StoreFail DEF Abstract!Next
  <2> QED
    BY <2>2, <2>3
<1>4. CASE ReadCsv \/ StartBar \/ MergeQuotes \/ CalcAndSave \/ EndBar \/ EndBars
  <2>1. /\ phase \in {"csv", "bars"} /\ phase' \in {"bars", "insert"}
        /\ UNCHANGED <<table, saved>>
    BY <1>4 DEF ReadCsv, StartBar, MergeQuotes, CalcAndSave, EndBar, EndBars, dbVars
  <2> QED
    BY <2>1, StoreStutter DEF Running
<1>5. CASE Insert
  <2>1. /\ phase = "insert" /\ phase' = "done" /\ saved' = sql_
        /\ UNCHANGED <<table, sql_>> /\ sql_ # <<>>
    BY <1>5, InsertFacts DEF Insert, bufferVars
  <2>2. dayOutcome = "working" /\ dayOutcome' = "saved"
    BY <2>1 DEF dayOutcome
  <2>3. dayRows' = "all"
    BY <2>1 DEF dayRows
  <2> QED
    BY <2>1, <2>2, <2>3 DEF Abstract!Next, Abstract!Save
<1>6. CASE UncaughtError
  <2>1. /\ phase \in Running /\ phase' = "aborted" /\ saved' = saved
        /\ table' = table \/ (phase = "check" /\ table' = TRUE)
    BY <1>6 DEF UncaughtError, TableCreatedUnseen, Running
  <2> QED
    BY <2>1, StoreFail DEF Abstract!Next
<1>7. CASE AssertionFails
  <2>1. phase = "bars" /\ phase' = "aborted" /\ UNCHANGED <<table, saved>>
    BY <1>7 DEF AssertionFails, dbVars
  <2> QED
    BY <2>1, StoreFail DEF Abstract!Next, Running
<1>8. ASSUME phase = "insert", phase' \in {"exited", "killed"}, UNCHANGED <<table, sql_>>,
             saved' \in {saved, sql_}
      PROVE  Abstract!Fail
  <2>1. saved = <<>> /\ sql_ # <<>>
    BY <1>8, InsertFacts
  <2>2. dayOutcome = "working" /\ dayOutcome' = "failed"
    BY <1>8 DEF dayOutcome
  <2>3. dayRows' \in {"none", "all"}
    BY <1>8, <2>1 DEF dayRows
  <2> QED
    BY <1>8, <2>2, <2>3 DEF Abstract!Fail
<1>9. CASE InsertError
  <2>1. /\ phase = "insert" /\ phase' = "exited" /\ UNCHANGED <<table, sql_>>
        /\ saved' \in {saved, sql_}
    BY <1>9, InsertFacts DEF InsertError, bufferVars
  <2> QED
    BY <1>8, <2>1 DEF Abstract!Next
<1>10. CASE Killed
  <2>1. /\ phase \in Running /\ phase' = "killed" /\ sql_' = sql_
        /\ saved' = saved \/ (phase = "insert" /\ saved' = saved \o sql_)
        /\ table' = table \/ (phase = "check" /\ table' = TRUE)
    BY <1>10 DEF Killed, TableCreatedUnseen, bufferVars
  <2>2. CASE phase = "insert"
    BY <1>8, <2>1, <2>2, InsertFacts DEF Abstract!Next
  <2>3. CASE phase # "insert"
    BY <2>1, <2>3, StoreFail DEF Abstract!Next
  <2> QED
    BY <2>2, <2>3
<1>11. CASE UNCHANGED processVars
  BY <1>11 DEF processVars, dbVars, bufferVars, dayOutcome, dayRows, Abstract!storeVars
<1> QED
  BY <1>1, <1>2, <1>3, <1>4, <1>5, <1>6, <1>7, <1>9, <1>10, <1>11 DEF ProcessNext, Step

\* Whatever fails and wherever the process dies, the database gets the whole
\* buffered day or none of it, and only a stored day reports success.
THEOREM ObjectIsDayStore == ProcessSpec => ImplementsDayStore
BY StoreInit, StoreNext, PInvHolds, PTL DEF ProcessSpec, ImplementsDayStore, Abstract!Spec
-----------------------------------------------------------------------------
\* An entry of the quote maps is what the kline table of its contract makes.
QuotesKept ==
  /\ \A c \in DOMAIN call_option_quote_ : call_option_quote_[c] = KlineItems(kline_tables[c])
  /\ \A c \in DOMAIN put_option_quote_ : put_option_quote_[c] = KlineItems(kline_tables[c])

\* The quote maps change in the fetches only.
LEMMA QuotesStay ==
  ASSUME PInv, [ProcessNext]_processVars, ~FetchCall, ~FetchPut
  PROVE  UNCHANGED <<call_option_quote_, put_option_quote_, kline_tables>>
<1>1. CASE CheckSchema
  BY <1>1 DEF CheckSchema
<1>2. CASE StartBar \/ EndBar
  BY <1>2 DEF StartBar, EndBar, ReadSpot, NextBar, quoteVars, dbVars
<1>3. CASE MergeQuotes
  BY <1>3 DEF MergeQuotes, MergePair, PriceBar, quoteVars, dbVars
<1>4. CASE Refuse \/ ReadCsv
  BY <1>4 DEF Refuse, ReadCsv, mergeVars, quoteVars, dbVars
<1>5. CASE CalcAndSave \/ AssertionFails \/ EndBars
  BY <1>5 DEF CalcAndSave, AssertionFails, EndBars, mergeVars, quoteVars, dbVars
<1>6. CASE Insert \/ InsertError \/ UncaughtError \/ Killed
  BY <1>6 DEF Insert, InsertError, UncaughtError, Killed, mergeVars, quoteVars
<1>7. CASE UNCHANGED processVars
  BY <1>7 DEF processVars, mergeVars, quoteVars, dbVars
<1> QED
  BY <1>1, <1>2, <1>3, <1>4, <1>5, <1>6, <1>7 DEF ProcessNext, Step

LEMMA QuotesKeptNext == PInv /\ QuotesKept /\ [ProcessNext]_processVars => QuotesKept'
<1> SUFFICES ASSUME PInv, QuotesKept, [ProcessNext]_processVars PROVE QuotesKept'
  OBVIOUS
<1>1. CASE FetchCall
  <2> DEFINE code == call_option_chains_[row].option_code
  <2>1. /\ UNCHANGED <<put_option_quote_, kline_tables>>
        /\ call_option_quote_' =
             [c \in DOMAIN call_option_quote_ \union {code} |->
                IF c \in DOMAIN call_option_quote_ THEN call_option_quote_[c]
                ELSE KlineItems(kline_tables[c])]
    BY <1>1 DEF FetchCall, FetchNext, dbVars
  <2> HIDE DEF code
  <2>2. \A c \in DOMAIN call_option_quote_' :
          call_option_quote_'[c] = KlineItems(kline_tables[c])
    BY <2>1 DEF QuotesKept
  <2>3. \A c : KlineItems(kline_tables[c])' = KlineItems(kline_tables[c])
    BY <2>1 DEF KlineItems
  <2> QED
    BY <2>1, <2>2, <2>3 DEF QuotesKept
<1>2. CASE FetchPut
  <2> DEFINE code == put_option_chains_[row].option_code
  <2>1. /\ UNCHANGED <<call_option_quote_, kline_tables>>
        /\ put_option_quote_' =
             [c \in DOMAIN put_option_quote_ \union {code} |->
                IF c \in DOMAIN put_option_quote_ THEN put_option_quote_[c]
                ELSE KlineItems(kline_tables[c])]
    BY <1>2 DEF FetchPut, FetchNext, dbVars
  <2> HIDE DEF code
  <2>2. \A c \in DOMAIN put_option_quote_' :
          put_option_quote_'[c] = KlineItems(kline_tables[c])
    BY <2>1 DEF QuotesKept
  <2>3. \A c : KlineItems(kline_tables[c])' = KlineItems(kline_tables[c])
    BY <2>1 DEF KlineItems
  <2> QED
    BY <2>1, <2>2, <2>3 DEF QuotesKept
<1>3. CASE ~FetchCall /\ ~FetchPut
  <2>1. UNCHANGED <<call_option_quote_, put_option_quote_, kline_tables>>
    BY <1>3, QuotesStay
  <2>2. \A c : KlineItems(kline_tables[c])' = KlineItems(kline_tables[c])
    BY <2>1 DEF KlineItems
  <2> QED
    BY <2>1, <2>2 DEF QuotesKept
<1> QED
  BY <1>1, <1>2, <1>3

LEMMA MinIsLeast ==
  ASSUME NEW S \in SUBSET Nat, S # {}
  PROVE  Min(S) \in S /\ \A y \in S : Min(S) <= y
BY LeastExists DEF Min

\* The first row of a bar is the one whose number is the least.
LEMMA FirstRowWins ==
  ASSUME NEW code, kline_tables[code] \in Seq(KlineRow)
  PROVE  FirstRows(code, KlineItems(kline_tables[code]))
<1> DEFINE rows == kline_tables[code]
           items == KlineItems(rows)
           Of(b) == {m \in DOMAIN rows : rows[m].bar = b}
<1>1. DOMAIN rows = 1..Len(rows) /\ Len(rows) \in Nat
  BY LenProperties
<1>2. DOMAIN items = {rows[n].bar : n \in DOMAIN rows}
  BY DEF KlineItems
<1>3. ASSUME NEW n \in DOMAIN rows, \A m \in 1..(n - 1) : rows[m].bar # rows[n].bar
      PROVE  items[rows[n].bar] = rows[n].item
  <2> DEFINE S == Of(rows[n].bar)
  <2>1. S \in SUBSET (1..Len(rows)) /\ n \in S
    BY <1>1
  <2>2. S \in SUBSET Nat /\ n \in Nat
    BY <1>1, <2>1
  <2>3. \A m \in S : n <= m
    <3> SUFFICES ASSUME NEW m \in S, m < n PROVE FALSE
      BY <2>2
    <3>1. m \in 1..(n - 1) /\ rows[m].bar = rows[n].bar
      BY <1>1, <2>1, <2>2
    <3> QED
      BY <1>3, <3>1
  <2>4. Min(S) \in S /\ Min(S) <= n
    BY <2>1, <2>2, MinIsLeast
  <2> HIDE DEF S
  <2>5. Min(S) = n
    <3> DEFINE least == Min(S)
    <3>1. n <= least /\ least <= n /\ least \in Nat
      BY <2>2, <2>3, <2>4
    <3> HIDE DEF least
    <3>2. least = n
      BY <2>2, <3>1
    <3> QED
      BY <3>2 DEF least
  <2>6. items[rows[n].bar] = rows[Min(S)].item
    <3>1. rows[n].bar \in {rows[k].bar : k \in DOMAIN rows}
      OBVIOUS
    <3>2. \A b \in {rows[k].bar : k \in DOMAIN rows} : items[b] = rows[Min(Of(b))].item
      BY DEF KlineItems
    <3> QED
      BY <3>1, <3>2 DEF S
  <2> QED
    BY <2>5, <2>6
<1> QED
  BY <1>2, <1>3 DEF FirstRows
-----------------------------------------------------------------------------
\* What is proved of the buffer at each bar and pair.
RowPairShown(b, i) ==
  Buffered(b, i) =>
    /\ Shows(RowsBefore(b, i) + 1, "call", i, b, call_option_chains_[i], CallItems(i))
    /\ Shows(RowsBefore(b, i) + 2, "put", i, b, put_option_chains_[i], PutItems(i))

\* A step that adds no row and leaves the codes and the quotes alone.
LEMMA RowsStay ==
  ASSUME NEW b \in Bars, NEW i \in 1..option_count_, RowPairShown(b, i),
         UNCHANGED <<sql_, option_count_, call_option_quote_, put_option_quote_, kline_tables>>,
         call_option_chains_'[i].option_code = call_option_chains_[i].option_code,
         put_option_chains_'[i].option_code = put_option_chains_[i].option_code
  PROVE  RowPairShown(b, i)'
<1> DEFINE n == RowsBefore(b, i)
<1>1. n' = n /\ Buffered(b, i)' = Buffered(b, i)
  BY DEF RowsBefore, Buffered
<1>2. /\ CallItems(i)' = CallItems(i) /\ PutItems(i)' = PutItems(i)
      /\ CommonBars(i)' = CommonBars(i)
  BY DEF CallItems, PutItems, CommonBars
<1>3. \A s : LastCommonBar(i, b, s)' = LastCommonBar(i, b, s)
  BY <1>2 DEF LastCommonBar
<1>4. \A c, items : FirstRows(c, items)' = FirstRows(c, items)
  BY DEF FirstRows
<1> HIDE DEF n
<1>5. \A k : Shows(k, "call", i, b, call_option_chains_[i], CallItems(i)) =>
               Shows(k, "call", i, b, call_option_chains_[i], CallItems(i))'
  BY <1>2, <1>3, <1>4 DEF Shows, ItemAt
<1>6. \A k : Shows(k, "put", i, b, put_option_chains_[i], PutItems(i)) =>
               Shows(k, "put", i, b, put_option_chains_[i], PutItems(i))'
  BY <1>2, <1>3, <1>4 DEF Shows, ItemAt
<1> QED
  BY <1>1, <1>2, <1>5, <1>6 DEF RowPairShown, n

\* Pair i after x bars and pair r after y bars have as many pairs before them.
SameCount(n, x, i, y, r) == x * n + (i - 1) = y * n + (r - 1)

LEMMA SamePosition ==
  ASSUME NEW n \in Nat, NEW x \in Nat, NEW y \in Nat, NEW i \in 1..n, NEW r \in 1..n,
         SameCount(n, x, i, y, r)
  PROVE  x = y /\ i = r
<1>0. x * n + (i - 1) = y * n + (r - 1)
  BY DEF SameCount
<1>1. /\ x * n \in Nat /\ (x + 1) * n = x * n + n
      /\ y * n \in Nat /\ (y + 1) * n = y * n + n
  BY OneMoreBar
<1>2. ~(x < y)
  <2> SUFFICES ASSUME x + 1 <= y PROVE FALSE
    OBVIOUS
  <2>1. (x + 1) * n <= y * n
    BY BarsMonotone
  <2> DEFINE xn == x * n
             yn == y * n
  <2>2. xn + n <= yn /\ xn + (i - 1) = yn + (r - 1) /\ xn \in Nat /\ yn \in Nat
    BY <1>0, <1>1, <2>1
  <2> HIDE DEF xn, yn
  <2> QED
    BY <2>2
<1>3. ~(y < x)
  <2> SUFFICES ASSUME y + 1 <= x PROVE FALSE
    OBVIOUS
  <2>1. (y + 1) * n <= x * n
    BY BarsMonotone
  <2> DEFINE xn == x * n
             yn == y * n
  <2>2. yn + n <= xn /\ xn + (i - 1) = yn + (r - 1) /\ xn \in Nat /\ yn \in Nat
    BY <1>0, <1>1, <2>1
  <2> HIDE DEF xn, yn
  <2> QED
    BY <2>2
<1>4. x = y
  BY <1>2, <1>3
<1> DEFINE xn == x * n
<1>5. xn + (i - 1) = xn + (r - 1) /\ xn \in Nat
  BY <1>0, <1>1, <1>4
<1> HIDE DEF xn
<1> QED
  BY <1>4, <1>5

LEMMA RowsBeforeType ==
  ASSUME option_count_ \in Nat, NEW b \in Bars, NEW i \in 1..option_count_
  PROVE  RowsBefore(b, i) \in Nat
<1>1. i \in 1..(option_count_ + 1)
  OBVIOUS
<1> QED
  BY <1>1, RowsWithinDay DEF RowsBefore

RowsShown == \A b \in Bars, i \in 1..option_count_ : RowPairShown(b, i)

\* An empty buffer shows nothing.
LEMMA NothingShown == option_count_ \in Nat /\ sql_ = <<>> => RowsShown
<1> SUFFICES ASSUME option_count_ \in Nat, sql_ = <<>>,
                    NEW b \in Bars, NEW i \in 1..option_count_, Buffered(b, i)
             PROVE  FALSE
  BY DEF RowsShown, RowPairShown
<1>1. RowsBefore(b, i) \in Nat /\ Len(sql_) = 0
  BY RowsBeforeType, EmptySeq
<1> QED
  BY <1>1 DEF Buffered

LEMMA NoRowsNext == (option_count_ \in Nat)' /\ (sql_ = <<>>)' => RowsShown'
BY NothingShown, PTL

\* The data of a pair when its rows are added.
LEMMA RowsAdded ==
  ASSUME PInv, QuotesKept, phase = "bars", step = "use", row \in 1..option_count_
  PROVE  /\ FirstRows(call_option_chains_[row].option_code, CallItems(row))
         /\ FirstRows(put_option_chains_[row].option_code, PutItems(row))
         /\ \E s \in 0..bar :
              /\ LastCommonBar(row, bar, s)
              /\ call_option_chains_[row].kline = ItemAt(CallItems(row), s)
              /\ put_option_chains_[row].kline = ItemAt(PutItems(row), s)
<1>1. /\ TypeOK /\ CarryForward
      /\ row \in 1..Len(call_option_chains_) /\ row \in 1..Len(put_option_chains_)
      /\ call_option_chains_ \in Seq(Contract) /\ put_option_chains_ \in Seq(Contract)
  BY LoopFacts DEF LoopInv, VolumeInv, CarryInv
<1>2. ASSUME NEW c \in DOMAIN QuoteTables
      PROVE  FirstRows(c, KlineItems(kline_tables[c]))
  <2>1. kline_tables[c] \in KlineTables[c]
    BY <1>2 DEF PInv, ProcessTypeOK
  <2>2. kline_tables[c] \in Seq(KlineRow)
    BY <1>2, <2>1, KlineAssumption
  <2> QED
    BY <2>2, FirstRowWins
<1>3. /\ call_option_chains_[row].option_code \in CodesOf(call_option_chains_)
      /\ put_option_chains_[row].option_code \in CodesOf(put_option_chains_)
  BY <1>1, CodeInCodes
<1>4. /\ call_option_chains_[row].option_code \in DOMAIN QuoteTables
      /\ put_option_chains_[row].option_code \in DOMAIN QuoteTables
  BY <1>1, <1>3, CodeHasTable
<1>5. /\ CallItems(row) = KlineItems(kline_tables[call_option_chains_[row].option_code])
      /\ PutItems(row) = KlineItems(kline_tables[put_option_chains_[row].option_code])
  BY <1>1, <1>3 DEF TypeOK, QuotesKept, CallItems, PutItems
<1>6. MergedBar(row) = bar
  BY DEF MergedBar
<1> QED
  BY <1>1, <1>2, <1>4, <1>5, <1>6 DEF CarryForward

\* What calc_and_save appends, and what it leaves alone.
LEMMA RowsPushed ==
  ASSUME PInv, CalcAndSave
  PROVE  /\ phase = "bars" /\ step = "use" /\ row \in 1..option_count_
         /\ option_count_ \in Nat /\ bar \in Bars
         /\ Len(sql_) \in Nat /\ Len(sql_) = RowsBefore(bar, row)
         /\ Len(sql_') = Len(sql_) + 2
         /\ \A k \in 1..Len(sql_) : sql_'[k] = sql_[k]
         /\ sql_'[Len(sql_) + 1] = RowOf("call", call_option_chains_[row])
         /\ sql_'[Len(sql_) + 2] = RowOf("put", put_option_chains_[row])
         /\ UNCHANGED <<call_option_chains_, put_option_chains_, option_count_>>
         /\ UNCHANGED <<call_option_quote_, put_option_quote_, kline_tables>>
<1> DEFINE call_row == RowOf("call", call_option_chains_[row])
           put_row == RowOf("put", put_option_chains_[row])
           len == Len(sql_)
<1>1. /\ phase = "bars" /\ step = "use" /\ row \in 1..option_count_
      /\ option_count_ \in Nat /\ bar \in Bars
      /\ sql_' = sql_ \o <<call_row, put_row>>
      /\ sql_ \in Seq(SavedRow) /\ len = RowsBefore(bar, row)
  BY LoopFacts DEF CalcAndSave
<1>2. /\ UNCHANGED <<call_option_chains_, put_option_chains_, option_count_>>
      /\ UNCHANGED <<call_option_quote_, put_option_quote_, kline_tables>>
  BY DEF CalcAndSave, mergeVars, chainVars, quoteVars, dbVars
<1>3. len \in Nat
  BY <1>1, LenProperties
<1>4. /\ Len(sql_') = len + 2
      /\ \A k \in 1..len : sql_'[k] = sql_[k]
      /\ sql_'[len + 1] = call_row /\ sql_'[len + 2] = put_row
  <2> DEFINE new == <<call_row, put_row>>
  <2>1. call_row \in SavedRow /\ put_row \in SavedRow
    <3>1. call_option_chains_[row] \in Contract /\ put_option_chains_[row] \in Contract
      BY <1>1, LoopFacts, ElementOfSeq
    <3> QED
      BY <1>1, <3>1 DEF RowOf, SavedRow
  <2> HIDE DEF call_row, put_row
  <2>2. new \in Seq(SavedRow) /\ Len(new) = 2 /\ new[1] = call_row /\ new[2] = put_row
    BY <2>1
  <2>3. sql_' = sql_ \o new
    BY <1>1
  <2> HIDE DEF new
  <2>4. /\ Len(sql_') = len + 2
        /\ \A k \in 1..(len + 2) : sql_'[k] = IF k <= len THEN sql_[k] ELSE new[k - len]
    BY <1>1, <2>2, <2>3, ConcatProperties
  <2> HIDE DEF len
  <2>5. \A k \in 1..len : k \in 1..(len + 2) /\ k <= len
    BY <1>3
  <2>6. /\ len + 1 \in 1..(len + 2) /\ ~(len + 1 <= len) /\ (len + 1) - len = 1
        /\ len + 2 \in 1..(len + 2) /\ ~(len + 2 <= len) /\ (len + 2) - len = 2
    BY <1>3
  <2>7. sql_'[len + 1] = new[(len + 1) - len] /\ sql_'[len + 2] = new[(len + 2) - len]
    BY <2>4, <2>6
  <2> QED
    BY <2>2, <2>4, <2>5, <2>6, <2>7
<1> QED
  BY <1>1, <1>2, <1>3, <1>4

\* A pair of rows found in the buffer after calc_and_save was there before, or
\* is the pair it has just appended.
LEMMA RowsOldOrNew ==
  ASSUME PInv, CalcAndSave, NEW b \in Bars, NEW i \in 1..option_count_, Buffered(b, i)'
  PROVE  /\ RowsBefore(b, i)' = RowsBefore(b, i)
         /\ \/ /\ Buffered(b, i)
               /\ sql_'[RowsBefore(b, i) + 1] = sql_[RowsBefore(b, i) + 1]
               /\ sql_'[RowsBefore(b, i) + 2] = sql_[RowsBefore(b, i) + 2]
            \/ /\ b = bar /\ i = row
               /\ sql_'[RowsBefore(b, i) + 1] =
                    [time |-> b, CP |-> "call", chain |-> call_option_chains_[i]]
               /\ sql_'[RowsBefore(b, i) + 2] =
                    [time |-> b, CP |-> "put", chain |-> put_option_chains_[i]]
<1> DEFINE n == RowsBefore(b, i)
           len == Len(sql_)
<1>1. /\ phase = "bars" /\ step = "use" /\ row \in 1..option_count_
      /\ option_count_ \in Nat /\ bar \in Bars
      /\ len \in Nat /\ len = RowsBefore(bar, row)
      /\ Len(sql_') = len + 2
      /\ \A k \in 1..len : sql_'[k] = sql_[k]
      /\ sql_'[len + 1] = RowOf("call", call_option_chains_[row])
      /\ sql_'[len + 2] = RowOf("put", put_option_chains_[row])
      /\ option_count_' = option_count_
  BY RowsPushed
<1>2. RowsBefore(b, i)' = n
  BY <1>1 DEF RowsBefore
<1>3. n \in Nat /\ n + 2 <= len + 2
  <2>1. Buffered(b, i)' = (n + 2 <= Len(sql_'))
    BY <1>2 DEF Buffered
  <2> QED
    BY <1>1, <2>1, RowsBeforeType
<1> HIDE DEF n, len
<1>4. CASE n + 2 <= len
  <2>1. sql_'[n + 1] = sql_[n + 1] /\ sql_'[n + 2] = sql_[n + 2]
    BY <1>1, <1>3, <1>4
  <2>2. Buffered(b, i)
    BY <1>4 DEF Buffered, n, len
  <2> QED
    BY <1>2, <2>1, <2>2 DEF n
<1>5. CASE ~(n + 2 <= len)
  <2>1. b = bar /\ i = row /\ n = len
    <3> DEFINE p == b - 1
               q == bar - 1
               x == p * option_count_
               y == q * option_count_
    <3>1. p \in Nat /\ q \in Nat /\ b = p + 1 /\ bar = q + 1
      BY <1>1, BarsAssumption DEF Bars
    <3>2. n = 2 * x + 2 * (i - 1) /\ len = 2 * y + 2 * (row - 1)
      BY <1>1 DEF n, RowsBefore
    <3> HIDE DEF p, q
    <3>3. x \in Nat /\ y \in Nat
      BY <1>1, <3>1, OneMoreBar
    <3> HIDE DEF x, y
    <3>4. n = len /\ x + (i - 1) = y + (row - 1)
      BY <1>1, <1>3, <1>5, <3>2, <3>3
    <3>5. SameCount(option_count_, p, i, q, row)
      BY <3>4 DEF x, y, SameCount
    <3>6. p = q /\ i = row
      BY <1>1, <3>1, <3>5, SamePosition
    <3> QED
      BY <3>1, <3>4, <3>6
  <2>2. /\ sql_'[n + 1] = [time |-> b, CP |-> "call", chain |-> call_option_chains_[i]]
        /\ sql_'[n + 2] = [time |-> b, CP |-> "put", chain |-> put_option_chains_[i]]
    BY <1>1, <2>1 DEF RowOf
  <2> QED
    BY <1>2, <2>1, <2>2 DEF n
<1> QED
  BY <1>4, <1>5

LEMMA RowsAppended ==
  ASSUME PInv, QuotesKept, RowsShown, CalcAndSave
  PROVE  RowsShown'
<1>1. /\ phase = "bars" /\ step = "use" /\ row \in 1..option_count_
      /\ UNCHANGED <<call_option_chains_, put_option_chains_, option_count_>>
      /\ UNCHANGED <<call_option_quote_, put_option_quote_, kline_tables>>
  BY RowsPushed
<1> SUFFICES ASSUME NEW b \in Bars, NEW i \in 1..option_count_, Buffered(b, i)'
             PROVE  RowPairShown(b, i)'
  BY <1>1 DEF RowsShown, RowPairShown
<1> DEFINE n == RowsBefore(b, i)
<1>2. /\ CallItems(i)' = CallItems(i) /\ PutItems(i)' = PutItems(i)
      /\ CommonBars(i)' = CommonBars(i)
      /\ RowsBefore(b, i)' = n
  BY <1>1 DEF CallItems, PutItems, CommonBars, RowsBefore
<1>3. \A s : LastCommonBar(i, b, s)' = LastCommonBar(i, b, s)
  BY <1>2 DEF LastCommonBar
<1>4. \A c, items : FirstRows(c, items)' = FirstRows(c, items)
  BY <1>1 DEF FirstRows
<1>5. CASE Buffered(b, i) /\ sql_'[n + 1] = sql_[n + 1] /\ sql_'[n + 2] = sql_[n + 2]
  <2>1. /\ Shows(n + 1, "call", i, b, call_option_chains_[i], CallItems(i))
        /\ Shows(n + 2, "put", i, b, put_option_chains_[i], PutItems(i))
    BY <1>5 DEF RowsShown, RowPairShown
  <2> HIDE DEF n
  <2>2. Shows(RowsBefore(b, i) + 1, "call", i, b, call_option_chains_[i], CallItems(i))'
    BY <1>1, <1>2, <1>3, <1>4, <1>5, <2>1 DEF Shows, ItemAt
  <2>3. Shows(RowsBefore(b, i) + 2, "put", i, b, put_option_chains_[i], PutItems(i))'
    BY <1>1, <1>2, <1>3, <1>4, <1>5, <2>1 DEF Shows, ItemAt
  <2> QED
    BY <2>2, <2>3 DEF RowPairShown
<1>6. CASE /\ b = bar /\ i = row
           /\ sql_'[n + 1] = [time |-> b, CP |-> "call", chain |-> call_option_chains_[i]]
           /\ sql_'[n + 2] = [time |-> b, CP |-> "put", chain |-> put_option_chains_[i]]
  <2>1. /\ FirstRows(call_option_chains_[i].option_code, CallItems(i))
        /\ FirstRows(put_option_chains_[i].option_code, PutItems(i))
        /\ \E s \in 0..b :
             /\ LastCommonBar(i, b, s)
             /\ call_option_chains_[i].kline = ItemAt(CallItems(i), s)
             /\ put_option_chains_[i].kline = ItemAt(PutItems(i), s)
    BY <1>1, <1>6, RowsAdded
  <2> HIDE DEF n
  <2>2. Shows(RowsBefore(b, i) + 1, "call", i, b, call_option_chains_[i], CallItems(i))'
    BY <1>1, <1>2, <1>3, <1>4, <1>6, <2>1 DEF Shows, ItemAt
  <2>3. Shows(RowsBefore(b, i) + 2, "put", i, b, put_option_chains_[i], PutItems(i))'
    BY <1>1, <1>2, <1>3, <1>4, <1>6, <2>1 DEF Shows, ItemAt
  <2> QED
    BY <2>2, <2>3 DEF RowPairShown
<1> QED
  BY <1>5, <1>6, RowsOldOrNew

\* A merging step leaves the codes of both chains alone.
LEMMA CodesStay ==
  ASSUME PInv, MergeQuotes, NEW i \in 1..option_count_
  PROVE  /\ call_option_chains_'[i].option_code = call_option_chains_[i].option_code
         /\ put_option_chains_'[i].option_code = put_option_chains_[i].option_code
<1>1. Base /\ i \in 1..Len(call_option_chains_) /\ i \in 1..Len(put_option_chains_)
  BY LoopFacts DEF MergeQuotes, LoopInv, VolumeInv, CarryInv
<1>2. CASE MergePair
  BY <1>1, <1>2, MergeStep DEF Updated
<1>3. CASE PriceBar
  BY <1>3 DEF PriceBar, chainVars
<1> QED
  BY <1>2, <1>3 DEF MergeQuotes

\* Before process() there is no row and no pair to look at.
LEMMA RowsNotYet ==
  ASSUME PInv, FetchCall \/ FetchPut \/ CheckSchema
  PROVE  option_count_' \in Nat /\ sql_' = <<>>
<1>1. CASE FetchCall \/ FetchPut
  <2>1. phase \in {"created", "fetch_put"} /\ UNCHANGED <<option_count_, sql_>>
    BY <1>1 DEF FetchCall, FetchPut, FetchNext
  <2> QED
    BY <2>1 DEF PInv, EarlyOK, Unstarted
<1>2. CASE CheckSchema
  <2>1. phase = "check" /\ sql_' = sql_
        /\ option_count_' \in {option_count_, Len(call_option_chains_)}
    BY <1>2 DEF CheckSchema, bufferVars
  <2>2. option_count_ = 0 /\ sql_ = <<>> /\ Len(call_option_chains_) \in Nat
    BY <2>1, AcceptedChains DEF PInv, EarlyOK, Unstarted
  <2> QED
    BY <2>1, <2>2
<1> QED
  BY <1>1, <1>2

\* The other steps add no row and change no code and no quote.
LEMMA RowsKept ==
  ASSUME PInv, [ProcessNext]_processVars,
         ~FetchCall, ~FetchPut, ~CheckSchema, ~CalcAndSave
  PROVE  /\ UNCHANGED <<call_option_quote_, put_option_quote_, kline_tables>>
         /\ UNCHANGED <<sql_, option_count_>>
         /\ \A i \in 1..option_count_ :
              /\ call_option_chains_'[i].option_code = call_option_chains_[i].option_code
              /\ put_option_chains_'[i].option_code = put_option_chains_[i].option_code
<1>1. UNCHANGED <<call_option_quote_, put_option_quote_, kline_tables>>
  BY QuotesStay
<1>2. UNCHANGED <<sql_, option_count_>>
  <2>1. CASE StartBar \/ EndBar
    BY <2>1 DEF StartBar, EndBar, ReadSpot, NextBar, quoteVars, bufferVars
  <2>2. CASE MergeQuotes
    BY <2>2 DEF MergeQuotes, MergePair, PriceBar, quoteVars, bufferVars
  <2>3. CASE Refuse \/ ReadCsv \/ EndBars \/ AssertionFails
    BY <2>3 DEF Refuse, ReadCsv, EndBars, AssertionFails, mergeVars, quoteVars, bufferVars
  <2>4. CASE Insert \/ InsertError \/ UncaughtError \/ Killed
    BY <2>4 DEF Insert, InsertError, UncaughtError, Killed, mergeVars, quoteVars, bufferVars
  <2>5. CASE UNCHANGED processVars
    BY <2>5 DEF processVars, mergeVars, quoteVars, bufferVars
  <2> QED
    BY <2>1, <2>2, <2>3, <2>4, <2>5 DEF ProcessNext, Step
<1>3. ~MergeQuotes => UNCHANGED <<call_option_chains_, put_option_chains_>>
  <2>1. CASE StartBar \/ EndBar
    BY <2>1 DEF StartBar, EndBar, ReadSpot, NextBar, chainVars
  <2>2. CASE Refuse \/ ReadCsv \/ EndBars \/ AssertionFails
    BY <2>2 DEF Refuse, ReadCsv, EndBars, AssertionFails, mergeVars, chainVars
  <2>3. CASE Insert \/ InsertError \/ UncaughtError \/ Killed
    BY <2>3 DEF Insert, InsertError, UncaughtError, Killed, mergeVars, chainVars
  <2>4. CASE UNCHANGED processVars
    BY <2>4 DEF processVars, mergeVars, chainVars
  <2> QED
    BY <2>1, <2>2, <2>3, <2>4 DEF ProcessNext, Step
<1> QED
  BY <1>1, <1>2, <1>3, CodesStay

LEMMA RowsShownNext ==
  PInv /\ QuotesKept /\ RowsShown /\ [ProcessNext]_processVars => RowsShown'
<1> SUFFICES ASSUME PInv, QuotesKept, RowsShown, [ProcessNext]_processVars
             PROVE  RowsShown'
  OBVIOUS
<1>1. CASE FetchCall \/ FetchPut \/ CheckSchema
  BY <1>1, RowsNotYet, NoRowsNext
<1>2. CASE CalcAndSave
  BY <1>2, RowsAppended
<1>3. CASE ~FetchCall /\ ~FetchPut /\ ~CheckSchema /\ ~CalcAndSave
  <2>1. ASSUME NEW b \in Bars, NEW i \in 1..option_count_ PROVE RowPairShown(b, i)'
    BY <1>3, RowsKept, RowsStay DEF RowsShown
  <2> QED
    BY <1>3, <2>1, RowsKept DEF RowsShown
<1> QED
  BY <1>1, <1>2, <1>3

\* When the INSERT is sent, the buffer has a row for each contract and bar.
LEMMA DayBuffered == PInv /\ phase = "insert" => Len(sql_) = 2 * NBars * option_count_
<1> SUFFICES ASSUME PInv, phase = "insert" PROVE Len(sql_) = 2 * NBars * option_count_
  OBVIOUS
<1>1. /\ bar = NBars /\ row = option_count_ + 1 /\ Len(sql_) = RowsBefore(bar, row)
      /\ option_count_ \in Nat
  BY LenProperties DEF PInv, LateOK, LoopInv, VolumeInv, CarryInv, Base, TypeOK
<1> DEFINE before == (NBars - 1) * option_count_
           day == NBars * option_count_
<1>2. before \in Nat /\ day = before + option_count_
  <2>1. NBars - 1 \in Nat /\ (NBars - 1) + 1 = NBars
    BY BarsAssumption
  <2> QED
    BY <1>1, <2>1, OneMoreBar
<1>3. Len(sql_) = 2 * before + 2 * (row - 1)
  BY <1>1 DEF RowsBefore
<1>4. 2 * NBars * option_count_ = 2 * day
  BY <1>1, WholeDay
<1> HIDE DEF before, day
<1>5. Len(sql_) = 2 * day
  BY <1>1, <1>2, <1>3
<1> QED
  BY <1>4, <1>5

\* The buffer follows the bars and the pairs, whole when it is sent, and each
\* row shows what the kline table of its contract has for the last common bar
\* of its pair: no row is lost, doubled, or filled from another contract.
THEOREM RowsShowQuotes == ProcessSpec => []RowsMatchQuotes
<1>1. ProcessInit => QuotesKept /\ RowsShown
  BY NothingShown DEF ProcessInit, QuotesKept
<1>2. PInv /\ RowsShown => RowsMatchQuotes
  BY DayBuffered DEF RowsShown, RowPairShown, RowsMatchQuotes
<1> QED
  BY <1>1, <1>2, QuotesKeptNext, RowsShownNext, PInvHolds, PTL DEF ProcessSpec
-----------------------------------------------------------------------------
\* What is proved of the volumes in the buffer at each bar and pair.
RowPairCounts(b, i) ==
  Buffered(b, i) =>
    /\ sql_[RowsBefore(b, i) + 1].chain.total_trade_amount =
         VolumeUpTo(CallItems(i), CommonBars(i), b)
    /\ sql_[RowsBefore(b, i) + 2].chain.total_trade_amount =
         VolumeUpTo(PutItems(i), CommonBars(i), b)

VolumesCounted == \A b \in Bars, i \in 1..option_count_ : RowPairCounts(b, i)

LEMMA NothingCounted == option_count_ \in Nat /\ sql_ = <<>> => VolumesCounted
<1> SUFFICES ASSUME option_count_ \in Nat, sql_ = <<>>,
                    NEW b \in Bars, NEW i \in 1..option_count_, Buffered(b, i)
             PROVE  FALSE
  BY DEF VolumesCounted, RowPairCounts
<1>1. RowsBefore(b, i) \in Nat /\ Len(sql_) = 0
  BY RowsBeforeType, EmptySeq
<1> QED
  BY <1>1 DEF Buffered

LEMMA NoCountsNext == (option_count_ \in Nat)' /\ (sql_ = <<>>)' => VolumesCounted'
BY NothingCounted, PTL

\* A step that adds no row and leaves the codes and the quotes alone.
LEMMA CountsStay ==
  ASSUME NEW b \in Bars, NEW i \in 1..option_count_, RowPairCounts(b, i),
         UNCHANGED <<sql_, option_count_, call_option_quote_, put_option_quote_>>,
         call_option_chains_'[i].option_code = call_option_chains_[i].option_code,
         put_option_chains_'[i].option_code = put_option_chains_[i].option_code
  PROVE  RowPairCounts(b, i)'
<1>1. RowsBefore(b, i)' = RowsBefore(b, i) /\ Buffered(b, i)' = Buffered(b, i)
  BY DEF RowsBefore, Buffered
<1>2. /\ CallItems(i)' = CallItems(i) /\ PutItems(i)' = PutItems(i)
      /\ CommonBars(i)' = CommonBars(i)
  BY DEF CallItems, PutItems, CommonBars
<1> QED
  BY <1>1, <1>2 DEF RowPairCounts

LEMMA CountsAppended ==
  ASSUME PInv, VolumesCounted, CalcAndSave
  PROVE  VolumesCounted'
<1>1. /\ phase = "bars" /\ step = "use" /\ row \in 1..option_count_
      /\ UNCHANGED <<call_option_chains_, put_option_chains_, option_count_>>
      /\ UNCHANGED <<call_option_quote_, put_option_quote_>>
  BY RowsPushed
<1>2. ASSUME NEW b \in Bars, NEW i \in 1..option_count_ PROVE RowPairCounts(b, i)'
  <2> SUFFICES ASSUME Buffered(b, i)' PROVE RowPairCounts(b, i)'
    BY DEF RowPairCounts
  <2> DEFINE n == RowsBefore(b, i)
  <2>1. /\ CallItems(i)' = CallItems(i) /\ PutItems(i)' = PutItems(i)
        /\ CommonBars(i)' = CommonBars(i)
        /\ RowsBefore(b, i)' = n
    BY <1>1 DEF CallItems, PutItems, CommonBars, RowsBefore
  <2>2. CASE Buffered(b, i) /\ sql_'[n + 1] = sql_[n + 1] /\ sql_'[n + 2] = sql_[n + 2]
    <3>1. /\ sql_[n + 1].chain.total_trade_amount =
               VolumeUpTo(CallItems(i), CommonBars(i), b)
          /\ sql_[n + 2].chain.total_trade_amount =
               VolumeUpTo(PutItems(i), CommonBars(i), b)
      BY <2>2 DEF VolumesCounted, RowPairCounts
    <3> QED
      BY <2>1, <2>2, <3>1 DEF RowPairCounts
  <2>3. CASE /\ b = bar /\ i = row
             /\ sql_'[n + 1] = [time |-> b, CP |-> "call", chain |-> call_option_chains_[i]]
             /\ sql_'[n + 2] = [time |-> b, CP |-> "put", chain |-> put_option_chains_[i]]
    <3>1. MergedBar(i) = b
      BY <1>1, <2>3 DEF MergedBar
    <3>2. CumulativeVolume
      BY <1>1, LoopFacts DEF LoopInv, VolumeInv
    <3>3. /\ call_option_chains_[i].total_trade_amount =
               VolumeUpTo(CallItems(i), CommonBars(i), b)
          /\ put_option_chains_[i].total_trade_amount =
               VolumeUpTo(PutItems(i), CommonBars(i), b)
      BY <3>1, <3>2 DEF CumulativeVolume
    <3> QED
      BY <2>1, <2>3, <3>3 DEF RowPairCounts
  <2> QED
    BY <2>2, <2>3, RowsOldOrNew
<1> QED
  BY <1>1, <1>2 DEF VolumesCounted, RowPairCounts

LEMMA CountsNext ==
  PInv /\ VolumesCounted /\ [ProcessNext]_processVars => VolumesCounted'
<1> SUFFICES ASSUME PInv, VolumesCounted, [ProcessNext]_processVars
             PROVE  VolumesCounted'
  OBVIOUS
<1>1. CASE FetchCall \/ FetchPut \/ CheckSchema
  BY <1>1, RowsNotYet, NoCountsNext
<1>2. CASE CalcAndSave
  BY <1>2, CountsAppended
<1>3. CASE ~FetchCall /\ ~FetchPut /\ ~CheckSchema /\ ~CalcAndSave
  <2>1. \A b \in Bars, i \in 1..option_count_ : RowPairCounts(b, i)
    BY DEF VolumesCounted, RowPairCounts
  <2>2. ASSUME NEW b \in Bars, NEW i \in 1..option_count_ PROVE RowPairCounts(b, i)'
    BY <1>3, <2>1, RowsKept, CountsStay
  <2> QED
    BY <1>3, <2>2, RowsKept DEF VolumesCounted, RowPairCounts
<1> QED
  BY <1>1, <1>2, <1>3

\* The volume of a row counts each common bar of its pair up to the row's own
\* once, whatever the kline tables hold and wherever the day ends.
THEOREM RowsCount == ProcessSpec => []RowsCountVolumes
<1>1. ProcessInit => VolumesCounted
  BY NothingCounted DEF ProcessInit
<1>2. RowsMatchQuotes /\ VolumesCounted => RowsCountVolumes
  BY DEF RowsMatchQuotes, Shows, VolumesCounted, RowPairCounts, RowsCountVolumes, Counts
<1> QED
  BY <1>1, <1>2, CountsNext, RowsShowQuotes, PInvHolds, PTL DEF ProcessSpec
=============================================================================
