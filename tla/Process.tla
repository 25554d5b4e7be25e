------------------------------ MODULE Process ------------------------------
(***************************************************************************)
(* One Process object (src/src/process.cpp, process.h) from its            *)
(* constructor to the end of start(): init() with its refusals, the        *)
(* queries and check_schema(), the bar loop of process() around the        *)
(* actions of MergeFuture, the rows calc_and_save appends to sql_, and the *)
(* single INSERT at the end.                                               *)
(*                                                                         *)
(* The database session (helper/Sql) runs each statement on its own, with  *)
(* autocommit; a statement may fail, and the answer to one that took       *)
(* effect may be lost.  The process may be killed between any two steps.   *)
(* A saved row keeps the snapshot of the chain it was formatted from; the  *)
(* volatilities and greeks are data no property here depends on.           *)
(***************************************************************************)
EXTENDS MergeFuture, DateTimeIndex

CONSTANTS
  Unfit,      \* pairs of option chains that init() refuses
  KlineTables,  \* KlineTables[c]: the rows the kline table of c may hold
  BarTime,    \* BarTime[b]: the kline_time of bar b
  TickFiles,  \* stock quote files: sequences of ticks in file order
  IVs         \* implied volatilities, in percent, option_iv_calc may return

VARIABLES
  phase,             \* where start() stands
  stock_quote_doc,   \* the ticks read from the CSV file
  kline_tables,      \* the kline tables of the database, by contract
  row,               \* index of the loops over the chains
  sql_,              \* the rows buffered for the INSERT
  schema, table,     \* whether iv_<year> and iv_<year>.<date> exist
  saved              \* the rows this object has stored in the table

bufferVars == <<row, sql_>>
dbVars == <<kline_tables, schema, table, saved>>
processVars == <<mergeVars, phase, stock_quote_doc, bufferVars, dbVars>>

\* One row of a kline table, its kline_time given as a bar; rows at other times
\* are never looked up.
KlineRow == [bar : Bars, item : Item]

\* The map made of an answer: the first row of a bar wins.
KlineItems(rows) ==
  [b \in {rows[n].bar : n \in DOMAIN rows} |->
     rows[Min({n \in DOMAIN rows : rows[n].bar = b})].item]

Running == {"created", "fetch_put", "check", "csv", "bars", "insert"}
Final == {"skipped", "done", "aborted", "exited", "killed"}

Tick == [time : Nat, close_price : Int]

ASSUME BarTimeAssumption ==
  BarTime \in [Bars -> Nat] /\ \A b, c \in Bars : b < c => BarTime[b] < BarTime[c]
ASSUME TickAssumption == \A f \in TickFiles : f \in Seq(Tick)
ASSUME KlineAssumption ==
  \A c \in DOMAIN QuoteTables : \A rows \in KlineTables[c] :
    rows \in Seq(KlineRow) /\ KlineItems(rows) \in QuoteTables[c]
ASSUME UnfitAssumption ==
  \A l \in Unfit :
    /\ l.call \in Seq(Contract) /\ l.put \in Seq(Contract)
    /\ l.call = <<>> \/ l.put = <<>> \/ Len(l.call) # Len(l.put)
-----------------------------------------------------------------------------
\* The constructor has parsed both chains; everything else is empty.
ProcessInit ==
  /\ \E l \in Listings \union Unfit :
       call_option_chains_ = l.call /\ put_option_chains_ = l.put
  /\ call_option_quote_ = <<>> /\ put_option_quote_ = <<>>
  /\ option_count_ = 0
  /\ mfp_cache = <<>>
  /\ bar = 1 /\ step = "read" /\ pair = 1
  /\ stock_close_price = 0 /\ merge_future_price_list = <<>> /\ merge_future_price = 0
  /\ phase = "created"
  /\ stock_quote_doc = <<>>
  /\ kline_tables \in {k \in [DOMAIN QuoteTables -> UNION {KlineTables[c] : c \in DOMAIN QuoteTables}] :
                        \A c \in DOMAIN QuoteTables : k[c] \in KlineTables[c]}
  /\ row = 1 /\ sql_ = <<>>
  /\ schema \in BOOLEAN /\ table \in BOOLEAN /\ (table => schema)
  /\ saved = <<>>

Accepted ==
  /\ call_option_chains_ # <<>> /\ put_option_chains_ # <<>>
  /\ Len(call_option_chains_) = Len(put_option_chains_)

\* init() returns false.
Refuse ==
  /\ phase = "created"
  /\ ~Accepted
  /\ phase' = "skipped"
  /\ UNCHANGED <<mergeVars, stock_quote_doc, bufferVars, dbVars>>

\* One turn of fetch_option_quote: the contract is entered whether or not its
\* query returned rows; an entry that exists stays.  After the last contract
\* start() goes on at next.
FetchNext(chain, quote, next) ==
  LET code == chain[row].option_code
  IN  /\ quote' = [c \in DOMAIN quote \union {code} |->
                     IF c \in DOMAIN quote THEN quote[c] ELSE KlineItems(kline_tables[c])]
      /\ row' = IF row < Len(chain) THEN row + 1 ELSE 1
      /\ phase' = IF row < Len(chain) THEN phase ELSE next
      /\ UNCHANGED <<chainVars, option_count_, mfp_cache, loopVars, priceVars,
                     stock_quote_doc, sql_, dbVars>>

FetchCall ==
  /\ phase = "created" /\ Accepted
  /\ FetchNext(call_option_chains_, call_option_quote_, "fetch_put")
  /\ UNCHANGED put_option_quote_

FetchPut ==
  /\ phase = "fetch_put"
  /\ FetchNext(put_option_chains_, put_option_quote_, "check")
  /\ UNCHANGED call_option_quote_

\* Mutated forms of CheckSchema: a missing schema makes start() begin again, and
\* option_count_ is not set.
CheckSchemaAgain ==
  /\ phase = "check"
  /\ IF schema
     THEN /\ table' = TRUE
          /\ option_count_' = Len(call_option_chains_)
          /\ phase' = "csv"
     ELSE /\ phase' = "created"
          /\ UNCHANGED <<table, option_count_>>
  /\ UNCHANGED <<chainVars, call_option_quote_, put_option_quote_, mfp_cache, loopVars,
                 priceVars, stock_quote_doc, bufferVars, kline_tables, schema, saved>>

CheckSchemaUncounted ==
  /\ phase = "check" /\ schema
  /\ table' = TRUE
  /\ phase' = "csv"
  /\ UNCHANGED <<chainVars, quoteVars, mfp_cache, loopVars, priceVars,
                 stock_quote_doc, bufferVars, kline_tables, schema, saved>>

\* The test for empty quotes cannot succeed here: both maps have an entry per
\* contract.  get_schema finds the schema or sends "create scheme...", which
\* the server rejects; the CREATE TABLE of check_schema's handler then fails
\* too and its error leaves start().
CheckSchema ==
  /\ phase = "check"
  /\ DOMAIN call_option_quote_ # {} /\ DOMAIN put_option_quote_ # {}
  /\ IF schema
     THEN /\ table' = TRUE
          /\ option_count_' = Len(call_option_chains_)
          /\ phase' = "csv"
     ELSE /\ phase' = "aborted"
          /\ UNCHANGED <<table, option_count_>>
  /\ UNCHANGED <<chainVars, call_option_quote_, put_option_quote_, mfp_cache, loopVars,
                 priceVars, stock_quote_doc, bufferVars, kline_tables, schema, saved>>

\* The CREATE TABLE of check_schema took effect though its answer is lost.
TableCreatedUnseen == phase = "check" /\ schema /\ table' = TRUE

\* An error of the session, of the CSV reader or of stod is not caught before
\* main(): std::terminate.
UncaughtError ==
  /\ \/ phase = "created" /\ Accepted
     \/ phase \in {"fetch_put", "check", "csv"}
     \/ phase = "bars" /\ step = "read"
  /\ phase' = "aborted"
  /\ table' = table \/ TableCreatedUnseen
  /\ UNCHANGED <<mergeVars, stock_quote_doc, bufferVars, kline_tables, schema, saved>>
-----------------------------------------------------------------------------
\* process(): the file is read and the cache gets a zero entry per call.
ReadCsv ==
  /\ phase = "csv"
  /\ stock_quote_doc' \in TickFiles
  /\ mfp_cache' = [c \in CodesOf(call_option_chains_) |-> FreshCache]
  /\ phase' = "bars"
  /\ UNCHANGED <<chainVars, quoteVars, loopVars, priceVars, bufferVars, dbVars>>

\* get_date_time: the row index of the last tick filed under each key.
stock_date_time_indexes ==
  LET rows == DOMAIN stock_quote_doc
      Key(i) == DateTimeKey(stock_quote_doc[i].time, TRUE)
  IN  [k \in {Key(i) : i \in rows} |-> Max({i \in rows : Key(i) = k}) - 1]

TickBefore(b) == find_idx(stock_date_time_indexes, BarTime[b])

StartBar ==
  /\ phase = "bars"
  /\ TickBefore(bar) # -1
  /\ ReadSpot(stock_quote_doc[TickBefore(bar) + 1].close_price)
  /\ UNCHANGED <<phase, stock_quote_doc, bufferVars, dbVars>>

MergeQuotes ==
  /\ phase = "bars"
  /\ MergePair \/ PriceBar
  /\ UNCHANGED <<phase, stock_quote_doc, bufferVars, dbVars>>

RowOf(cp, chain) == [time |-> bar, CP |-> cp, chain |-> chain]

\* Mutated form of CalcAndSave: the row of the put is formatted from the call.
CalcAndSaveCallTwice ==
  /\ phase = "bars" /\ step = "use" /\ row <= option_count_
  /\ sql_' = sql_ \o <<RowOf("call", call_option_chains_[row]),
                       RowOf("put", call_option_chains_[row])>>
  /\ row' = row + 1
  /\ UNCHANGED <<mergeVars, phase, stock_quote_doc, dbVars>>

\* One turn of calc_and_save: the volatilities pass the two assertions and
\* the rows of the call and of the put are appended.
CalcAndSave ==
  /\ phase = "bars" /\ step = "use" /\ row <= option_count_
  /\ \E call_iv, put_iv \in IVs : call_iv <= 100 /\ put_iv <= 100
  /\ sql_' = sql_ \o <<RowOf("call", call_option_chains_[row]),
                       RowOf("put", put_option_chains_[row])>>
  /\ row' = row + 1
  /\ UNCHANGED <<mergeVars, phase, stock_quote_doc, dbVars>>

\* assert(idx != -1), assert(call_iv <= 100.0), assert(put_iv <= 100.0).
AssertionFails ==
  /\ phase = "bars"
  /\ \/ step = "read" /\ TickBefore(bar) = -1
     \/ /\ step = "use" /\ row <= option_count_
        /\ \E call_iv, put_iv \in IVs : call_iv > 100 \/ put_iv > 100
  /\ phase' = "aborted"
  /\ UNCHANGED <<mergeVars, stock_quote_doc, bufferVars, dbVars>>

\* Mutated form of EndBar: the rows are stored bar by bar.
EndBarStoring ==
  /\ phase = "bars" /\ step = "use" /\ row > option_count_
  /\ NextBar
  /\ row' = 1
  /\ saved' = sql_
  /\ UNCHANGED <<phase, stock_quote_doc, sql_, kline_tables, schema, table>>

EndBar ==
  /\ phase = "bars" /\ step = "use" /\ row > option_count_
  /\ NextBar
  /\ row' = 1
  /\ UNCHANGED <<phase, stock_quote_doc, sql_, dbVars>>

EndBars ==
  /\ phase = "bars" /\ step = "use" /\ row > option_count_
  /\ bar = NBars
  /\ phase' = "insert"
  /\ UNCHANGED <<mergeVars, stock_quote_doc, bufferVars, dbVars>>
-----------------------------------------------------------------------------
Insert ==
  /\ phase = "insert"
  /\ saved' = saved \o sql_
  /\ phase' = "done"
  /\ UNCHANGED <<mergeVars, stock_quote_doc, bufferVars, kline_tables, schema, table>>

\* Mutated form of InsertError: the INSERT is sent again.
InsertErrorRetry ==
  /\ phase = "insert"
  /\ saved' \in {saved, saved \o sql_}
  /\ phase' = "insert"
  /\ UNCHANGED <<mergeVars, stock_quote_doc, bufferVars, kline_tables, schema, table>>

\* The session reports an error for the INSERT, which took effect or not:
\* exit(1).
InsertError ==
  /\ phase = "insert"
  /\ saved' \in {saved, saved \o sql_}
  /\ phase' = "exited"
  /\ UNCHANGED <<mergeVars, stock_quote_doc, bufferVars, kline_tables, schema, table>>

\* A signal ends the program; a statement already sent may still take effect.
Killed ==
  /\ phase \in Running
  /\ phase' = "killed"
  /\ saved' = saved \/ (phase = "insert" /\ saved' = saved \o sql_)
  /\ table' = table \/ TableCreatedUnseen
  /\ UNCHANGED <<mergeVars, stock_quote_doc, bufferVars, kline_tables, schema>>

Step ==
  \/ Refuse \/ FetchCall \/ FetchPut \/ CheckSchema \/ ReadCsv
  \/ StartBar \/ MergeQuotes \/ CalcAndSave \/ EndBar \/ EndBars \/ Insert

ProcessNext == Step \/ UncaughtError \/ AssertionFails \/ InsertError \/ Killed

\* The thread of main() keeps executing, and the server answers or fails every
\* statement sent to it: the session has no timeout (Sql.cpp:10), so that a
\* server that did neither would hold the thread for ever.  Nothing makes a
\* statement fail.
ProcessSpec ==
  ProcessInit /\ [][ProcessNext]_processVars
    /\ WF_processVars(Step \/ AssertionFails)
-----------------------------------------------------------------------------
\* Types of the variables this module adds; the phases with an empty object
\* and the range of the row index are those of start() and calc_and_save.
ProcessTypeOK ==
  /\ phase \in Running \union Final
  /\ phase \in {"bars", "insert", "done", "exited"} => TypeOK
  /\ stock_quote_doc \in Seq(Tick)
  /\ row \in 1..(Len(call_option_chains_) + 1)
  /\ Len(sql_) <= 2 * NBars * option_count_
  /\ schema \in BOOLEAN /\ table \in BOOLEAN /\ (table => schema)
  /\ \A c \in DOMAIN QuoteTables : kline_tables[c] \in KlineTables[c]
  /\ saved \in {<<>>, sql_}

\* How many rows are in the buffer when pair i of bar b is about to be added.
RowsBefore(b, i) == 2 * ((b - 1) * option_count_) + 2 * (i - 1)

Buffered(b, i) == RowsBefore(b, i) + 2 <= Len(sql_)

\* The items of a contract as the database has them: of several rows of a bar
\* the first.
FirstRows(code, items) ==
  LET rows == kline_tables[code]
  IN  /\ DOMAIN items = {rows[n].bar : n \in DOMAIN rows}
      /\ \A n \in DOMAIN rows :
           (\A m \in 1..(n - 1) : rows[m].bar # rows[n].bar) =>
             items[rows[n].bar] = rows[n].item

\* Row n is the one of this side of pair i at bar b and has the quotes of the
\* contract from the last common bar of the pair up to b.
Shows(n, cp, i, b, contract, items) ==
  /\ FirstRows(contract.option_code, items)
  /\ sql_[n].time = b /\ sql_[n].CP = cp
  /\ sql_[n].chain.option_code = contract.option_code
  /\ \E s \in 0..b : LastCommonBar(i, b, s) /\ sql_[n].chain.kline = ItemAt(items, s)

\* The rows buffered for the INSERT follow the bars and the pairs without a
\* gap or a repetition, the whole day when the INSERT is sent, and each shows
\* the contract it names as it stood at its own bar: the quote its kline table
\* has for the last common bar of the pair (process.cpp:112-143, 268-343 after
\* 415-430).
RowsMatchQuotes ==
  /\ phase = "insert" => Len(sql_) = 2 * NBars * option_count_
  /\ \A b \in Bars, i \in 1..option_count_ :
       Buffered(b, i) =>
         /\ Shows(RowsBefore(b, i) + 1, "call", i, b, call_option_chains_[i], CallItems(i))
         /\ Shows(RowsBefore(b, i) + 2, "put", i, b, put_option_chains_[i], PutItems(i))

\* Row n has the volumes of the contract's first rows added up over the common
\* bars of pair i up to b.
Counts(n, i, b, contract, items) ==
  /\ FirstRows(contract.option_code, items)
  /\ sql_[n].chain.total_trade_amount = VolumeUpTo(items, CommonBars(i), b)

\* The volume of a row is the sum of what the kline table has for the common
\* bars up to the row's own: however often the table repeats a bar, and however
\* often a quote is shown again after it, it counts once (process.cpp:124, 394,
\* 402, 421, 429 with 303, 329).
RowsCountVolumes ==
  \A b \in Bars, i \in 1..option_count_ :
    Buffered(b, i) =>
      /\ Counts(RowsBefore(b, i) + 1, i, b, call_option_chains_[i], CallItems(i))
      /\ Counts(RowsBefore(b, i) + 2, i, b, put_option_chains_[i], PutItems(i))

\* The stock price a bar is computed with was quoted in a second before the
\* bar's, no other tick of an earlier second is more recent, and of several
\* ticks of that second it is the last in the file (process.cpp:95-101,
\* 225-235, 515-518).
NoLookAhead ==
  phase = "bars" /\ step # "read" =>
    \E i \in DOMAIN stock_quote_doc :
      LET Second(j) == (stock_quote_doc[j].time \div 100) % 1000000
      IN  /\ stock_quote_doc[i].close_price = stock_close_price
          /\ Second(i) < BarTime[bar]
          /\ \A j \in DOMAIN stock_quote_doc :
               \/ Second(j) >= BarTime[bar]
               \/ Second(j) < Second(i)
               \/ Second(j) = Second(i) /\ j <= i

\* assert(idx != -1) ends a day only before its first row: once the file has a
\* tick for the first bar, every later bar finds one, wherever the ticks of the
\* file stop or go back (process.cpp:224-226, 513-519).
OnlyFirstBarLacksTick ==
  phase = "bars" /\ TickBefore(bar) = -1 => bar = 1 /\ sql_ = <<>>

\* The database as the rest of the world sees it.
dayOutcome ==
  CASE phase \in {"created", "fetch_put", "check"} -> "deciding"
    [] phase \in {"csv", "bars", "insert"} -> "working"
    [] phase = "done" -> "saved"
    [] phase = "skipped" -> "skipped"
    [] OTHER -> "failed"

dayRows ==
  IF saved = <<>> THEN "none" ELSE IF saved = sql_ THEN "all" ELSE "torn"

Abstract == INSTANCE DayStore
              WITH outcome <- dayOutcome, table <- table, rows <- dayRows

\* One object implements the abstract day: whatever fails and wherever the
\* process dies, the database gets the buffered day as a whole or not at all,
\* a refused day leaves no trace, and only a stored day reports success
\* (start, init and the tail of process, process.cpp:156-189, 247-255).
ImplementsDayStore == Abstract!Spec

\* A day comes to an end, stored, skipped, or with the program, as long as the
\* server answers: no error sends start() round again (process.cpp:156-189,
\* 195-206, 222-255).
Termination == <>(phase \in Final)

Stage(p) ==
  CASE p = "created" -> 1 [] p = "fetch_put" -> 2 [] p = "check" -> 3 [] p = "csv" -> 4
    [] p = "bars" -> 5 [] p = "insert" -> 6 [] OTHER -> 7

Place(s) == CASE s = "read" -> 1 [] s = "merge" -> 2 [] s = "price" -> 3 [] OTHER -> 4

\* A step to a later stage or, inside one, to a later contract, bar, part of the
\* bar, pair or row.
Forward ==
  \/ Stage(phase') > Stage(phase)
  \/ phase' = phase /\ phase \in {"created", "fetch_put"} /\ row' > row
  \/ /\ phase' = phase /\ phase = "bars"
     /\ \/ bar' > bar
        \/ bar' = bar /\ Place(step') > Place(step)
        \/ bar' = bar /\ step' = step /\ pair' > pair /\ row' = row
        \/ bar' = bar /\ step' = step /\ pair' = pair /\ row' > row

\* Nothing is done twice: the stages of start(), its contracts and bars, and the
\* pairs and rows of a bar are gone through in their order, each of which has an
\* end; no statement is sent again, whatever fails, and nothing follows the end
\* of the day (process.cpp:110-140, 156-189, 222-255, 268, 368).
NeverBack == [][Forward]_processVars

\* A day on which no contract of one side has a quote is refused: the test of
\* init() for empty quotes, with its message (process.cpp:174-178).
NoQuotesRefused ==
  phase = "done" =>
    /\ \E i \in 1..option_count_ : CallItems(i) # <<>>
    /\ \E i \in 1..option_count_ : PutItems(i) # <<>>

\* get_schema creates the database when it does not exist (Sql.h:37).
SchemaCreated == [][CheckSchema => schema']_processVars
=============================================================================
