# Verification of option-process-cpp

The program reads the listing of the 510050 ETF options of every trading day of
2020 (a JSON file), the quotes of the ETF (one CSV file per day) and the quotes
of every contract (MySQL tables `option_kline_<year>.<code>`), and writes, for
every 15-second bar of the day and every call and put of the nearest expiry, a
row with prices, volumes, implied volatility and greeks into `iv_<year>.<date>`.
Python scripts prepare the CSV files and the listing; `FixedThreadPool.h` is a
thread pool the program does not use yet.
This directory models its control in TLA+, checks it with TLC and proves most
of it with TLAPS. Paths below are those of the repository (`src/` is the
repository root here, so its own `src` directory is `src/src`).

## Inventory

| Component | State | Operations | Talks to | What makes it correct |
|---|---|---|---|---|
| Option chain parser, `option_chain_parser`, `Process::Process` (`process.cpp:45-85, 146-154`) | `min_expire_date`, the vector it builds | one turn per JSON entry, `break` at a later expiry, early return for a missing key; called for "call", then "put" | JSON document; result read by `init` | a chain is a well-defined prefix of the listing, the nearest expiry in an ordered one, and the two chains pair up by position |
| Day, `Process::start/init/check_schema/process/calc_and_save` (`process.cpp:106-360`) | chains, quote maps, `option_count_`, `sql_` | refuse, fetch call and put quotes, check schema, read CSV, one bar after another, one row pair after another, INSERT | session, merge, clock, volatility | a day is stored whole or not at all; rows show the quotes of their own bar; no look-ahead in the stock price |
| Merge, both `merge_future_price_calc` (`process.cpp:362-468`) | `mfp_cache`, kline fields of the chains | refresh an entry, copy it to the chains, collect strikes below and above the spot, mean of four | quote maps, chains | both legs of a pair come from one bar, the last common one; volumes are counted once; the price is a mean of the neighbours |
| Time index, `get_date_time`, `find_idx` (`process.cpp:87-104, 512-520`) | ordered map second -> row | build, look up | CSV document, bar loop | the latest tick of an earlier second |
| Trading clock, `get_time_range` (`utils.h`), `effective_time_etf` (`iv.h`), `process.cpp:228-242` | none | pure functions | bar loop, volatility | maturity falls within a day, is zero only at the very end, and its step over night is that of the listed counts |
| Implied volatility, `implied_volatility_calc` (`iv.h`), `option_iv_calc`, the two assertions | `low`, `high` | bisect, assert | clock, `calc_and_save` | the bracket keeps the answer; the program is aborted only for a reason |
| Greeks (`iv.h`, `greek_alphabet_calc`) | none | closed formulas | `calc_and_save` | not modelled (real analysis) |
| Session, `Sql` (`helper/Sql.*`) | one session, one mutex | `execute_sql_command`, `get_schema` | every day | statements fail or succeed on their own; a missing schema is created |
| Batch, `main` (`main.cpp:45-98`) | position in the list of dates | one `Process` per date, until one fails | every day; the files of the scripts | every completed run stores every fit day once; no day before an earlier one |
| `fixed_thread_pool` (`FixedThreadPool.h`) | task queue, shutdown flag, mutex, condition variable | constructor, worker loop, `execute`, destructor | the threads that use it (none yet) | every queued task is started once, in order; nobody sleeps over work; workers end |
| Quote files, `extract_tick.py`, `test.py` | `data/<date>/510050.csv`, the file beside the raw data | extract, skip what exists, move | file system, `main` | a truncated file has a known cause; a whole one survives |
| Listing, `cp_p.py`, `holiday.py` | holidays found, the counting loop, the result | ask the calendar service, count the trading days | web service; `expiredate_t` read by the parser | counts are exact up to what the service leaves out, and ordered like the dates |
| `extract_option.py`, `wind_fetch.py` | files | download, filter, write | web service, CSV | not modelled |

What is hard in this code: data that are *carried forward* when one leg of a
pair is missing; state kept in four containers that are only related by
position or by code; the database, which may fail, lose an answer or miss a
schema at any statement while the rows of a whole day are in memory; programs
that are started again by hand over files and tables an earlier run has left;
numeric boundaries (one-element lists, the noon break, zero maturity, an
assertion as the only error handling). The program itself has one thread: its
interleavings are those with the database server, the operating system, the
scripts and the content of its inputs. Only the pool has threads of its own.
`PROJECT.json` lists every hazard at its line.

## Modules

| Module | Models |
|---|---|
| `MergeFuture` | the bar loop of `process()` and both overloads of `merge_future_price_calc` |
| `DateTimeIndex` | operators for `get_date_time` and `find_idx` |
| `Process` | one object from its constructor to the end of `start()`; extends `MergeFuture`, whose actions are steps of its own |
| `DayStore` | the abstract day: turned down without a trace, or table made and all rows stored in one step |
| `TradingClock` | the bars and the time left, as exact integers |
| `ImpliedVol` | bisection and assertions, bar after bar until the option expires |
| `OptionChains` | both calls of the parser and the size tests of `init()` |
| `FixedThreadPool` | the pool: owner, workers and clients, mutex and condition variable |
| `TaskPool` | the promise of a pool: a queue of tasks, each started once and finished |
| `TickFiles` | the quote files and the two scripts that write them, with their deaths |
| `Batch` | `main()` over the dates; extends `TickFiles`, every day is an instance of `DayStore` |
| `ExpiryCount` | `cp_p.py` with the answers `get_holiday` gives it |
| `MC*` | values of the constants for TLC |
| `*_proofs` | theorems |

How they compose: `Process` extends `MergeFuture` and `DateTimeIndex` and
implements `DayStore`; `Batch` runs one `DayStore` per date over the files of
`TickFiles`; `FixedThreadPool` implements `TaskPool`. So what `Batch` says of a
day holds of the detailed one.

### MergeFuture

`step` is the place in the loop body (`read`, `merge`, `price`, `use`), `pair`
the index of the merging loop. Lines 225-235 are `ReadSpot`; one turn of the
loop 368-431 is `MergePair` (the `try` block is `Refreshed`, the copies 415-430
are `Showing`); the second overload is `PriceBar`; `NextBar` closes the loop.
The seven fields copied together are one item of a close price and a volume,
the two the program computes with. The names of the code are kept, the odd one
included: the accumulated volume goes to `total_trade_amount`.
Prices are integers in ticks of 0.0001, the unit of `m_round`. A read outside a
one-element vector returns any member of `StrayDoubles`.

`ListingOK` says a listing names a contract once. `mfp_cache` is keyed by code;
two entries of one code would share an entry.

### Process

`phase` is the place in `start()`: `created` (`init` and the queries for the
calls), `fetch_put`, `check`, `csv`, `bars`, `insert`, then `skipped`, `done`,
`aborted`, `exited` or `killed`.
`kline_tables` is what the database holds: `FetchCall` and `FetchPut` are one
contract each, and `KlineItems` the map made of an answer, in which the first
row of a bar wins.
`StartBar`, `MergeQuotes` and `EndBar` are the actions of `MergeFuture` with
the spot looked up by `find_idx`; `CalcAndSave` is one turn of the loop
268-359. A buffered row keeps the chain it is formatted from. Errors are
actions of their own: `UncaughtError` (session, CSV or number: `std::terminate`),
`AssertionFails` (assertions are active: no build in the tree defines
`NDEBUG`), `InsertError` (the `catch` with `exit(1)`) and `Killed`. The two
that may strike while a statement is at the server leave it open whether the
statement took effect.

### OptionChains, TradingClock, ImpliedVol

`Keep` and `Break` are the two outcomes of a turn of the parser's loop,
`Return` ends one call and starts the next. `TradingClock` counts seconds, and
the time left in 1/14400 of a day, so nothing is rounded. `ImpliedVol` follows
one option over the days `main` runs. Every day reads `expiredate_t` afresh from
its own listing, where it was counted with the holidays the calendar service
named for that date, and the list of dates has gaps: `counts` holds the number
read on each day, and nothing ties one to the next. The search cuts [0, 5.0] into `Top` cells; `above[v]` is the comparison `bs > target`, whose
only assumed property is that the price does not fall with the volatility. At
zero maturity `d1` divides by zero and the comparison no longer depends on the
volatility.

### FixedThreadPool, TaskPool

What a thread does while it holds the mutex is one step (`TakeTask`, `Leave`,
`Wait`, `Emplace`, `Shutdown`); taking the mutex (`Lock`), running a task and
`notify_all` are steps of their own, so that every interleaving the code allows
is one of the model. `pc` is the place of each thread; a thread is in the wait
set of `cond_` exactly at `"waiting"`, and may leave it spuriously. `Spawn` and
`SpawnFails` are the constructor, `BeginDestroy` to `NotifyAll(Owner)` the
destructor, which C++ allows only when no client is inside `execute`.
`TaskThrows` and `Exit` end the program with the detached workers where they
are. `TaskPool` keeps the queue, the tasks that run and the finished ones; its
fairness says that a queued task is started and a started one finished, unless
the program ends.

### TickFiles, Batch

A file is absent, torn (being written, or left so by a death) or whole. `csv`
is `data/<date>/510050.csv`, `beside` the file that `extract_tick.py` puts next
to the raw data when `Tick.csv` is a directory: there line 19 takes the whole
path of the day for its date. `ExtractBegin`, `ExtractEnd` are `to_csv`,
`MoveBegin`, `MoveCopied`, `MoveEnd` the copy and the unlink of a `mv` between
devices. `Batch` runs `main()`: `DayStep` is any step of `DayStore` for the
current date, `NextDay` the loop, and `MainEnds` the end after a failed day. A
day without a file cannot be stored; one with a torn file may be, since
`rapidcsv` reads what is there. `Refused`, the dates that `init` turns down, is the
same in every start of `main`: the listing and the kline tables are taken as
unchanged between the runs, and `EarlierFirst` and `CopiesCountRuns` say nothing
of a batch whose inputs are replaced in between. `stored` remembers which file each copy of a
day was computed from. The programs and scripts are started by hand, one at a
time, and the year in the paths is edited between years; a run of one over the
files of another that is still writing is outside the model.

### ExpiryCount

`Ask` is one answer of the calendar service: any of the closed days. It stops
early whenever it likes (`Answered`), which is the `IndexError` of
`holiday.py:66`, or ends the script (`Crash`). `CountDay` is one turn of the
loop `cp_p.py:36-40`. An item keeps the holidays it was counted with, which the
code forgets. That an answer names closed days only is assumed of the service.

## Runs

| Run | Question | Bounds | Result |
|---|---|---|---|
| `carry` | what a pair shows and accumulates (`TypeOK`, `CarryForward`, `CumulativeVolume`) | 2 pairs, 3 bars, all 8 subsets of bars for each of 4 legs | holds |
| `price` | `PriceInHull` | 4 pairs in two orders, 6 spots, any leg missing | holds |
| `today_volume` | does the "today volume" column accumulate? | as `carry` | violated |
| `day` | `ProcessTypeOK`, `RowsMatchQuotes`, `RowsCountVolumes`, `NoLookAhead`, `OnlyFirstBarLacksTick`, `ImplementsDayStore`, `NeverBack`, `Termination` | 2 bars, 2 pairs, all quote subsets, a table loaded twice, 3 refused listings, 3 tick files, every failure | holds |
| `create_schema` | is a missing schema created? | as `day` | violated |
| `no_quotes` | is a day refused when one side has no quotes? | as `day` | violated |
| `implied_vol` | `TypeOK`, `Bracket`, `TimeLeft`, `AbortJustified`, `MaturityDecreases`, `SearchEnds` | 957 bars of 2 days, 4 pairs of listed counts (falling by one and by two, the same, rising), 16 cells, all thresholds | holds |
| `expiry_close` | may the assertion fail if every quote implies at most 100 percent? | as above, the last two days of an option, 4 thresholds | violated |
| `option_chains` | `TypeOK`, `LongestPrefix`, `NearestExpiry`, `PairedByPosition` | all pairs of arrays of up to 3 entries, 2 strikes, 3 expiries | holds |
| `pool` | `TypeOK`, `NoLostWakeup`, `Drained`, `NobodySleeps`, `ImplementsTaskPool`, `WorkersLeave` | 3 workers, 2 clients, 4 tasks, one throwing | holds |
| `batch` | `BatchTypeOK`, `TornExplained`, `WholeSurvives`, `TornStays`, `CopiesCountRuns`, `EarlierFirst`, `StoredTornExplained` | 3 dates, one refused, one nested; 4 script runs, 2 starts of `main` | holds |
| `expiry` | `TypeOK`, `CountsMissedClosures`, `ExpiryOrderKept`, `TradingDaysKept` | 4 dates over a weekend, 3 last trade dates, 4 sets of closed days, all answers | holds |

Why the bounds are enough. In `carry` three bars give a pair every pattern of
quoted, missing, quoted again, and two pairs show interference over the shared
cache; all prices and volumes differ, so a value from the wrong bar, leg or
pair cannot pass. In `price` four pairs are the least with two strikes on both
sides. In `day` two bars and two pairs make both loops of the buffer turn; the
tick files have two ticks in one second, a tick in the bar's own second, ticks
out of order with none in the last 15 seconds before the second bar, and a first
tick that is too late. In `implied_vol` the bars are
the real ones; sixteen cells are four levels of the bisection, with thresholds
below, between and above all cells. Two days have one night, and the pairs of
counts are every way a listing may go over it, the expiry day included. In
`option_chains` three entries suffice for near, far, near again, and for one side
that lacks any contract of the other.
In `pool` three workers allow one to run a task, one to sleep and one to race
for the mutex; two clients are the least to call `execute` at once; with four
tasks the queue may hold more tasks than there are workers to wake. In `batch`
two starts of `main` are the least that can store a day twice, three dates put
a refused one between two others, and four script runs are the least for the
longest story in the scripts: extract, move, an extraction that dies, a move
over the whole file. In `expiry` the dates have a trading day before, inside
and after a weekend, and the service is asked up to three times per date
(`Stride` 3, `Year` 6; 90 and 365 in the code).

Deadlock is not checked: every model stops where the program does (the end of
the day, of the object, of the option's life or of the script), and the workers
of a pool that is never destroyed sleep for good.

Fairness. The program is one thread that runs whenever it can, so `Process` has
weak fairness of its own steps and the failing assertions, none of the failure
actions. A step that waits for a statement is among its own: the assumption is
that the server answers or fails every statement. The code does not enforce it
(`Sql.cpp:10` sends without a timeout, holding the mutex); with a server that does
neither, `Termination` does not hold. `ImpliedVol` has weak fairness of `Next`. `MergeFuture` and
`OptionChains` have none, nor have `Batch` and
`ExpiryCount`, their properties being safety. In the pool a thread outside the
mutex goes on when it can (weak fairness of each worker, each client and the
owner), and a free mutex is given to some thread that wants it. Which one is
left open, since `std::mutex` promises no order; a thread may lose for ever, and
`ImplementsTaskPool` and `WorkersLeave` hold nevertheless. Nothing makes a
client call `execute`, the owner destroy the pool, a thread wake spuriously or
the program end.

Mutants. Each property of a passing run comes with a mutated form of a
definition, defined just before the original and commented as such
(`RefreshedByLeg`, `find_idx_at`, `EndBarStoring`, ...): put in the original's
place it breaks the property. No specification uses them.

## What the violations show

* `today_volume`: nothing assigns `total_trade_volume`, which `process.cpp:301`
  comments as "today volume"; the accumulated volume is stored as turnover
  (`process.cpp:421, 429`).
* `no_quotes`: `process.cpp:174-178` refuses a day when the quotes of the calls or
  of the puts are empty, with a message. The test counts contracts, and
  `fetch_option_quote` (106-144) enters every contract of the chain, also one
  whose query returned no row. The trace is a day without any kline: all rows
  show price and volume 0 and are stored like those of a computed day.
* `create_schema`: `Sql.h:37` promises that a missing database is created;
  `Sql.cpp:22` sends `create scheme` and the name without a blank.
* `expiry_close`: at 15:00:00 of the expiry day no time is left, the price does
  not depend on the volatility, the bisection may answer 500 percent and
  `assert(call_iv <= 100.0)` ends the program with the day unsaved.

## Proofs

The assumptions are the named `ASSUME`s of the modules: at least one bar, quote
tables that map bars to items, kline tables whose answers are among them,
listings that satisfy `ListingOK`, integer prices; bars in ascending order, which
the theorem `BarsAscend` shows of the code's `get_time_range`; `Top` a positive
natural, thresholds naturals; expiries below the parser's initial minimum; listed counts that are naturals, at least
one day of them;
finitely many workers, threads and tasks kept apart; dates that are the positions
of a list.
TLC evaluates them in the runs above. The theorems hold for every value of the
constants, so for any number of pairs, bars, workers, tasks, dates and runs.

`MergeFuture_proofs`
* `TypeCorrect`: `Spec => []TypeOK`. The invariant is `Base`: `TypeOK`,
  `LoopOK` (during the merge the list is one shorter than `pair`, after it as
  long as the chains, so that every strike position is an index of the list)
  and `DistinctCalls`. `MaxInSet` and `MinInSet` show that the positions read
  by `LastTwo` and `FirstTwo` exist.
* `CarryHolds`: `Spec => []CarryForward`. `CarryForward` is not inductive: when
  a leg is missing, `MergePair` copies the cache, not what the chain showed.
  `CacheShown` adds that the two agree, and `DistinctCalls` that the turn of
  one pair leaves the entries of the others alone (`OtherPairs`); `CarryMerge`
  then splits on whether the bar is a common one.
* `PriceHolds`: `Spec => []PriceInHull`. `PricesShown` says that the list holds,
  position by position, the strike and synthetic price of the pairs merged so
  far; `LastTwoShown` and `FirstTwoShown` find the four prices among them, and
  `BoundsOfFour` and `QuarterBetween` are the arithmetic of the rounded mean.

`Volume_proofs`
* `VolumesAddUp`: `Spec => []CumulativeVolume`. `VolumeUpTo` is a fold over a set
  of bars, which the library unwinds by a recursion on sets, and the prover has no
  induction to follow it. The proof goes around it: `Total` adds volumes by
  counting, as the number of units (bar, n) with n up to the bar's volume, so
  that `TotalSplit` (one bar more adds its volume) is a fact on cardinalities.
  `FoldExists` shows by the set with the fewest elements (`SmallestSet`) that the
  recursion has a value at every finite set; `FoldIsTotal` shows, by a smallest set
  on which they differ, that this value is `Total`. `VolumeIsTotal` then gives
  `VolumeZero` and `VolumeStep`, the two facts the bar loop needs. The inductive
  invariant `VolumeInv` adds `CacheVolumes` to `CarryInv`: the totals in the cache
  are those of the bars merged so far, before and after the turn of the pair.

`OptionChains_proofs`: `ChainTypes`, `PrefixHolds`, `NearestHolds`,
`PairsMatch`. `ChainsInv` says of each side that its chain leads its array with
expiries that do not grow (`Leads`), that a parsed side has stopped at the end
or before a later expiry (`Stopped`), and that the call in progress remembers
the expiry of its last entry (`Remembered`). The other three are consequences
of it. `PairsMatch` assumes of the listing that one side's contracts of the
nearest expiry are among the other's, not that the two agree: as the chains have
equal length, they have the same members (`AmongBack`, by cardinality), and two
strictly ascending arrays with the same members are equal (`SameAscending`).

`ImpliedVol_proofs`
* `BarsAscend`: the times of the bars ascend in their decimal notation. `Parts`
  cuts a second into hour, minute and rest, `PartsAscend` compares them.
* `TypeCorrect`, `BracketHolds`: the conjunction with the shape of `above` is
  inductive for any `Top`, whereas TLC checks 16 cells; the code's is 2^29.
* `TimeIsLeft`, `MaturityFalls`: `DigitsRoundTrip` shows that
  `process.cpp:228-231` undo the decimal notation of `get_time_range`,
  `MaturityAtBar` gives the maturity of every bar, the rest is arithmetic, for any
  number of days and any counts. Over a night `MaturityFalls` is an equivalence:
  less time is left exactly when the next listing counts fewer days.
* `AbortIsJustified`: at the end of a search `low` lies within one cell of
  `high`, and more than 100 percent means that `low` is past that volatility.
* `TurnsHalve`: every turn leaves at most half of the bracket, rounded up, and less
  than the whole, so that a search over the code's 2^29 cells has 29 turns.

`Process_proofs` builds on `Volume_proofs`. `PInv` has the types, the
phases before the loop (`EarlyOK`: which contracts have been fetched and that
nothing of `process()` has run), the loop (`LateOK`: `LoopInv`, which is
`VolumeInv` and the `PricesShown` of the merge, and the buffer has exactly the
rows of the bars and pairs before this point) and `UnsavedOK`: nothing is stored
before the INSERT. `LoopStarts` shows that
`ReadCsv` leads into an initial state of `MergeFuture`, whose invariants the
composed program thereby keeps.
* `ObjectTypes`: `ProcessSpec => []ProcessTypeOK`.
* `LoopCarries`, `LoopAddsVolumes`, `LoopPrices`: `CarryForward`,
  `CumulativeVolume` and `PriceInHull` in the composed program.
* `PricesLookBack`: `ProcessSpec => []NoLookAhead`; `TickFound` shows that the
  index finds the last row of the greatest key below the bar's.
* `FirstBarDecides`: `ProcessSpec => []OnlyFirstBarLacksTick`. `TickExists` shows
  that no row index is mistaken for -1, so that a lookup fails only for want of an
  earlier tick; `TickForLaterBars` is where the bars have to ascend, and
  `TickKnown` is the invariant.
* `DayGoesForward`: `ProcessSpec => NeverBack`, from the ranges in `PInv`.
* `RowsShowQuotes`: `ProcessSpec => []RowsMatchQuotes`. `QuotesKept` says that
  an entry of a quote map is what its kline table makes of it, `FirstRowWins`
  that this is the first row of every bar; `RowsAppended` adds two rows, and
  `SamePosition` shows that only the pair and bar at hand have their position.
* `RowsCount`: `ProcessSpec => []RowsCountVolumes`. `VolumesCounted` says it of the
  quote maps: `CountsAppended` takes the totals of the new rows from
  `CumulativeVolume` of the bar they are written at. `RowsMatchQuotes` then ties
  the maps to the first rows of the kline tables.
* `ObjectIsDayStore`: `ProcessSpec => ImplementsDayStore`. `StoreNext` takes
  the steps one by one; that the rows appear in one step needs `UnsavedOK`, and
  that they are the whole day the row count of `LateOK`.

`FixedThreadPool_proofs`: `Inv` adds to the types that the mutex is held by the
thread that is inside (`Exclusion`) and that a task is in hand exactly between
its two hand-overs (`Hands`, which also says that clients are inside `execute`
only while the object lives). From it come `TypeCorrect`, `WakeupsKept`,
`QueueDrained` and `MutualExclusion`; `AllBorn`, that an object has all its
workers, is what `AllAwake` needs besides. `Once`, that no task is twice in the
queue, in hand or executed, is what the refinement needs besides:
`PoolIsFifo` is the safety part of `ImplementsTaskPool`.

`Batch_proofs`: `FileInv` says what the running script keeps about its file
(`BusyOK`) and where torn files come from (`FilesOK`); `TornFilesExplained`,
`WholeFilesSurvive`, `TornRowsExplained` and `TornFilesStay` follow. `RunsOK`
counts: every date has been stored between `completed` and `started` times, with
the current run's part `Gain` known from the position of the loop; it yields
`CopiesAreRuns` and `EarlierDaysFirst`. `DayOK` keeps the steps of the abstract
day within the run.

`ExpiryCount_proofs`: `Counted` is the set of days a loop has counted with given
holidays. `LoopsOK` says where the loops stand and that `expire_date` is its
size so far, `ItemsOK` the same of every item, `DatesOK` that the items of a
date share its holidays, `DoneOK` which contracts a date still lacks.
`OneMoreDay` and `NothingCounted` are the two facts on sizes of intervals they
need. `CountTypes`, `CountsAreExplained`, `CountsKeepOrder` and
`TradingDaysReachFile` follow.

Only model-checked is liveness, which is out of the prover's reach:
`Termination`, `SearchEnds`, `WorkersLeave` and the fairness of
`ImplementsTaskPool`. What is safety in them is proved: `DayGoesForward` and
`TurnsHalve` say that a day and a search cannot go on without getting nearer to
their end, `AllAwake` that a destroyed pool has no worker asleep. That a step is
possible where it should be (`ENABLED`) and is taken (fairness) is TLC's part.
Every invariant and action property of the passing runs is a theorem.

## Not modelled

The greeks and the Black-Scholes formula have no state and no control and are
about real numbers, which neither TLC nor the provers have; three of their
defects are listed as hazards with a note (`process.cpp:499`, `process.cpp:508`,
`iv.h:189`). Four more hazards have no property. The reads outside a one-element
vector (`process.cpp:457`) and the division of two prices by four (464) are wrong
in every state that reaches them, and no text says what the price should be
there: the model has both outcomes, and `PriceInHull` leaves the first out and
admits the second's 0. A server that never answers (`Sql.cpp:10`) is excluded by
the fairness above. Workers without an object (`FixedThreadPool.h:26`) do no
harm.
`extract_option.py` and `wind_fetch.py` fetch, filter and write, with nothing
carried from one item to the next. The tests print (`kafka`) or compare floating-point numbers
(`iv_test`). The mutex of `Sql` matters only with several threads; `main.cpp`
keeps its vector of threads empty. The vendored libraries (simdjson, rapidcsv,
flat_hash_map, the Kafka and MySQL clients), almost all lines of the tree, are
other projects' code: what the program relies on is part of the actions that
call them.

## Plan

What is left, in this order:

1. If `main` is given its threads: several `Process` objects over the one
   session of `Sql`, each a task of the pool, and the reading of a result after
   the mutex has been released.
2. The values of a row, should the greeks be computed in fixed point.
