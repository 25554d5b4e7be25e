----------------------------- MODULE TickFiles -----------------------------
(***************************************************************************)
(* The quote files of the ETF and the scripts that make them.              *)
(* scripts/extract_tick.py filters the raw Tick.csv of every day into      *)
(* data/<date>/510050.csv; when Tick.csv is a directory that holds the     *)
(* file, the second component it takes for the date is the whole path of   *)
(* the day, and the output lands beside the raw data.  scripts/test.py     *)
(* moves the files found there to data/<date>, from another device: mv     *)
(* copies, then unlinks.                                                   *)
(*                                                                         *)
(* The year in the paths is a setting edited by hand; the dates here are   *)
(* those of one year.  The programs are started by hand, any number of     *)
(* times and in any order, one at a time, and may die at any moment.       *)
(***************************************************************************)
EXTENDS Naturals, FiniteSets

CONSTANTS
  Dates,
  Raw,         \* the dates with a Tick.csv that is not empty
  Nested,      \* those of them where Tick.csv is a directory
  NoDate,
  MaxScripts   \* bound on the number of script runs

VARIABLES
  program,   \* the program that runs, or "none"
  csv,       \* data/<date>/510050.csv
  beside,    \* 510050.csv in the directory of the raw data
  todo,      \* the dates the script has not come to
  busy,      \* the date whose file it is writing or moving, or NoDate
  copied,    \* whether mv has copied the file of busy
  scripts,   \* history: the number of script runs so far
  had,       \* history: the dates with a whole file at some time
  hit        \* history: the script and the date of every death amid a file

fileVars == <<csv, beside, todo, busy, copied, scripts, had, hit>>
tickVars == <<program, fileVars>>

File == {"absent", "torn", "whole"}

ASSUME DateAssumption == Nested \subseteq Raw /\ Raw \subseteq Dates /\ NoDate \notin Dates

TickInit ==
  /\ program = "none"
  /\ csv = [d \in Dates |-> "absent"] /\ beside = [d \in Dates |-> "absent"]
  /\ todo = {} /\ busy = NoDate /\ copied = FALSE
  /\ scripts = 0 /\ had = {} /\ hit = {}

Start(script, dates) ==
  /\ program = "none" /\ scripts < MaxScripts
  /\ program' = script
  /\ todo' = dates
  /\ scripts' = scripts + 1
  /\ UNCHANGED <<csv, beside, busy, copied, had, hit>>

StartExtract == Start("extract", Raw)
StartMove == Start("move", Dates)

\* glob returns the directories in no particular order.
AtDate(script, d) == program = script /\ busy = NoDate /\ d \in todo

\* Nothing is done for this date.
Pass(d) ==
  /\ todo' = todo \ {d}
  /\ UNCHANGED <<program, csv, beside, busy, copied, scripts, had, hit>>
-----------------------------------------------------------------------------
Output(d) == IF d \in Nested THEN beside[d] ELSE csv[d]

WriteOutput(d, file) ==
  /\ csv' = IF d \in Nested THEN csv ELSE [csv EXCEPT ![d] = file]
  /\ beside' = IF d \in Nested THEN [beside EXCEPT ![d] = file] ELSE beside

\* A file that exists, whatever it holds, is not written again.
ExtractSkip(d) ==
  /\ AtDate("extract", d)
  /\ Output(d) # "absent"
  /\ Pass(d)

\* Mutated form of ExtractBegin: an existing file is overwritten.
ExtractBeginAnyway(d) ==
  /\ AtDate("extract", d)
  /\ busy' = d
  /\ WriteOutput(d, "torn")
  /\ UNCHANGED <<program, todo, copied, scripts, had, hit>>

\* to_csv opens the file...
ExtractBegin(d) ==
  /\ AtDate("extract", d)
  /\ Output(d) = "absent"
  /\ busy' = d
  /\ WriteOutput(d, "torn")
  /\ UNCHANGED <<program, todo, copied, scripts, had, hit>>

\* Mutated form of ExtractEnd: what is buffered is not written.
ExtractEndUnflushed(d) ==
  /\ program = "extract" /\ busy = d
  /\ busy' = NoDate
  /\ todo' = todo \ {d}
  /\ UNCHANGED <<program, csv, beside, copied, scripts, had, hit>>

\* ... and has written it.
ExtractEnd(d) ==
  /\ program = "extract" /\ busy = d
  /\ busy' = NoDate
  /\ todo' = todo \ {d}
  /\ WriteOutput(d, "whole")
  /\ had' = had \union {d}
  /\ UNCHANGED <<program, copied, scripts, hit>>
-----------------------------------------------------------------------------
\* mv finds no file; its status is ignored.
MoveNothing(d) ==
  /\ AtDate("move", d)
  /\ beside[d] = "absent"
  /\ Pass(d)

\* Whatever is in data/<date> is overwritten.
MoveBegin(d) ==
  /\ AtDate("move", d)
  /\ beside[d] # "absent"
  /\ busy' = d
  /\ csv' = [csv EXCEPT ![d] = "torn"]
  /\ UNCHANGED <<program, beside, todo, copied, scripts, had, hit>>

MoveCopied(d) ==
  /\ program = "move" /\ busy = d /\ ~copied
  /\ csv' = [csv EXCEPT ![d] = beside[d]]
  /\ copied' = TRUE
  /\ UNCHANGED <<program, beside, todo, busy, scripts, had, hit>>

\* Mutated form of MoveEnd: the file is unlinked before it is copied.
MoveEndEarly(d) ==
  /\ program = "move" /\ busy = d
  /\ beside' = [beside EXCEPT ![d] = "absent"]
  /\ busy' = NoDate /\ copied' = FALSE
  /\ todo' = todo \ {d}
  /\ UNCHANGED <<program, csv, scripts, had, hit>>

MoveEnd(d) ==
  /\ program = "move" /\ busy = d /\ copied
  /\ beside' = [beside EXCEPT ![d] = "absent"]
  /\ busy' = NoDate /\ copied' = FALSE
  /\ todo' = todo \ {d}
  /\ UNCHANGED <<program, csv, scripts, had, hit>>
-----------------------------------------------------------------------------
\* An exception, a full disk, a signal; busy tells what it struck.
ScriptDies ==
  /\ program \in {"extract", "move"}
  /\ program' = "none"
  /\ hit' = IF busy = NoDate THEN hit ELSE hit \union {<<program, busy>>}
  /\ todo' = {} /\ busy' = NoDate /\ copied' = FALSE
  /\ UNCHANGED <<csv, beside, scripts, had>>

ScriptEnds ==
  /\ program \in {"extract", "move"} /\ todo = {}
  /\ program' = "none"
  /\ UNCHANGED fileVars

TickNext ==
  \/ StartExtract \/ StartMove \/ ScriptDies \/ ScriptEnds
  \/ \E d \in Dates :
       \/ ExtractSkip(d) \/ ExtractBegin(d) \/ ExtractEnd(d)
       \/ MoveNothing(d) \/ MoveBegin(d) \/ MoveCopied(d) \/ MoveEnd(d)
-----------------------------------------------------------------------------
\* A truncated file in data/ is the one being written, or was left by an
\* extraction that died, or by a mv that died and then the whole file is still
\* where it was (extract_tick.py:22-33, test.py:14).
TornExplained ==
  \A d \in Dates :
    csv[d] = "torn" =>
      busy = d \/ <<"extract", d>> \in hit \/ beside[d] = "whole"

\* A date that ever had a whole file has one still, in data/ or beside the raw
\* data, unless an extraction of that date died: mv takes a truncated file over
\* a whole one, and extract_tick writes one when the whole one has been moved
\* away (extract_tick.py:22-33, test.py:14).
WholeSurvives ==
  \A d \in had :
    csv[d] = "whole" \/ beside[d] = "whole" \/ <<"extract", d>> \in hit

\* A file that a died extraction left truncated in data/ stays as it is however
\* often the scripts are run again (extract_tick.py:22-24).
TornStays ==
  [][\A d \in Dates \ Nested :
       csv[d] = "torn" /\ <<"extract", d>> \in hit => csv'[d] = "torn"]_tickVars
=============================================================================
