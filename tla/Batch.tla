------------------------------- MODULE Batch -------------------------------
(***************************************************************************)
(* main() (main.cpp) over the files of TickFiles: the dates of the list    *)
(* one after another, each a day of DayStore, until a day fails and takes  *)
(* the program with it.  A later start begins again with the first date,   *)
(* and nothing tells a day that its rows are already stored.               *)
(*                                                                         *)
(* A day whose file is missing fails; one whose file is truncated fails or *)
(* is stored, the bars after the last tick with its price.                 *)
(***************************************************************************)
EXTENDS TickFiles, Sequences

CONSTANTS
  NDates,    \* the dates are the positions in the list, 1..NDates
  Refused,   \* the dates whose listing init() turns down
  MaxRuns    \* bound on the number of starts of the program

VARIABLES
  today,      \* the current date, when main() runs
  outcome,    \* how far it has got
  rows,       \* which of its rows this run has stored
  tables,     \* tables[d]: whether the table of d exists
  stored,     \* stored[d]: the days of rows in the table of d, each by the
              \* state of the file it was computed from
  started, completed   \* history: the runs begun and carried through

batchVars == <<today, outcome, rows, tables, stored, started, completed>>
allVars == <<tickVars, batchVars>>

ASSUME ListAssumption ==
  NDates \in Nat \ {0} /\ Dates = 1..NDates /\ Refused \subseteq Dates

Fit == Dates \ Refused

Day == INSTANCE DayStore WITH table <- tables[today]

BatchInit ==
  /\ TickInit
  /\ today = 1 /\ outcome = "saved" /\ rows = "none"
  /\ tables \in [Dates -> BOOLEAN]
  /\ stored = [d \in Dates |-> <<>>]
  /\ started = 0 /\ completed = 0

OpenDay(d) == today' = d /\ outcome' = "deciding" /\ rows' = "none"

StartMain ==
  /\ program = "none" /\ started < MaxRuns
  /\ program' = "main"
  /\ started' = started + 1
  /\ OpenDay(1)
  /\ UNCHANGED <<fileVars, tables, stored, completed>>

\* Rows reach the table of today, if they do.
Store ==
  stored' = IF rows' = rows THEN stored
            ELSE [stored EXCEPT ![today] = Append(@, csv[today])]

\* A step of start(): the table of today is all it may touch besides.
DayStep ==
  /\ program = "main"
  /\ \E made \in BOOLEAN : tables' = [tables EXCEPT ![today] = made]
  /\ today' = today
  /\ \/ today \in Refused /\ Day!Skip
     \/ today \notin Refused /\ Day!Accept
     \/ csv[today] # "absent" /\ Day!Save
     \/ Day!Fail /\ (csv[today] = "absent" => rows' = rows)
  /\ Store
  /\ UNCHANGED <<program, fileVars, started, completed>>

DayOver == program = "main" /\ outcome \in {"saved", "skipped"}

\* Mutated form of NextDay: the loop runs past the list.
NextDayBeyond ==
  /\ DayOver
  /\ OpenDay(today + 1)
  /\ UNCHANGED <<program, fileVars, tables, stored, started, completed>>

NextDay ==
  /\ DayOver /\ today < NDates
  /\ OpenDay(today + 1)
  /\ UNCHANGED <<program, fileVars, tables, stored, started, completed>>

\* Mutated form of EndMain: the last date is left out.
EndMainEarly ==
  /\ DayOver /\ today + 1 >= NDates
  /\ program' = "none"
  /\ completed' = completed + 1
  /\ UNCHANGED <<fileVars, today, outcome, rows, tables, stored, started>>

EndMain ==
  /\ DayOver /\ today = NDates
  /\ program' = "none"
  /\ completed' = completed + 1
  /\ UNCHANGED <<fileVars, today, outcome, rows, tables, stored, started>>

\* Mutated form of MainEnds: a failed day is passed over.
MainGoesOn ==
  /\ program = "main" /\ outcome = "failed" /\ today < NDates
  /\ OpenDay(today + 1)
  /\ UNCHANGED <<program, fileVars, tables, stored, started, completed>>

\* exit(1), std::terminate, abort or a signal.
MainEnds ==
  /\ program = "main" /\ outcome = "failed"
  /\ program' = "none"
  /\ UNCHANGED <<fileVars, batchVars>>

BatchNext ==
  \/ TickNext /\ UNCHANGED batchVars
  \/ StartMain \/ DayStep \/ NextDay \/ EndMain \/ MainEnds

BatchSpec == BatchInit /\ [][BatchNext]_allVars
-----------------------------------------------------------------------------
Copies(d) == Len(stored[d])

\* Types; a script is only ever busy with a date it has still to do.
BatchTypeOK ==
  /\ program \in {"none", "extract", "move", "main"}
  /\ csv \in [Dates -> File] /\ beside \in [Dates -> File]
  /\ todo \subseteq Dates /\ busy \in todo \union {NoDate} /\ copied \in BOOLEAN
  /\ scripts \in Nat /\ had \subseteq Dates
  /\ hit \subseteq {"extract", "move"} \X Dates
  /\ today \in Dates /\ outcome \in {"deciding", "working", "saved", "skipped", "failed"}
  /\ rows \in {"none", "all"}
  /\ tables \in [Dates -> BOOLEAN]
  /\ stored \in [Dates -> Seq({"torn", "whole"})]
  /\ started \in Nat /\ completed \in Nat

\* Every run that is carried through adds one copy of every day that is not
\* refused, an interrupted one at most one: a batch run again after a failure
\* stores the days before it once more (main.cpp:78-87 with process.cpp:196,
\* 250-255).
CopiesCountRuns ==
  \A d \in Dates :
    /\ Copies(d) <= started
    /\ d \in Fit => completed <= Copies(d)
    /\ d \in Refused => Copies(d) = 0

\* No day is stored more often than an earlier one: a day that always fails
\* keeps every later day out of the database (main.cpp:78-87).
EarlierFirst ==
  \A d, e \in Fit : d < e => Copies(e) <= Copies(d)

\* A day computed from a truncated file is only ever one whose extraction or
\* move died (extract_tick.py:33, test.py:14, process.cpp:211).
StoredTornExplained ==
  \A d \in Dates :
    (\E i \in DOMAIN stored[d] : stored[d][i] = "torn") =>
      <<"extract", d>> \in hit \/ <<"move", d>> \in hit
=============================================================================
