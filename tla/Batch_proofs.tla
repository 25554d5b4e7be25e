---------------------------- MODULE Batch_proofs ----------------------------
(***************************************************************************)
(* For any number of dates and of runs of the scripts and of main(): how   *)
(* often a day is stored, and what a died script can spoil.                *)
(***************************************************************************)
EXTENDS Batch, TLAPS

\* What the scripts keep about the file they are busy with.
BusyOK ==
  /\ busy # NoDate => program \in {"extract", "move"} /\ busy \in Dates
  /\ \A d \in Dates : program = "extract" /\ busy = d => Output(d) = "torn"
  /\ \A d \in Dates :
       program = "move" /\ busy = d =>
         beside[d] # "absent" /\ csv[d] = IF copied THEN beside[d] ELSE "torn"
  /\ copied => program = "move" /\ busy # NoDate
  /\ \A d \in Dates \ Nested :
       /\ beside[d] = "absent"
       /\ <<"extract", d>> \in hit => csv[d] = "torn" /\ busy # d

\* Where torn and whole files come from and where they are left.
FilesOK ==
  /\ \A d \in Dates :
       beside[d] = "torn" =>
         (program = "extract" /\ busy = d) \/ <<"extract", d>> \in hit
  /\ \A d \in Dates :
       csv[d] = "torn" =>
         \/ busy = d /\ (program = "move" \/ d \notin Nested)
         \/ <<"extract", d>> \in hit \/ <<"move", d>> \in hit
  /\ TornExplained
  /\ WholeSurvives
  /\ StoredTornExplained

FileInv == BatchTypeOK /\ BusyOK /\ FilesOK

LEMMA InitFileInv == BatchInit => FileInv
<1> SUFFICES ASSUME BatchInit PROVE FileInv
  OBVIOUS
<1> USE DateAssumption, ListAssumption DEF BatchInit, TickInit
<1>1. BatchTypeOK
  <2>1. stored \in [Dates -> Seq({"torn", "whole"})] /\ today \in Dates
    OBVIOUS
  <2>2. csv \in [Dates -> File] /\ beside \in [Dates -> File]
    BY DEF File
  <2> QED
    BY <2>1, <2>2 DEF BatchTypeOK
<1>2. BusyOK
  BY DEF BusyOK
<1>3. FilesOK
  BY DEF FilesOK, TornExplained, WholeSurvives, StoredTornExplained
<1> QED
  BY <1>1, <1>2, <1>3 DEF FileInv

\* A step of a script, by cases.
LEMMA TickKeeps == FileInv /\ TickNext /\ UNCHANGED batchVars => FileInv'
<1> SUFFICES ASSUME FileInv, TickNext, UNCHANGED batchVars PROVE FileInv'
  OBVIOUS
<1> USE DateAssumption
    DEF FileInv, BatchTypeOK, batchVars, fileVars, File, AtDate, Pass, Start, WriteOutput, Output
<1>1. ASSUME StartExtract \/ StartMove PROVE FileInv'
  <2>1. BatchTypeOK'
    BY <1>1 DEF StartExtract, StartMove, BusyOK
  <2>2. BusyOK'
    BY <1>1 DEF StartExtract, StartMove, BusyOK
  <2>3. FilesOK'
    BY <1>1 DEF StartExtract, StartMove, BusyOK, FilesOK, TornExplained, WholeSurvives, StoredTornExplained
  <2> QED
    BY <2>1, <2>2, <2>3
<1>2. CASE ScriptDies
  <2>1. BatchTypeOK'
    <3>1. hit' \subseteq {"extract", "move"} \X Dates
      BY <1>2 DEF ScriptDies, BusyOK
    <3> QED
      BY <1>2, <3>1 DEF ScriptDies
  <2>2. BusyOK'
    BY <1>2 DEF ScriptDies, BusyOK
  <2>3. FilesOK'
    BY <1>2 DEF ScriptDies, BusyOK, FilesOK, TornExplained, WholeSurvives, StoredTornExplained
  <2> QED
    BY <2>1, <2>2, <2>3
<1>3. CASE ScriptEnds
  <2>1. BatchTypeOK' /\ BusyOK'
    BY <1>3 DEF ScriptEnds, BusyOK
  <2>2. FilesOK'
    BY <1>3 DEF ScriptEnds, BusyOK, FilesOK, TornExplained, WholeSurvives, StoredTornExplained
  <2> QED
    BY <2>1, <2>2
<1>4. ASSUME NEW d \in Dates, ExtractSkip(d) \/ MoveNothing(d) PROVE FileInv'
  <2>1. BatchTypeOK' /\ BusyOK'
    BY <1>4 DEF ExtractSkip, MoveNothing, BusyOK
  <2>2. FilesOK'
    <3>1. UNCHANGED <<program, csv, beside, busy, had, hit, stored>>
      BY <1>4 DEF ExtractSkip, MoveNothing
    <3> QED
      BY <3>1 DEF FilesOK, TornExplained, WholeSurvives, StoredTornExplained
  <2> QED
    BY <2>1, <2>2
<1>5. ASSUME NEW d \in Dates, ExtractBegin(d) PROVE FileInv'
  <2>1. BatchTypeOK'
    BY <1>5 DEF ExtractBegin
  <2>2. BusyOK'
    BY <1>5 DEF ExtractBegin, BusyOK
  <2>3. FilesOK'
    BY <1>5 DEF ExtractBegin, BusyOK, FilesOK, TornExplained, WholeSurvives, StoredTornExplained
  <2> QED
    BY <2>1, <2>2, <2>3
<1>6. ASSUME NEW d \in Dates, ExtractEnd(d) PROVE FileInv'
  <2>1. BatchTypeOK'
    BY <1>6 DEF ExtractEnd
  <2>2. BusyOK'
    BY <1>6 DEF ExtractEnd, BusyOK
  <2>3. FilesOK'
    <3>1. /\ busy = d /\ busy' = NoDate /\ program = "extract"
          /\ \A e \in Dates : e # d => csv'[e] = csv[e] /\ beside'[e] = beside[e]
          /\ d \in Nested => csv'[d] = csv[d] /\ beside'[d] = "whole"
          /\ d \notin Nested => csv'[d] = "whole" /\ beside'[d] = beside[d]
          /\ had' = had \union {d} /\ UNCHANGED <<hit, stored>>
      BY <1>6 DEF ExtractEnd
    <3>2. WholeSurvives' /\ StoredTornExplained'
      BY <3>1 DEF FilesOK, WholeSurvives, StoredTornExplained
    <3>3. TornExplained'
      BY <3>1 DEF FilesOK, TornExplained
    <3>4. \A e \in Dates :
            csv'[e] = "torn" => <<"extract", e>> \in hit' \/ <<"move", e>> \in hit'
      BY <3>1 DEF FilesOK
    <3>5. \A e \in Dates : beside'[e] = "torn" => <<"extract", e>> \in hit'
      BY <3>1 DEF FilesOK, BusyOK
    <3> QED
      BY <3>1, <3>2, <3>3, <3>4, <3>5 DEF FilesOK
  <2> QED
    BY <2>1, <2>2, <2>3
<1>7. ASSUME NEW d \in Dates, MoveBegin(d) PROVE FileInv'
  <2>1. BatchTypeOK'
    BY <1>7 DEF MoveBegin
  <2>2. BusyOK'
    BY <1>7 DEF MoveBegin, BusyOK
  <2>3. FilesOK'
    BY <1>7 DEF MoveBegin, BusyOK, FilesOK, TornExplained, WholeSurvives, StoredTornExplained
  <2> QED
    BY <2>1, <2>2, <2>3
<1>8. ASSUME NEW d \in Dates, MoveCopied(d) PROVE FileInv'
  <2>1. BatchTypeOK'
    BY <1>8 DEF MoveCopied
  <2>2. BusyOK'
    BY <1>8 DEF MoveCopied, BusyOK
  <2>3. FilesOK'
    BY <1>8 DEF MoveCopied, BusyOK, FilesOK, TornExplained, WholeSurvives, StoredTornExplained
  <2> QED
    BY <2>1, <2>2, <2>3
<1>9. ASSUME NEW d \in Dates, MoveEnd(d) PROVE FileInv'
  <2>1. BatchTypeOK'
    BY <1>9 DEF MoveEnd
  <2>2. BusyOK'
    BY <1>9 DEF MoveEnd, BusyOK
  <2>3. FilesOK'
    BY <1>9 DEF MoveEnd, BusyOK, FilesOK, TornExplained, WholeSurvives, StoredTornExplained
  <2> QED
    BY <2>1, <2>2, <2>3
<1> QED
  BY <1>1, <1>2, <1>3, <1>4, <1>5, <1>6, <1>7, <1>8, <1>9 DEF TickNext
-----------------------------------------------------------------------------
\* What a step of a day does: it stores the whole day at most once, and only
\* a fit day with a file; the file itself is not touched.
LEMMA DayEffect ==
  ASSUME BatchTypeOK, DayStep, outcome \in {"deciding", "working"} => rows = "none",
         outcome = "working" => today \in Fit
  PROVE  /\ program = "main" /\ today' = today
         /\ UNCHANGED <<program, fileVars, started, completed>>
         /\ outcome \in {"deciding", "working"} /\ rows = "none"
         /\ tables' \in [Dates -> BOOLEAN]
         /\ \/ rows' = "none" /\ stored' = stored
            \/ /\ rows' = "all" /\ today \in Fit /\ csv[today] \in {"torn", "whole"}
               /\ stored' = [stored EXCEPT ![today] = Append(@, csv[today])]
         /\ outcome' \in {"working", "saved", "skipped", "failed"}
         /\ outcome' = "skipped" => today \in Refused
         /\ outcome' = "working" => today \in Fit /\ rows' = "none"
         /\ outcome' = "saved" => rows' = "all"
<1> USE DEF BatchTypeOK, DayStep, Store, File, Fit
<1>1. tables' \in [Dates -> BOOLEAN]
  OBVIOUS
<1>2. CASE Day!Skip /\ today \in Refused
  BY <1>1, <1>2 DEF Day!Skip
<1>3. CASE Day!Accept /\ today \notin Refused
  BY <1>1, <1>3 DEF Day!Accept
<1>4. CASE Day!Save /\ csv[today] # "absent"
  BY <1>1, <1>4 DEF Day!Save
<1>5. CASE Day!Fail /\ (csv[today] = "absent" => rows' = rows)
  BY <1>1, <1>5 DEF Day!Fail
<1> QED
  BY <1>2, <1>3, <1>4, <1>5

\* The day main() is at: rows are stored by its last step only.
DayOK ==
  program = "main" =>
    /\ outcome \in {"deciding", "working"} => rows = "none"
    /\ outcome = "working" => today \in Fit
    /\ outcome = "saved" => rows = "all"
    /\ outcome = "skipped" => today \in Refused

LEMMA InitDayOK == BatchInit => DayOK
BY DEF BatchInit, TickInit, DayOK

LEMMA NextDayOK == BatchTypeOK /\ DayOK /\ [BatchNext]_allVars => DayOK'
<1> SUFFICES ASSUME BatchTypeOK, DayOK, [BatchNext]_allVars PROVE DayOK'
  OBVIOUS
<1>1. ASSUME TickNext, UNCHANGED batchVars PROVE DayOK'
  <2>1. program' # "main" \/ program' = program
    BY <1>1 DEF TickNext, StartExtract, StartMove, Start, ScriptDies, ScriptEnds, ExtractSkip,
                ExtractBegin, ExtractEnd, MoveNothing, MoveBegin, MoveCopied, MoveEnd, Pass
  <2> QED
    BY <1>1, <2>1 DEF DayOK, batchVars
<1>2. CASE StartMain \/ NextDay
  BY <1>2 DEF StartMain, NextDay, OpenDay, DayOK
<1>3. CASE DayStep
  <2>1. program = "main"
    BY <1>3 DEF DayStep
  <2> QED
    BY <1>3, <2>1, DayEffect DEF DayOK
<1>4. CASE EndMain \/ MainEnds
  BY <1>4 DEF EndMain, MainEnds, DayOK
<1>5. CASE UNCHANGED allVars
  BY <1>5 DEF allVars, tickVars, batchVars, DayOK
<1> QED
  BY <1>1, <1>2, <1>3, <1>4, <1>5 DEF BatchNext

\* main() leaves the files and the history of the scripts alone.
LEMMA MainTypes ==
  ASSUME BatchTypeOK, UNCHANGED fileVars, program' \in {"none", "main"}, today' \in Dates,
         outcome' \in {"deciding", "working", "saved", "skipped", "failed"},
         rows' \in {"none", "all"}, tables' \in [Dates -> BOOLEAN],
         stored' \in [Dates -> Seq({"torn", "whole"})], started' \in Nat, completed' \in Nat
  PROVE  BatchTypeOK'
<1>1. UNCHANGED <<csv, beside, todo, busy, copied, scripts, had, hit>>
  BY DEF fileVars
<1> QED
  BY <1>1 DEF BatchTypeOK

LEMMA NextFileInv == FileInv /\ DayOK /\ [BatchNext]_allVars => FileInv'
<1> SUFFICES ASSUME FileInv, DayOK, [BatchNext]_allVars PROVE FileInv'
  OBVIOUS
<1> USE ListAssumption DEF FileInv
<1>1. ASSUME TickNext, UNCHANGED batchVars PROVE FileInv'
  BY <1>1, TickKeeps
<1>2. ASSUME program' = program \/ {program, program'} \subseteq {"none", "main"},
             UNCHANGED <<fileVars, stored>>
      PROVE  BusyOK' /\ FilesOK'
  <2>1. UNCHANGED <<csv, beside, todo, busy, copied, scripts, had, hit, stored>>
    BY <1>2 DEF fileVars
  <2>2. busy # NoDate => program' = program
    BY <1>2 DEF BusyOK
  <2>3. BusyOK'
    BY <1>2, <2>1, <2>2, DateAssumption DEF BusyOK, Output
  <2>4. FilesOK'
    BY <1>2, <2>1, <2>2, DateAssumption
       DEF FilesOK, TornExplained, WholeSurvives, StoredTornExplained
  <2> QED
    BY <2>3, <2>4
<1>3. CASE StartMain \/ NextDay
  <2>1. BatchTypeOK'
    <3>1. today' \in Dates /\ outcome' = "deciding" /\ rows' = "none" /\ program' = "main"
      BY <1>3 DEF StartMain, NextDay, OpenDay, DayOver, BatchTypeOK
    <3>2. /\ UNCHANGED <<fileVars, tables, stored, completed>>
          /\ started' = started \/ started' = started + 1
      BY <1>3 DEF StartMain, NextDay
    <3>3. started' \in Nat /\ completed' \in Nat
      BY <3>2 DEF BatchTypeOK
    <3> QED
      BY <3>1, <3>2, <3>3, MainTypes DEF BatchTypeOK
  <2> QED
    BY <1>2, <1>3, <2>1 DEF StartMain, NextDay, DayOver
<1>4. CASE EndMain \/ MainEnds
  <2>1. BatchTypeOK'
    <3>1. /\ program' = "none"
          /\ UNCHANGED <<fileVars, today, outcome, rows, tables, stored, started>>
          /\ completed' = completed \/ completed' = completed + 1
      BY <1>4 DEF EndMain, MainEnds, batchVars
    <3>2. completed' \in Nat
      BY <3>1 DEF BatchTypeOK
    <3> QED
      BY <3>1, <3>2, MainTypes DEF BatchTypeOK
  <2> QED
    BY <1>2, <1>4, <2>1 DEF EndMain, MainEnds, DayOver, batchVars
<1>5. CASE DayStep
  <2>1. program = "main" /\ today \in Dates
    BY <1>5 DEF DayStep, BatchTypeOK
  <2>0. /\ BatchTypeOK
        /\ outcome \in {"deciding", "working"} => rows = "none"
        /\ outcome = "working" => today \in Fit
    BY <2>1 DEF DayOK
  <2>2. /\ UNCHANGED <<program, fileVars, started, completed>>
        /\ today' = today
        /\ tables' \in [Dates -> BOOLEAN]
        /\ \/ rows' = "none" /\ stored' = stored
           \/ /\ rows' = "all" /\ today \in Fit /\ csv[today] \in {"torn", "whole"}
              /\ stored' = [stored EXCEPT ![today] = Append(@, csv[today])]
        /\ outcome' \in {"working", "saved", "skipped", "failed"}
    <3> HIDE DEF FileInv
    <3> QED
      BY <1>5, <2>0, DayEffect
  <2>3. UNCHANGED <<csv, beside, todo, busy, copied, scripts, had, hit>>
    BY <2>2 DEF fileVars
  <2>4. stored' \in [Dates -> Seq({"torn", "whole"})]
    <3>1. stored \in [Dates -> Seq({"torn", "whole"})]
      BY DEF BatchTypeOK
    <3>2. csv[today] \in {"torn", "whole"}
          => Append(stored[today], csv[today]) \in Seq({"torn", "whole"})
      BY <2>1, <3>1
    <3> QED
      BY <2>1, <2>2, <3>1, <3>2
  <2>5. BatchTypeOK'
    BY <2>1, <2>2, <2>4, MainTypes DEF BatchTypeOK
  <2>6. BusyOK'
    BY <2>2, <2>3 DEF BusyOK, Output
  <2>7. StoredTornExplained'
    <3>1. csv[today] = "torn" => <<"extract", today>> \in hit \/ <<"move", today>> \in hit
      BY <2>1, DateAssumption DEF BusyOK, FilesOK
    <3>2. ASSUME NEW d \in Dates, NEW i \in DOMAIN stored'[d], stored'[d][i] = "torn"
          PROVE  <<"extract", d>> \in hit \/ <<"move", d>> \in hit
      <4>1. CASE i \in DOMAIN stored[d] /\ stored[d][i] = "torn"
        BY <4>1 DEF FilesOK, StoredTornExplained
      <4>2. CASE ~(i \in DOMAIN stored[d] /\ stored[d][i] = "torn")
        <5>1. /\ d = today /\ stored'[d] = Append(stored[d], csv[d])
              /\ stored[d] \in Seq({"torn", "whole"})
          BY <2>1, <2>2, <3>2, <4>2 DEF BatchTypeOK
        <5>2. i = Len(stored[d]) + 1 /\ stored'[d][i] = csv[d]
          BY <3>2, <4>2, <5>1
        <5> QED
          BY <3>1, <3>2, <5>1, <5>2
      <4> QED
        BY <4>1, <4>2
    <3> QED
      BY <2>3, <3>2 DEF StoredTornExplained
  <2>8. FilesOK'
    BY <2>2, <2>3, <2>7 DEF FilesOK, TornExplained, WholeSurvives
  <2> QED
    BY <2>5, <2>6, <2>8
<1>6. CASE UNCHANGED allVars
  <2>1. BatchTypeOK'
    BY <1>6 DEF allVars, tickVars, fileVars, batchVars, BatchTypeOK
  <2> QED
    BY <1>2, <1>6, <2>1 DEF allVars, tickVars, batchVars
<1> QED
  BY <1>1, <1>3, <1>4, <1>5, <1>6 DEF BatchNext
-----------------------------------------------------------------------------
\* What this run of main() has added to the table of a day.
Gain(d) ==
  IF program = "main" /\ (d < today \/ (d = today /\ rows = "all")) THEN 1 ELSE 0

InMain == IF program = "main" THEN 1 ELSE 0

\* The copies of a day, less those of this run, count the runs before it; they
\* fall from day to day.
RunsOK ==
  /\ \A d \in Refused : Copies(d) = 0
  /\ \A d \in Fit : completed + Gain(d) <= Copies(d)
  /\ \A d \in Fit : Copies(d) + InMain <= started + Gain(d)
  /\ \A d, e \in Fit : d < e => Copies(e) + Gain(d) <= Copies(d) + Gain(e)

LEMMA InitRunsOK == BatchInit => RunsOK
<1> SUFFICES ASSUME BatchInit PROVE RunsOK
  OBVIOUS
<1>1. \A d \in Dates : Copies(d) = 0 /\ Gain(d) = 0
  BY DEF BatchInit, TickInit, Copies, Gain
<1>2. InMain = 0 /\ started = 0 /\ completed = 0 /\ Fit \subseteq Dates /\ Refused \subseteq Dates
  BY ListAssumption DEF BatchInit, TickInit, InMain, Fit
<1> QED
  BY <1>1, <1>2 DEF RunsOK

LEMMA NextRunsOK == BatchTypeOK /\ DayOK /\ RunsOK /\ [BatchNext]_allVars => RunsOK'
<1> SUFFICES ASSUME BatchTypeOK, DayOK, RunsOK, [BatchNext]_allVars PROVE RunsOK'
  OBVIOUS
<1>0. /\ \A d \in Dates : Copies(d) \in Nat /\ d \in Nat /\ Gain(d) \in {0, 1}
      /\ Fit \subseteq Dates /\ Refused \subseteq Dates /\ today \in Dates
      /\ started \in Nat /\ completed \in Nat /\ InMain \in {0, 1}
  BY ListAssumption DEF BatchTypeOK, Copies, Gain, InMain, Fit
<1>1. ASSUME TickNext, UNCHANGED batchVars PROVE RunsOK'
  <2>1. program # "main" /\ program' # "main"
    BY <1>1 DEF TickNext, StartExtract, StartMove, Start, ScriptDies, ScriptEnds, ExtractSkip, AtDate,
                ExtractBegin, ExtractEnd, MoveNothing, MoveBegin, MoveCopied, MoveEnd, Pass
  <2> QED
    BY <1>1, <2>1 DEF batchVars, RunsOK, Gain, InMain, Copies
<1>2. CASE StartMain
  <2>1. /\ program = "none" /\ program' = "main" /\ today' = 1 /\ rows' = "none"
        /\ started' = started + 1 /\ UNCHANGED <<stored, completed>>
    BY <1>2 DEF StartMain, OpenDay
  <2>2. /\ InMain = 0 /\ InMain' = 1
        /\ \A d \in Dates : Gain(d) = 0 /\ Gain(d)' = 0 /\ Copies(d)' = Copies(d)
    BY <2>1, ListAssumption DEF InMain, Gain, Copies
  <2> QED
    BY <1>0, <2>1, <2>2 DEF RunsOK
<1>3. CASE NextDay
  <2>1. /\ program = "main" /\ program' = "main" /\ today' = today + 1 /\ rows' = "none"
        /\ UNCHANGED <<stored, started, completed>>
        /\ today \in Fit => rows = "all"
    BY <1>3 DEF NextDay, DayOver, OpenDay, DayOK, Fit
  <2>2. InMain' = InMain
    BY <2>1 DEF InMain
  <2>3. \A d \in Fit : Gain(d)' = Gain(d)
    BY <1>0, <2>1 DEF Gain
  <2> QED
    BY <1>0, <2>1, <2>2, <2>3 DEF RunsOK, Copies
<1>4. CASE EndMain
  <2>1. /\ program = "main" /\ program' = "none" /\ today = NDates
        /\ completed' = completed + 1 /\ UNCHANGED <<stored, started>>
        /\ today \in Fit => rows = "all"
    BY <1>4 DEF EndMain, DayOver, DayOK, Fit
  <2>2. InMain = 1 /\ InMain' = 0
    BY <2>1 DEF InMain
  <2>3. \A d \in Fit : Gain(d) = 1 /\ Gain(d)' = 0
    BY <1>0, <2>1, ListAssumption DEF Gain, Fit
  <2> QED
    BY <1>0, <2>1, <2>2, <2>3 DEF RunsOK, Copies
<1>5. CASE MainEnds
  <2>1. program = "main" /\ program' = "none" /\ UNCHANGED <<stored, started, completed>>
    BY <1>5 DEF MainEnds, batchVars
  <2>2. InMain = 1 /\ InMain' = 0 /\ \A d \in Fit : Gain(d)' = 0
    BY <2>1 DEF InMain, Gain
  <2>3. \A d, e \in Fit : d < e => Gain(e) <= Gain(d)
    BY <1>0, <2>1 DEF Gain
  <2> QED
    <3>1. \A d \in Dates : Copies(d)' = Copies(d)
      BY <2>1 DEF Copies
    <3>2. \A d \in Refused : Copies(d)' = 0
      BY <1>0, <3>1 DEF RunsOK
    <3>3. ASSUME NEW d \in Fit
          PROVE  completed' + Gain(d)' <= Copies(d)' /\ Copies(d)' + InMain' <= started' + Gain(d)'
      BY <1>0, <2>1, <2>2, <3>1 DEF RunsOK
    <3>4. ASSUME NEW d \in Fit, NEW e \in Fit, d < e
          PROVE  Copies(e)' + Gain(d)' <= Copies(d)' + Gain(e)'
      BY <1>0, <2>2, <2>3, <3>1, <3>4 DEF RunsOK
    <3> QED
      BY <3>2, <3>3, <3>4 DEF RunsOK
<1>6. CASE DayStep
  <2>1. program = "main"
    BY <1>6 DEF DayStep
  <2>2. /\ UNCHANGED <<program, fileVars, started, completed>>
        /\ today' = today /\ rows = "none"
        /\ \/ rows' = "none" /\ stored' = stored
           \/ /\ rows' = "all" /\ today \in Fit /\ csv[today] \in {"torn", "whole"}
              /\ stored' = [stored EXCEPT ![today] = Append(@, csv[today])]
    BY <1>6, <2>1, DayEffect DEF DayOK
  <2>3. CASE rows' = "none" /\ stored' = stored
    BY <2>2, <2>3 DEF RunsOK, Gain, InMain, Copies
  <2>4. CASE rows' = "all" /\ today \in Fit /\ csv[today] \in {"torn", "whole"}
             /\ stored' = [stored EXCEPT ![today] = Append(@, csv[today])]
    <3>1. ASSUME NEW d \in Dates PROVE Copies(d)' = Copies(d) + (IF d = today THEN 1 ELSE 0)
      BY <1>0, <2>2, <2>4 DEF Copies, BatchTypeOK
    <3>2. ASSUME NEW d \in Dates PROVE Gain(d)' = Gain(d) + (IF d = today THEN 1 ELSE 0)
      BY <1>0, <2>1, <2>2, <2>4 DEF Gain
    <3>3. InMain' = InMain /\ started' = started /\ completed' = completed /\ today \notin Refused
      BY <2>2, <2>4 DEF InMain, Fit
    <3>4. ASSUME NEW d \in Fit
          PROVE  /\ Copies(d)' = Copies(d) + (IF d = today THEN 1 ELSE 0)
                 /\ Gain(d)' = Gain(d) + (IF d = today THEN 1 ELSE 0)
      BY <1>0, <3>1, <3>2
    <3>5. \A d \in Refused : Copies(d)' = 0
      BY <1>0, <3>1, <3>3 DEF RunsOK
    <3>6. ASSUME NEW d \in Fit
          PROVE  completed' + Gain(d)' <= Copies(d)' /\ Copies(d)' + InMain' <= started' + Gain(d)'
      BY <1>0, <3>3, <3>4 DEF RunsOK
    <3>7. ASSUME NEW d \in Fit, NEW e \in Fit, d < e
          PROVE  Copies(e)' + Gain(d)' <= Copies(d)' + Gain(e)'
      BY <1>0, <3>4, <3>7 DEF RunsOK
    <3> QED
      BY <3>5, <3>6, <3>7 DEF RunsOK
  <2> QED
    BY <2>2, <2>3, <2>4
<1>7. CASE UNCHANGED allVars
  BY <1>7 DEF allVars, tickVars, batchVars, RunsOK, Gain, InMain, Copies
<1> QED
  BY <1>1, <1>2, <1>3, <1>4, <1>5, <1>6, <1>7 DEF BatchNext
-----------------------------------------------------------------------------
BatchInv == FileInv /\ DayOK /\ RunsOK

LEMMA InvHolds == BatchSpec => []BatchInv
<1>1. BatchInit => BatchInv
  BY InitFileInv, InitDayOK, InitRunsOK DEF BatchInv
<1>2. BatchInv /\ [BatchNext]_allVars => BatchInv'
  BY NextFileInv, NextDayOK, NextRunsOK DEF BatchInv, FileInv
<1> QED
  BY <1>1, <1>2, PTL DEF BatchSpec

\* Every variable has a value of its type.
THEOREM TypesHold == BatchSpec => []BatchTypeOK
<1>1. BatchInv => BatchTypeOK
  BY DEF BatchInv, FileInv
<1> QED
  BY <1>1, InvHolds, PTL

\* A truncated file in data/ is explained by a died extraction, or its whole
\* original is still beside the raw data.
THEOREM TornFilesExplained == BatchSpec => []TornExplained
<1>1. BatchInv => TornExplained
  BY DEF BatchInv, FileInv, FilesOK
<1> QED
  BY <1>1, InvHolds, PTL

\* A date with a whole file keeps one unless its extraction died.
THEOREM WholeFilesSurvive == BatchSpec => []WholeSurvives
<1>1. BatchInv => WholeSurvives
  BY DEF BatchInv, FileInv, FilesOK
<1> QED
  BY <1>1, InvHolds, PTL

\* Rows computed from a truncated file belong to a date whose extraction or
\* move died.
THEOREM TornRowsExplained == BatchSpec => []StoredTornExplained
<1>1. BatchInv => StoredTornExplained
  BY DEF BatchInv, FileInv, FilesOK
<1> QED
  BY <1>1, InvHolds, PTL

\* A day is stored once by every run carried through, and at most once by every
\* run begun.
THEOREM CopiesAreRuns == BatchSpec => []CopiesCountRuns
<1>1. BatchInv => CopiesCountRuns
  <2> SUFFICES ASSUME BatchInv PROVE CopiesCountRuns
    OBVIOUS
  <2>1. /\ \A d \in Dates : Copies(d) \in Nat /\ Gain(d) \in {0, 1} /\ Gain(d) <= InMain
        /\ InMain \in {0, 1} /\ started \in Nat /\ completed \in Nat
    BY DEF BatchInv, FileInv, BatchTypeOK, Copies, Gain, InMain
  <2> QED
    BY <2>1 DEF BatchInv, RunsOK, CopiesCountRuns, Fit
<1> QED
  BY <1>1, InvHolds, PTL

\* No day is stored more often than an earlier one.
THEOREM EarlierDaysFirst == BatchSpec => []EarlierFirst
<1>1. BatchInv => EarlierFirst
  <2> SUFFICES ASSUME BatchInv, NEW d \in Fit, NEW e \in Fit, d < e
               PROVE  Copies(e) <= Copies(d)
    BY DEF EarlierFirst
  <2>1. /\ Copies(d) \in Nat /\ Copies(e) \in Nat /\ Gain(d) \in {0, 1} /\ Gain(e) \in {0, 1}
        /\ d \in Nat /\ e \in Nat /\ today \in Nat
    BY ListAssumption DEF BatchInv, FileInv, BatchTypeOK, Copies, Gain, Fit
  <2>2. Gain(e) <= Gain(d)
    BY <2>1 DEF Gain
  <2>3. Copies(e) + Gain(d) <= Copies(d) + Gain(e)
    BY DEF BatchInv, RunsOK
  <2> QED
    BY <2>1, <2>2, <2>3
<1> QED
  BY <1>1, InvHolds, PTL

\* A file left truncated in data/ by a died extraction is never repaired.
THEOREM TornFilesStay == BatchSpec => TornStays
<1> DEFINE Stays == \A d \in Dates \ Nested :
              csv[d] = "torn" /\ <<"extract", d>> \in hit => csv'[d] = "torn"
<1>1. BatchInv /\ BatchInv' /\ [BatchNext]_allVars => [Stays]_tickVars
  <2> SUFFICES ASSUME BatchInv, BatchInv', [BatchNext]_allVars PROVE Stays
    OBVIOUS
  <2>1. hit \subseteq hit'
    BY DEF BatchNext, TickNext, StartExtract, StartMove, Start, ScriptDies, ScriptEnds, ExtractSkip,
           ExtractBegin, ExtractEnd, MoveNothing, MoveBegin, MoveCopied, MoveEnd, Pass, StartMain,
           DayStep, NextDay, EndMain, MainEnds, fileVars, allVars, tickVars
  <2> QED
    BY <2>1 DEF BatchInv, FileInv, BusyOK
<1> QED
  BY <1>1, InvHolds, PTL DEF BatchSpec, TornStays
=============================================================================
