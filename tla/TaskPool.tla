------------------------------ MODULE TaskPool ------------------------------
(***************************************************************************)
(* What a pool of workers promises its users: tasks are started in the     *)
(* order they were submitted, each by one worker and once; as long as the  *)
(* program lives every submitted task is started and finished, the ones    *)
(* still waiting when the pool is closed included.                         *)
(***************************************************************************)
EXTENDS Naturals, Sequences, FiniteSets

CONSTANTS
  Tasks,
  Throwing,  \* the tasks that end with an exception
  Size       \* the number of workers

VARIABLES
  queued,    \* submitted tasks nobody has started, oldest first
  running,   \* tasks a worker is executing
  finished,  \* tasks that have returned
  open,      \* whether the pool takes new tasks
  alive      \* whether the program is still running

poolVars == <<queued, running, finished, open, alive>>

Waiting == {queued[i] : i \in DOMAIN queued}

Init ==
  /\ queued = <<>>
  /\ running = {} /\ finished = {}
  /\ open = TRUE /\ alive = TRUE

Submit(task) ==
  /\ alive /\ open
  /\ task \notin Waiting \union running \union finished
  /\ queued' = Append(queued, task)
  /\ UNCHANGED <<running, finished, open, alive>>

Start ==
  /\ alive
  /\ queued # <<>> /\ Cardinality(running) < Size
  /\ running' = running \union {Head(queued)}
  /\ queued' = Tail(queued)
  /\ UNCHANGED <<finished, open, alive>>

Finish(task) ==
  /\ alive
  /\ task \in running \ Throwing
  /\ running' = running \ {task}
  /\ finished' = finished \union {task}
  /\ UNCHANGED <<queued, open, alive>>

Close ==
  /\ alive /\ open
  /\ open' = FALSE
  /\ UNCHANGED <<queued, running, finished, alive>>

\* An exception leaves a task and ends the program.
Throw(task) ==
  /\ alive
  /\ task \in running \intersect Throwing
  /\ alive' = FALSE
  /\ UNCHANGED <<queued, running, finished, open>>

\* The program returns after closing the pool.
Return ==
  /\ alive /\ ~open
  /\ alive' = FALSE
  /\ UNCHANGED <<queued, running, finished, open>>

Next ==
  \/ Start \/ Close \/ Return
  \/ \E task \in Tasks : Submit(task) \/ Finish(task) \/ Throw(task)

Fairness ==
  /\ WF_poolVars(Start)
  /\ \A task \in Tasks : WF_poolVars(Finish(task) \/ Throw(task))

Spec == Init /\ [][Next]_poolVars /\ Fairness
=============================================================================
