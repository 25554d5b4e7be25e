----------------------- MODULE FixedThreadPool_proofs -----------------------
(***************************************************************************)
(* For any number of workers, clients and tasks: the types, the wakeups,   *)
(* the drained queue, and every step of the pool is a step of TaskPool.    *)
(***************************************************************************)
EXTENDS FixedThreadPool, FiniteSetTheorems, TLAPS

\* The mutex is held by the one thread that is inside a critical section.
Exclusion == \A t \in Threads : pc[t] = "locked" <=> mtx_ = t

\* A task is in hand exactly between its two hand-overs; clients are inside
\* execute() only while the object is alive.
Hands ==
  /\ \A w \in Workers : pc[w] = "run" <=> current[w] # NoTask
  /\ \A c \in Clients : pc[c] \in {"lock", "locked"} <=> current[c] # NoTask
  /\ current[Owner] = NoTask
  /\ \A c \in Clients : pc[c] # "idle" => pc[Owner] = "ready"
  /\ is_shutdown_ <=> pc[Owner] \in {"notify", "destroyed"}

Inv == TypeOK /\ Exclusion /\ Hands /\ NoLostWakeup /\ Drained

\* Initially the invariant holds.
LEMMA InitInv == Init => Inv
<1> SUFFICES ASSUME Init PROVE Inv
  OBVIOUS
<1>1. /\ DOMAIN pc = Threads
      /\ \A w \in Workers : w \in Threads /\ pc[w] = "unborn"
      /\ \A c \in Clients : c \in Threads /\ pc[c] = "idle"
      /\ Owner \in Threads /\ pc[Owner] = "construct"
  BY ThreadAssumption DEF Init, Threads
<1>2. current \in [Threads -> Tasks \union {NoTask}] /\ \A t \in Threads : current[t] = NoTask
  BY DEF Init
<1>3. tasks_ = <<>> /\ tasks_ \in Seq(Tasks)
  BY DEF Init
<1>4. TypeOK
  BY <1>1, <1>2, <1>3 DEF Init, TypeOK, WorkerPcs, ClientPcs, OwnerPcs
<1>5. Exclusion
  BY <1>1, ThreadAssumption DEF Init, Exclusion, Threads
<1>6. Hands
  BY <1>1, <1>2 DEF Init, Hands
<1>7. NoLostWakeup /\ Drained
  BY <1>1, <1>3 DEF NoLostWakeup, Drained
<1> QED
  BY <1>4, <1>5, <1>6, <1>7 DEF Inv

\* What one thread does to its own pc keeps the types.
LEMMA TypeStep == TypeOK /\ Hands /\ [Next]_vars => TypeOK'
<1> SUFFICES ASSUME TypeOK, Hands, [Next]_vars PROVE TypeOK'
  OBVIOUS
<1> USE ThreadAssumption, TaskAssumption DEF TypeOK, Threads, WorkerPcs, ClientPcs, OwnerPcs, GoTo, At, Locked, Unlock
<1>1. ASSUME NEW t \in Threads, Lock(t) PROVE TypeOK'
  BY <1>1 DEF Lock
<1>2. ASSUME NEW w \in Workers, Spawn(w) PROVE TypeOK'
  BY <1>2 DEF Spawn
<1>3. ASSUME NEW w \in Workers, TakeTask(w) PROVE TypeOK'
  BY <1>3 DEF TakeTask
<1>4. ASSUME NEW w \in Workers, Leave(w) PROVE TypeOK'
  BY <1>4 DEF Leave
<1>5. ASSUME NEW w \in Workers, Wait(w) PROVE TypeOK'
  BY <1>5 DEF Wait
<1>6. ASSUME NEW w \in Workers, RunTask(w) PROVE TypeOK'
  BY <1>6 DEF RunTask, Hands
<1>7. ASSUME NEW w \in Workers, TaskThrows(w) PROVE TypeOK'
  BY <1>7 DEF TaskThrows
<1>8. ASSUME NEW w \in Workers, SpuriousWakeup(w) PROVE TypeOK'
  BY <1>8 DEF SpuriousWakeup
<1>9. ASSUME NEW c \in Clients, Emplace(c) PROVE TypeOK'
  BY <1>9 DEF Emplace, Hands
<1>10. ASSUME NEW t \in Clients \union {Owner}, NotifyAll(t) PROVE TypeOK'
  BY <1>10 DEF NotifyAll, After
<1>11. ASSUME NEW c \in Clients, NEW task \in Tasks, Execute(c, task) PROVE TypeOK'
  BY <1>11 DEF Execute
<1>12. ASSUME Constructed \/ SpawnFails \/ BeginDestroy PROVE TypeOK'
  BY <1>12 DEF Constructed, SpawnFails, BeginDestroy
<1>13. CASE Shutdown
  BY <1>13 DEF Shutdown
<1>14. CASE Exit
  BY <1>14 DEF Exit
<1>15. CASE UNCHANGED vars
  BY <1>15 DEF vars
<1> QED
  BY <1>1, <1>2, <1>3, <1>4, <1>5, <1>6, <1>7, <1>8, <1>9, <1>10, <1>11, <1>12,
     <1>13, <1>14, <1>15 DEF Next, WorkerStep, ClientStep, OwnerStep
\* No step of a thread disturbs what the others rely on.
LEMMA NextInv == Inv /\ [Next]_vars => Inv'
<1> SUFFICES ASSUME Inv, [Next]_vars PROVE Inv'
  OBVIOUS
<1>0. TypeOK'
  BY TypeStep DEF Inv
<1> USE ThreadAssumption, TaskAssumption
    DEF Inv, TypeOK, Threads, WorkerPcs, ClientPcs, OwnerPcs, GoTo, At, Locked, Unlock
<1>1. ASSUME NEW t \in Threads, Lock(t) PROVE Exclusion' /\ Hands' /\ NoLostWakeup' /\ Drained'
  <2>1. Exclusion'
    BY <1>1 DEF Lock, Exclusion
  <2>2. Hands'
    BY <1>1 DEF Lock, Hands
  <2>3. NoLostWakeup'
    BY <1>1 DEF Lock, NoLostWakeup
  <2>4. Drained'
    BY <1>1 DEF Lock, Drained, Hands
  <2> QED
    BY <2>1, <2>2, <2>3, <2>4
<1>2. ASSUME NEW w \in Workers, Spawn(w) PROVE Exclusion' /\ Hands' /\ NoLostWakeup' /\ Drained'
  <2>1. Exclusion'
    BY <1>2 DEF Spawn, Exclusion
  <2>2. Hands'
    BY <1>2 DEF Spawn, Hands
  <2>3. NoLostWakeup'
    BY <1>2 DEF Spawn, NoLostWakeup
  <2>4. Drained'
    BY <1>2 DEF Spawn, Drained, Hands
  <2> QED
    BY <2>1, <2>2, <2>3, <2>4
<1>3. ASSUME NEW w \in Workers, TakeTask(w) PROVE Exclusion' /\ Hands' /\ NoLostWakeup' /\ Drained'
  <2>1. Exclusion'
    BY <1>3 DEF TakeTask, Exclusion
  <2>2. Hands'
    BY <1>3 DEF TakeTask, Hands
  <2>3. NoLostWakeup'
    BY <1>3 DEF TakeTask, NoLostWakeup
  <2>4. Drained'
    BY <1>3 DEF TakeTask, Drained, Hands
  <2> QED
    BY <2>1, <2>2, <2>3, <2>4
<1>4. ASSUME NEW w \in Workers, Leave(w) PROVE Exclusion' /\ Hands' /\ NoLostWakeup' /\ Drained'
  <2>1. Exclusion'
    BY <1>4 DEF Leave, Exclusion
  <2>2. Hands'
    BY <1>4 DEF Leave, Hands
  <2>3. NoLostWakeup'
    BY <1>4 DEF Leave, NoLostWakeup
  <2>4. Drained'
    BY <1>4 DEF Leave, Drained, Hands
  <2> QED
    BY <2>1, <2>2, <2>3, <2>4
<1>5. ASSUME NEW w \in Workers, Wait(w) PROVE Exclusion' /\ Hands' /\ NoLostWakeup' /\ Drained'
  <2>1. Exclusion'
    BY <1>5 DEF Wait, Exclusion
  <2>2. Hands'
    BY <1>5 DEF Wait, Hands
  <2>3. NoLostWakeup'
    BY <1>5 DEF Wait, NoLostWakeup
  <2>4. Drained'
    BY <1>5 DEF Wait, Drained, Hands
  <2> QED
    BY <2>1, <2>2, <2>3, <2>4
<1>6. ASSUME NEW w \in Workers, RunTask(w) PROVE Exclusion' /\ Hands' /\ NoLostWakeup' /\ Drained'
  <2>1. Exclusion'
    BY <1>6 DEF RunTask, Exclusion
  <2>2. Hands'
    BY <1>6 DEF RunTask, Hands
  <2>3. NoLostWakeup'
    BY <1>6 DEF RunTask, NoLostWakeup
  <2>4. Drained'
    BY <1>6 DEF RunTask, Drained, Hands
  <2> QED
    BY <2>1, <2>2, <2>3, <2>4
<1>7. ASSUME NEW w \in Workers, TaskThrows(w) PROVE Exclusion' /\ Hands' /\ NoLostWakeup' /\ Drained'
  <2>1. Exclusion'
    BY <1>7 DEF TaskThrows, Exclusion
  <2>2. Hands'
    BY <1>7 DEF TaskThrows, Hands
  <2>3. NoLostWakeup'
    BY <1>7 DEF TaskThrows, NoLostWakeup
  <2>4. Drained'
    BY <1>7 DEF TaskThrows, Drained, Hands
  <2> QED
    BY <2>1, <2>2, <2>3, <2>4
<1>8. ASSUME NEW w \in Workers, SpuriousWakeup(w) PROVE Exclusion' /\ Hands' /\ NoLostWakeup' /\ Drained'
  <2>1. Exclusion'
    BY <1>8 DEF SpuriousWakeup, Exclusion
  <2>2. Hands'
    BY <1>8 DEF SpuriousWakeup, Hands
  <2>3. NoLostWakeup'
    BY <1>8 DEF SpuriousWakeup, NoLostWakeup
  <2>4. Drained'
    BY <1>8 DEF SpuriousWakeup, Drained, Hands
  <2> QED
    BY <2>1, <2>2, <2>3, <2>4
<1>9. ASSUME NEW c \in Clients, Emplace(c) PROVE Exclusion' /\ Hands' /\ NoLostWakeup' /\ Drained'
  <2>1. Exclusion'
    BY <1>9 DEF Emplace, Exclusion
  <2>2. Hands'
    BY <1>9 DEF Emplace, Hands
  <2>3. NoLostWakeup'
    BY <1>9 DEF Emplace, NoLostWakeup
  <2>4. Drained'
    BY <1>9 DEF Emplace, Drained, Hands
  <2> QED
    BY <2>1, <2>2, <2>3, <2>4
<1>10. ASSUME NEW t \in Clients \union {Owner}, NotifyAll(t) PROVE Exclusion' /\ Hands' /\ NoLostWakeup' /\ Drained'
  <2>1. Exclusion'
    BY <1>10 DEF NotifyAll, After, Exclusion
  <2>2. Hands'
    BY <1>10 DEF NotifyAll, After, Hands
  <2>3. NoLostWakeup'
    BY <1>10 DEF NotifyAll, After, NoLostWakeup
  <2>4. Drained'
    BY <1>10 DEF NotifyAll, After, Drained, Hands
  <2> QED
    BY <2>1, <2>2, <2>3, <2>4
<1>11. ASSUME NEW c \in Clients, NEW task \in Tasks, Execute(c, task) PROVE Exclusion' /\ Hands' /\ NoLostWakeup' /\ Drained'
  <2>1. Exclusion'
    BY <1>11 DEF Execute, Exclusion
  <2>2. Hands'
    BY <1>11 DEF Execute, Hands
  <2>3. NoLostWakeup'
    BY <1>11 DEF Execute, NoLostWakeup
  <2>4. Drained'
    BY <1>11 DEF Execute, Drained, Hands
  <2> QED
    BY <2>1, <2>2, <2>3, <2>4
<1>12. ASSUME Constructed \/ SpawnFails \/ BeginDestroy PROVE Exclusion' /\ Hands' /\ NoLostWakeup' /\ Drained'
  <2>1. Exclusion'
    BY <1>12 DEF Constructed, SpawnFails, BeginDestroy, Exclusion
  <2>2. Hands'
    BY <1>12 DEF Constructed, SpawnFails, BeginDestroy, Hands
  <2>3. NoLostWakeup'
    BY <1>12 DEF Constructed, SpawnFails, BeginDestroy, NoLostWakeup
  <2>4. Drained'
    BY <1>12 DEF Constructed, SpawnFails, BeginDestroy, Drained, Hands
  <2> QED
    BY <2>1, <2>2, <2>3, <2>4
<1>13. ASSUME Shutdown PROVE Exclusion' /\ Hands' /\ NoLostWakeup' /\ Drained'
  <2>1. Exclusion'
    BY <1>13 DEF Shutdown, Exclusion
  <2>2. Hands'
    BY <1>13 DEF Shutdown, Hands
  <2>3. NoLostWakeup'
    BY <1>13 DEF Shutdown, NoLostWakeup
  <2>4. Drained'
    BY <1>13 DEF Shutdown, Drained, Hands
  <2> QED
    BY <2>1, <2>2, <2>3, <2>4
<1>14. ASSUME Exit PROVE Exclusion' /\ Hands' /\ NoLostWakeup' /\ Drained'
  <2>1. Exclusion'
    BY <1>14 DEF Exit, Exclusion
  <2>2. Hands'
    BY <1>14 DEF Exit, Hands
  <2>3. NoLostWakeup'
    BY <1>14 DEF Exit, NoLostWakeup
  <2>4. Drained'
    BY <1>14 DEF Exit, Drained, Hands
  <2> QED
    BY <2>1, <2>2, <2>3, <2>4
<1>15. ASSUME UNCHANGED vars PROVE Exclusion' /\ Hands' /\ NoLostWakeup' /\ Drained'
  <2>1. Exclusion'
    BY <1>15 DEF vars, Exclusion
  <2>2. Hands'
    BY <1>15 DEF vars, Hands
  <2>3. NoLostWakeup'
    BY <1>15 DEF vars, NoLostWakeup
  <2>4. Drained'
    BY <1>15 DEF vars, Drained, Hands
  <2> QED
    BY <2>1, <2>2, <2>3, <2>4
<1> QED
  BY <1>0, <1>1, <1>2, <1>3, <1>4, <1>5, <1>6, <1>7, <1>8, <1>9, <1>10, <1>11, <1>12,
     <1>13, <1>14, <1>15 DEF Next, WorkerStep, ClientStep, OwnerStep

\* Every variable has a value of its type, whatever the number of threads.
THEOREM TypeCorrect == Spec => []TypeOK
<1>1. Inv => TypeOK
  BY DEF Inv
<1> QED
  BY <1>1, InitInv, NextInv, PTL DEF Spec

\* No worker sleeps past a task or the shutdown while nobody is about to notify
\* it: the wait and the test before it are one critical section.
THEOREM WakeupsKept == Spec => []NoLostWakeup
<1>1. Inv => NoLostWakeup
  BY DEF Inv
<1> QED
  BY <1>1, InitInv, NextInv, PTL DEF Spec

\* No worker leaves before the queue is drained for good.
THEOREM QueueDrained == Spec => []Drained
<1>1. Inv => Drained
  BY DEF Inv
<1> QED
  BY <1>1, InitInv, NextInv, PTL DEF Spec

\* The object exists only when all its workers do.
AllBorn == pc[Owner] \notin {"construct", "failed"} => \A w \in Workers : pc[w] # "unborn"

LEMMA AllBornNext == TypeOK /\ AllBorn /\ [Next]_vars => AllBorn'
<1> SUFFICES ASSUME TypeOK, AllBorn, [Next]_vars PROVE AllBorn'
  OBVIOUS
<1> USE ThreadAssumption DEF TypeOK, AllBorn, Threads, GoTo, At, Locked
<1>1. ASSUME NEW t \in Threads, Lock(t) PROVE AllBorn'
  BY <1>1 DEF Lock
<1>2. ASSUME NEW w \in Workers,
             Spawn(w) \/ TakeTask(w) \/ Leave(w) \/ Wait(w) \/ RunTask(w) \/ SpuriousWakeup(w)
      PROVE  AllBorn'
  BY <1>2 DEF Spawn, TakeTask, Leave, Wait, RunTask, SpuriousWakeup
<1>3. ASSUME NEW c \in Clients, Emplace(c) \/ \E task \in Tasks : Execute(c, task) PROVE AllBorn'
  BY <1>3 DEF Emplace, Execute
<1>4. ASSUME NEW t \in Clients \union {Owner}, NotifyAll(t) PROVE AllBorn'
  BY <1>4 DEF NotifyAll, After
<1>5. ASSUME Constructed \/ SpawnFails \/ BeginDestroy \/ Shutdown PROVE AllBorn'
  BY <1>5 DEF Constructed, SpawnFails, BeginDestroy, Shutdown
<1>6. ASSUME Exit \/ (\E w \in Workers : TaskThrows(w)) \/ UNCHANGED vars PROVE AllBorn'
  BY <1>6 DEF Exit, TaskThrows, vars
<1> QED
  BY <1>1, <1>2, <1>3, <1>4, <1>5, <1>6 DEF Next, WorkerStep, ClientStep, OwnerStep

\* By the shutdown flag and the promise of a wakeup: clients are done when the
\* destructor runs, so only the owner could still owe a notification.
LEMMA NooneOwesAWakeup == Inv /\ AllBorn => NobodySleeps
<1> SUFFICES ASSUME Inv, AllBorn, pc[Owner] = "destroyed" PROVE NobodySleeps
  BY DEF NobodySleeps
<1>1. is_shutdown_ /\ \A c \in Clients : pc[c] = "idle"
  BY DEF Inv, Hands
<1>2. \A w \in Workers : pc[w] # "waiting"
  BY <1>1 DEF Inv, NoLostWakeup
<1>3. \A w \in Workers : pc[w] # "unborn"
  BY DEF AllBorn
<1> QED
  BY <1>2, <1>3 DEF NobodySleeps, Inv, TypeOK, WorkerPcs

\* Once the destructor has ended no worker sleeps, for any number of workers.
THEOREM AllAwake == Spec => []NobodySleeps
<1>1. Init => AllBorn
  BY ThreadAssumption DEF Init, AllBorn, Threads
<1>2. Inv => TypeOK
  BY DEF Inv
<1> QED
  BY <1>1, <1>2, AllBornNext, NooneOwesAWakeup, InitInv, NextInv, PTL DEF Spec

\* At most one thread is inside a critical section.
THEOREM MutualExclusion ==
  Spec => [](\A s, t \in Threads : pc[s] = "locked" /\ pc[t] = "locked" => s = t)
<1>1. Inv => \A s, t \in Threads : pc[s] = "locked" /\ pc[t] = "locked" => s = t
  BY DEF Inv, Exclusion
<1> QED
  BY <1>1, InitInv, NextInv, PTL DEF Spec
-----------------------------------------------------------------------------
\* A task is in one place: at one position of the queue, in the hands of one
\* thread, or executed.
Once ==
  /\ \A i, j \in DOMAIN tasks_ : tasks_[i] = tasks_[j] => i = j
  /\ \A i \in DOMAIN tasks_ : tasks_[i] \notin executed
  /\ \A i \in DOMAIN tasks_ : \A t \in Threads : current[t] # tasks_[i]
  /\ \A t \in Threads : current[t] \notin executed
  /\ \A s, t \in Threads : current[s] = current[t] /\ current[s] # NoTask => s = t

LEMMA InitOnce == Init => Once
BY DEF Init, Once

LEMMA NextOnce == Inv /\ Once /\ [Next]_vars => Once'
<1> SUFFICES ASSUME Inv, Once, [Next]_vars PROVE Once'
  OBVIOUS
<1> USE ThreadAssumption, TaskAssumption DEF Inv, TypeOK, Threads
<1>1. ASSUME NEW w \in Workers, TakeTask(w) PROVE Once'
  <2>1. /\ tasks_ # <<>> /\ tasks_' = Tail(tasks_) /\ executed' = executed
        /\ current' = [current EXCEPT ![w] = tasks_[1]]
    BY <1>1 DEF TakeTask
  <2>2. /\ DOMAIN tasks_ = 1..Len(tasks_) /\ Len(tasks_) \in Nat \ {0}
        /\ DOMAIN tasks_' = 1..(Len(tasks_) - 1)
        /\ \A i \in DOMAIN tasks_' : tasks_'[i] = tasks_[i + 1]
    BY <2>1
  <2>3. /\ \A i \in DOMAIN tasks_' : i + 1 \in DOMAIN tasks_ /\ i + 1 # 1
        /\ \A i, j \in DOMAIN tasks_' : i + 1 = j + 1 => i = j
        /\ 1 \in DOMAIN tasks_
    BY <2>2
  <2>4. \A t \in Threads : current'[t] = IF t = w THEN tasks_[1] ELSE current[t]
    BY <2>1
  <2>5. \A i, j \in DOMAIN tasks_' : tasks_'[i] = tasks_'[j] => i = j
    BY <2>2, <2>3 DEF Once
  <2>6. \A i \in DOMAIN tasks_' : tasks_'[i] \notin executed' /\ tasks_'[i] # tasks_[1]
    BY <2>1, <2>2, <2>3 DEF Once
  <2>7. \A i \in DOMAIN tasks_' : \A t \in Threads : current'[t] # tasks_'[i]
    BY <2>2, <2>3, <2>4, <2>6 DEF Once
  <2>8. \A t \in Threads : current'[t] \notin executed'
    BY <2>1, <2>3, <2>4 DEF Once
  <2>9. \A s, t \in Threads : current'[s] = current'[t] /\ current'[s] # NoTask => s = t
    BY <2>3, <2>4 DEF Once
  <2> QED
    BY <2>5, <2>6, <2>7, <2>8, <2>9 DEF Once
<1>2. ASSUME NEW w \in Workers, RunTask(w) PROVE Once'
  <2>1. /\ tasks_' = tasks_ /\ executed' = executed \union {current[w]}
        /\ current[w] # NoTask /\ current[w] \in Tasks
        /\ \A t \in Threads : current'[t] = IF t = w THEN NoTask ELSE current[t]
    BY <1>2 DEF RunTask, At, Hands
  <2>2. \A i \in DOMAIN tasks_' : tasks_'[i] \notin executed'
    BY <2>1 DEF Once
  <2>3. \A i \in DOMAIN tasks_' : tasks_'[i] # NoTask
    BY <2>1
  <2>4. \A t \in Threads : current'[t] \notin executed'
    BY <2>1 DEF Once
  <2> QED
    BY <2>1, <2>2, <2>3, <2>4 DEF Once
<1>3. ASSUME NEW c \in Clients, Emplace(c) PROVE Once'
  <2>1. /\ tasks_' = Append(tasks_, current[c]) /\ executed' = executed
        /\ current' = [current EXCEPT ![c] = NoTask]
        /\ current[c] # NoTask /\ current[c] \in Tasks
    BY <1>3 DEF Emplace, Hands, Locked, At
  <2>2. /\ DOMAIN tasks_ = 1..Len(tasks_) /\ Len(tasks_) \in Nat
        /\ DOMAIN tasks_' = 1..(Len(tasks_) + 1)
        /\ \A i \in DOMAIN tasks_ : tasks_'[i] = tasks_[i]
        /\ tasks_'[Len(tasks_) + 1] = current[c]
    BY <2>1
  <2>3. \A i \in DOMAIN tasks_' : i \in DOMAIN tasks_ \/ i = Len(tasks_) + 1
    BY <2>2
  <2>4. \A t \in Threads : current'[t] = IF t = c THEN NoTask ELSE current[t]
    BY <2>1
  <2>5. \A i \in DOMAIN tasks_ : tasks_[i] \in Tasks
    BY <2>2
  <2>6. \A i, j \in DOMAIN tasks_' : tasks_'[i] = tasks_'[j] => i = j
    BY <2>2, <2>3 DEF Once
  <2> QED
    BY <2>1, <2>2, <2>3, <2>4, <2>5, <2>6 DEF Once
<1>4. ASSUME NEW c \in Clients, NEW task \in Tasks, Execute(c, task) PROVE Once'
  <2>1. /\ tasks_' = tasks_ /\ executed' = executed
        /\ \A t \in Threads : current'[t] = IF t = c THEN task ELSE current[t]
    BY <1>4 DEF Execute
  <2>2. /\ task \notin executed /\ task # NoTask
        /\ \A i \in DOMAIN tasks_ : tasks_[i] # task
        /\ \A t \in Threads : current[t] # task
    BY <1>4 DEF Execute, TaskQueue, InHand
  <2> QED
    BY <2>1, <2>2 DEF Once
<1>5. ASSUME UNCHANGED <<tasks_, current, executed>> PROVE Once'
  BY <1>5 DEF Once
<1> QED
  BY <1>1, <1>2, <1>3, <1>4, <1>5
     DEF Next, WorkerStep, ClientStep, OwnerStep, Lock, Spawn, Constructed, SpawnFails,
         Leave, Wait, TaskThrows, SpuriousWakeup, BeginDestroy, Shutdown, NotifyAll, Exit, vars
-----------------------------------------------------------------------------
Running == {current[w] : w \in Workers} \ {NoTask}

\* A worker that holds no task leaves room for another.
LEMMA RoomForOne ==
  ASSUME NEW w \in Workers, current[w] = NoTask
  PROVE  Cardinality(Running) < Cardinality(Workers)
<1> DEFINE others == Workers \ {w}
           inHand == {current[u] : u \in others}
<1>1. IsFiniteSet(Workers) /\ IsFiniteSet(others)
      /\ Cardinality(others) = Cardinality(Workers) - 1
      /\ Cardinality(Workers) \in Nat /\ Cardinality(others) \in Nat
  BY ThreadAssumption, FS_RemoveElement, FS_CardinalityType
<1>2. IsFiniteSet(inHand) /\ Cardinality(inHand) <= Cardinality(others)
  <2> DEFINE hand == [u \in others |-> current[u]]
  <2>1. hand \in Surjection(others, inHand)
    BY DEF Surjection
  <2> HIDE DEF hand
  <2> QED
    BY <1>1, <2>1, FS_Surjection
<1>3. Running \subseteq inHand
  BY DEF Running
<1>4. IsFiniteSet(Running) /\ Cardinality(Running) <= Cardinality(inHand)
      /\ Cardinality(Running) \in Nat /\ Cardinality(inHand) \in Nat
  BY <1>2, <1>3, FS_Subset, FS_CardinalityType
<1> HIDE DEF inHand, others
<1> QED
  BY <1>1, <1>2, <1>4

open == pc[Owner] \in {"construct", "ready"}

LEMMA InitMaps == Init => Abstract!Init
<1> SUFFICES ASSUME Init PROVE Abstract!Init
  OBVIOUS
<1>1. pc[Owner] = "construct"
  BY ThreadAssumption DEF Init, Threads
<1>2. Running = {}
  BY DEF Init, Running, Threads
<1> QED
  BY <1>1, <1>2 DEF Init, Abstract!Init, Running

LEMMA NextMaps == Inv /\ Once /\ [Next]_vars => [Abstract!Next]_(Abstract!poolVars)
<1> SUFFICES ASSUME Inv, Once, [Next]_vars PROVE [Abstract!Next]_(Abstract!poolVars)
  OBVIOUS
<1> USE ThreadAssumption, TaskAssumption DEF Threads
<1>1. ASSUME NEW w \in Workers, TakeTask(w) PROVE Abstract!Start
  <2>1. current[w] = NoTask /\ tasks_ # <<>> /\ Head(tasks_) \in Tasks
    BY <1>1 DEF TakeTask, Locked, At, Inv, Hands, TypeOK
  <2>2. Running' = Running \union {Head(tasks_)}
    BY <1>1, <2>1 DEF TakeTask, Running, Inv, TypeOK
  <2>3. open' = open
    BY <1>1 DEF TakeTask, open, GoTo
  <2>4. Cardinality(Running) < Cardinality(Workers)
    BY <2>1, RoomForOne
  <2>5. Abstract!Cardinality(Running) = Cardinality(Running)
    BY DEF Abstract!Cardinality, Cardinality
  <2> QED
    BY <1>1, <2>1, <2>2, <2>3, <2>4, <2>5
       DEF TakeTask, Locked, At, Abstract!Start, Running, open
<1>2. ASSUME NEW w \in Workers, RunTask(w) PROVE \E task \in Tasks : Abstract!Finish(task)
  <2>1. current[w] \in Tasks \ Throwing /\ current[w] \in Running
    BY <1>2 DEF RunTask, At, Inv, Hands, TypeOK, Running
  <2>2. Running' = Running \ {current[w]}
    BY <1>2, <2>1 DEF RunTask, Running, Inv, TypeOK, Once
  <2>3. open' = open
    BY <1>2 DEF RunTask, open, GoTo
  <2> QED
    BY <1>2, <2>1, <2>2, <2>3 DEF RunTask, At, Abstract!Finish, Running, open
<1>3. ASSUME NEW w \in Workers, TaskThrows(w) PROVE \E task \in Tasks : Abstract!Throw(task)
  <2>1. current[w] \in Tasks \intersect Throwing /\ current[w] \in Running
    BY <1>3 DEF TaskThrows, At, Inv, Hands, TypeOK, Running
  <2> QED
    BY <1>3, <2>1 DEF TaskThrows, At, Abstract!Throw, Running, open
<1>4. ASSUME NEW c \in Clients, Emplace(c) PROVE \E task \in Tasks : Abstract!Submit(task)
  <2>1. current[c] \in Tasks /\ pc[Owner] = "ready"
    BY <1>4 DEF Emplace, Locked, At, Inv, Hands, TypeOK
  <2>2. current[c] \notin Abstract!Waiting \union Running \union executed
    BY <2>1 DEF Abstract!Waiting, Once, Running
  <2>3. Running' = Running
    BY <1>4 DEF Emplace, Running, Inv, TypeOK
  <2>4. open /\ open'
    BY <1>4, <2>1 DEF Emplace, open, GoTo
  <2> QED
    BY <1>4, <2>1, <2>2, <2>3, <2>4 DEF Emplace, Locked, At, Abstract!Submit, Running, open
<1>5. CASE SpawnFails \/ BeginDestroy
  <2>1. Abstract!Close
    BY <1>5 DEF SpawnFails, BeginDestroy, At, GoTo, Abstract!Close, Inv, TypeOK
  <2> QED
    BY <2>1 DEF Abstract!Next
<1>6. ASSUME Exit PROVE Abstract!Return
  BY <1>6 DEF Exit, Abstract!Return
<1>7. ASSUME UNCHANGED <<tasks_, Running, executed, open, alive>>
      PROVE  UNCHANGED Abstract!poolVars
  BY <1>7 DEF Abstract!poolVars, Running, open
<1>8. ASSUME NEW c \in Clients, NEW task \in Tasks, Execute(c, task)
      PROVE  UNCHANGED <<tasks_, Running, executed, open, alive>>
  BY <1>8 DEF Execute, GoTo, Running, open, Inv, TypeOK
<1>9. ASSUME NEW t \in Clients \union {Owner}, NotifyAll(t)
      PROVE  UNCHANGED <<tasks_, Running, executed, open, alive>>
  BY <1>9 DEF NotifyAll, After, At, Running, open, Inv, TypeOK, OwnerPcs
<1>10. ASSUME NEW t \in Threads, Lock(t)
       PROVE  UNCHANGED <<tasks_, Running, executed, open, alive>>
  BY <1>10 DEF Lock, At, GoTo, Running, open, Inv, TypeOK
<1>11. ASSUME NEW w \in Workers, Spawn(w) \/ Leave(w) \/ Wait(w) \/ SpuriousWakeup(w)
       PROVE  UNCHANGED <<tasks_, Running, executed, open, alive>>
  BY <1>11 DEF Spawn, Leave, Wait, SpuriousWakeup, GoTo, Running, open, Inv, TypeOK
<1>12. ASSUME Constructed \/ Shutdown \/ UNCHANGED vars
       PROVE  UNCHANGED <<tasks_, Running, executed, open, alive>>
  BY <1>12 DEF Constructed, Shutdown, Locked, At, GoTo, Running, open, vars, Inv, TypeOK
<1> QED
  BY <1>1, <1>2, <1>3, <1>4, <1>5, <1>6, <1>7, <1>8, <1>9, <1>10, <1>11, <1>12
     DEF Next, WorkerStep, ClientStep, OwnerStep, Abstract!Next

\* The safety half of ImplementsTaskPool, for any number of threads and tasks:
\* first in, first out, and every task once and by one worker.
THEOREM PoolIsFifo == Spec => Abstract!Init /\ [][Abstract!Next]_(Abstract!poolVars)
<1>1. Init /\ [][Next]_vars => [](Inv /\ Once)
  BY InitInv, NextInv, InitOnce, NextOnce, PTL
<1>2. Inv /\ Once /\ [Next]_vars => [Abstract!Next]_(Abstract!poolVars)
  BY NextMaps
<1> QED
  BY <1>1, <1>2, InitMaps, PTL DEF Spec
=============================================================================
