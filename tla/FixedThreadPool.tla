-------------------------- MODULE FixedThreadPool --------------------------
(***************************************************************************)
(* fixed_thread_pool (include/FixedThreadPool.h): detached workers that    *)
(* share a mutex, a condition variable, a shutdown flag and a queue of     *)
(* tasks with the object.  The header is used from several client threads; *)
(* the thread that owns the object constructs it and destroys it, as C++   *)
(* demands when no client is inside execute() any more.                    *)
(*                                                                         *)
(* What a thread does while it holds the mutex is one step; taking the     *)
(* mutex, running a task and notify_all are steps of their own.  A thread  *)
(* waits on cond_ exactly while its pc is "waiting", and such a wait may   *)
(* also end spuriously.                                                    *)
(***************************************************************************)
EXTENDS Naturals, Sequences, FiniteSets

CONSTANTS
  Workers, Clients, Owner,  \* the threads
  Tasks,                    \* function objects, each passed to execute() once
  Throwing,                 \* the tasks that end with an exception
  NoThread, NoTask

VARIABLES
  mtx_,          \* the thread that holds data::mtx_, or NoThread
  is_shutdown_,
  tasks_,
  pc,            \* where each thread stands
  current,       \* the task a worker runs or a client hands over
  executed,      \* the tasks that have returned
  alive          \* whether the program is still running

vars == <<mtx_, is_shutdown_, tasks_, pc, current, executed, alive>>

Threads == Workers \union Clients \union {Owner}

ASSUME ThreadAssumption ==
  /\ IsFiniteSet(Workers)
  /\ Workers \intersect Clients = {}
  /\ Owner \notin Workers \union Clients
  /\ NoThread \notin Threads
ASSUME TaskAssumption == NoTask \notin Tasks /\ Throwing \subseteq Tasks

TaskQueue == {tasks_[i] : i \in DOMAIN tasks_}
InHand == {current[t] : t \in Threads} \ {NoTask}
-----------------------------------------------------------------------------
Init ==
  /\ mtx_ = NoThread
  /\ is_shutdown_ = FALSE
  /\ tasks_ = <<>>
  /\ pc = [t \in Threads |->
             CASE t \in Workers -> "unborn" [] t \in Clients -> "idle"
               [] OTHER -> "construct"]
  /\ current = [t \in Threads |-> NoTask]
  /\ executed = {}
  /\ alive = TRUE

At(t, label) == alive /\ pc[t] = label
GoTo(t, label) == pc' = [pc EXCEPT ![t] = label]

\* A thread gets the mutex...
Lock(t) ==
  /\ At(t, "lock")
  /\ mtx_ = NoThread
  /\ mtx_' = t
  /\ GoTo(t, "locked")
  /\ UNCHANGED <<is_shutdown_, tasks_, current, executed, alive>>

\* ... and gives it back at the end of what it does with it.
Locked(t) == At(t, "locked")
Unlock == mtx_' = NoThread

\* The constructor starts and detaches one worker.
Spawn(w) ==
  /\ At(Owner, "construct") /\ At(w, "unborn")
  /\ GoTo(w, "lock")
  /\ UNCHANGED <<mtx_, is_shutdown_, tasks_, current, executed, alive>>

Constructed ==
  /\ At(Owner, "construct")
  /\ \A w \in Workers : pc[w] # "unborn"
  /\ GoTo(Owner, "ready")
  /\ UNCHANGED <<mtx_, is_shutdown_, tasks_, current, executed, alive>>

\* std::thread throws: there is no object, and no destructor will run.
SpawnFails ==
  /\ At(Owner, "construct")
  /\ \E w \in Workers : pc[w] = "unborn"
  /\ GoTo(Owner, "failed")
  /\ UNCHANGED <<mtx_, is_shutdown_, tasks_, current, executed, alive>>
-----------------------------------------------------------------------------
\* Mutated form of TakeTask: the newest task is taken.
TakeNewest(w) ==
  /\ Locked(w) /\ tasks_ # <<>>
  /\ current' = [current EXCEPT ![w] = tasks_[Len(tasks_)]]
  /\ tasks_' = SubSeq(tasks_, 1, Len(tasks_) - 1)
  /\ Unlock
  /\ GoTo(w, "run")
  /\ UNCHANGED <<is_shutdown_, executed, alive>>

\* The loop of a worker, under the mutex: take the oldest task, ...
TakeTask(w) ==
  /\ Locked(w) /\ tasks_ # <<>>
  /\ current' = [current EXCEPT ![w] = Head(tasks_)]
  /\ tasks_' = Tail(tasks_)
  /\ Unlock
  /\ GoTo(w, "run")
  /\ UNCHANGED <<is_shutdown_, executed, alive>>

\* Mutated form of Leave: the flag is tested before the queue.
LeaveAtOnce(w) ==
  /\ Locked(w) /\ is_shutdown_
  /\ Unlock
  /\ GoTo(w, "gone")
  /\ UNCHANGED <<is_shutdown_, tasks_, current, executed, alive>>

\* ... leave the loop when there is none and the pool is shut down, ...
Leave(w) ==
  /\ Locked(w) /\ tasks_ = <<>> /\ is_shutdown_
  /\ Unlock
  /\ GoTo(w, "gone")
  /\ UNCHANGED <<is_shutdown_, tasks_, current, executed, alive>>

\* ... or wait on the condition variable, which gives the mutex back.
Wait(w) ==
  /\ Locked(w) /\ tasks_ = <<>> /\ ~is_shutdown_
  /\ Unlock
  /\ GoTo(w, "waiting")
  /\ UNCHANGED <<is_shutdown_, tasks_, current, executed, alive>>

RunTask(w) ==
  /\ At(w, "run") /\ current[w] \notin Throwing
  /\ executed' = executed \union {current[w]}
  /\ current' = [current EXCEPT ![w] = NoTask]
  /\ GoTo(w, "lock")
  /\ UNCHANGED <<mtx_, is_shutdown_, tasks_, alive>>

\* An exception leaves the thread: std::terminate.
TaskThrows(w) ==
  /\ At(w, "run") /\ current[w] \in Throwing
  /\ alive' = FALSE
  /\ UNCHANGED <<mtx_, is_shutdown_, tasks_, pc, current, executed>>

SpuriousWakeup(w) ==
  /\ At(w, "waiting")
  /\ GoTo(w, "lock")
  /\ UNCHANGED <<mtx_, is_shutdown_, tasks_, current, executed, alive>>
-----------------------------------------------------------------------------
\* A client calls execute().
Execute(c, task) ==
  /\ At(c, "idle") /\ pc[Owner] = "ready"
  /\ task \notin TaskQueue \union InHand \union executed
  /\ current' = [current EXCEPT ![c] = task]
  /\ GoTo(c, "lock")
  /\ UNCHANGED <<mtx_, is_shutdown_, tasks_, executed, alive>>

Emplace(c) ==
  /\ Locked(c)
  /\ tasks_' = Append(tasks_, current[c])
  /\ current' = [current EXCEPT ![c] = NoTask]
  /\ Unlock
  /\ GoTo(c, "notify")
  /\ UNCHANGED <<is_shutdown_, executed, alive>>

\* ~fixed_thread_pool().
BeginDestroy ==
  /\ At(Owner, "ready")
  /\ \A c \in Clients : pc[c] = "idle"
  /\ GoTo(Owner, "lock")
  /\ UNCHANGED <<mtx_, is_shutdown_, tasks_, current, executed, alive>>

\* Mutated form of Shutdown: nobody is notified.
ShutdownSilently ==
  /\ Locked(Owner)
  /\ is_shutdown_' = TRUE
  /\ Unlock
  /\ GoTo(Owner, "destroyed")
  /\ UNCHANGED <<tasks_, current, executed, alive>>

Shutdown ==
  /\ Locked(Owner)
  /\ is_shutdown_' = TRUE
  /\ Unlock
  /\ GoTo(Owner, "notify")
  /\ UNCHANGED <<tasks_, current, executed, alive>>

\* Mutated form of After: the destructor ends like execute().
AfterExecute(t) == "idle"

After(t) == IF t = Owner THEN "destroyed" ELSE "idle"

\* Mutated form of NotifyAll: notify_one().
NotifyOne(t) ==
  /\ At(t, "notify")
  /\ LET asleep == {s \in Threads : pc[s] = "waiting"}
     IN  IF asleep = {} THEN GoTo(t, After(t))
         ELSE \E s \in asleep : pc' = [pc EXCEPT ![t] = After(t), ![s] = "lock"]
  /\ UNCHANGED <<mtx_, is_shutdown_, tasks_, current, executed, alive>>

\* notify_all(): every thread that waits now goes for the mutex.
NotifyAll(t) ==
  /\ At(t, "notify")
  /\ pc' = [s \in Threads |->
              IF s = t THEN After(t) ELSE IF pc[s] = "waiting" THEN "lock" ELSE pc[s]]
  /\ UNCHANGED <<mtx_, is_shutdown_, tasks_, current, executed, alive>>

\* main() returns; the workers are detached and nobody waits for them.
Exit ==
  /\ alive /\ pc[Owner] \in {"destroyed", "failed"}
  /\ alive' = FALSE
  /\ UNCHANGED <<mtx_, is_shutdown_, tasks_, pc, current, executed>>

WorkerStep(w) == TakeTask(w) \/ Leave(w) \/ Wait(w) \/ RunTask(w) \/ TaskThrows(w)
ClientStep(c) == Emplace(c) \/ NotifyAll(c)
OwnerStep == Constructed \/ Shutdown \/ NotifyAll(Owner)

Next ==
  \/ \E t \in Threads : Lock(t)
  \/ \E w \in Workers : Spawn(w) \/ WorkerStep(w) \/ SpuriousWakeup(w)
  \/ \E c \in Clients : ClientStep(c) \/ \E task \in Tasks : Execute(c, task)
  \/ OwnerStep \/ SpawnFails \/ BeginDestroy \/ Exit

\* A thread that can go on without the mutex goes on, and a free mutex is
\* given to one of the threads that want it.  Which one is the mutex's choice:
\* std::mutex promises no order, so a thread may lose for ever.
Fairness ==
  /\ WF_vars(\E t \in Threads : Lock(t))
  /\ \A w \in Workers : WF_vars(WorkerStep(w))
  /\ \A c \in Clients : WF_vars(ClientStep(c))
  /\ WF_vars(OwnerStep)

Spec == Init /\ [][Next]_vars /\ Fairness
-----------------------------------------------------------------------------
WorkerPcs == {"unborn", "lock", "locked", "run", "waiting", "gone"}
ClientPcs == {"idle", "lock", "locked", "notify"}
OwnerPcs == {"construct", "failed", "ready", "lock", "locked", "notify", "destroyed"}

\* The variables have the types of their C++ counterparts and every thread is
\* at a place of its own code.
TypeOK ==
  /\ mtx_ \in Threads \union {NoThread}
  /\ is_shutdown_ \in BOOLEAN /\ alive \in BOOLEAN
  /\ tasks_ \in Seq(Tasks)
  /\ current \in [Threads -> Tasks \union {NoTask}]
  /\ executed \subseteq Tasks
  /\ DOMAIN pc = Threads
  /\ \A w \in Workers : pc[w] \in WorkerPcs
  /\ \A c \in Clients : pc[c] \in ClientPcs
  /\ pc[Owner] \in OwnerPcs

\* No wakeup is lost: whenever a worker sleeps although there is a task to
\* take or the pool is shut down, some thread is still about to call
\* notify_all (FixedThreadPool.h:29-38, 50-54, 60-64).
NoLostWakeup ==
  (\E w \in Workers : pc[w] = "waiting") /\ (tasks_ # <<>> \/ is_shutdown_) =>
    \E t \in Clients \union {Owner} : pc[t] = "notify"

\* A worker leaves a pool only when its last task has been taken: from then on
\* the queue is empty and nothing can be put into it (FixedThreadPool.h:29-36,
\* 48-56).
Drained ==
  (\E w \in Workers : pc[w] = "gone") =>
    /\ tasks_ = <<>>
    /\ \A c \in Clients : current[c] = NoTask
    /\ pc[Owner] \in {"notify", "destroyed"}

\* The destructor has called every worker: once it has ended none sleeps and
\* none will, so that each can still see the shutdown and leave
\* (FixedThreadPool.h:35-38, 48-56).
NobodySleeps ==
  pc[Owner] = "destroyed" =>
    \A w \in Workers : pc[w] \in {"lock", "locked", "run", "gone"}

Abstract ==
  INSTANCE TaskPool WITH
    Size <- Cardinality(Workers),
    queued <- tasks_,
    running <- {current[w] : w \in Workers} \ {NoTask},
    finished <- executed,
    open <- pc[Owner] \in {"construct", "ready"},
    alive <- alive

\* The pool implements the abstract one: first in, first out, every task once
\* and by one worker; unless the program ends, every task that was put into
\* the queue is executed, whoever sleeps or leaves meanwhile.
ImplementsTaskPool == Abstract!Spec

\* Once the object is destroyed no worker is left over, unless the program
\* ends before them.
WorkersLeave ==
  pc[Owner] = "destroyed" ~> ~alive \/ \A w \in Workers : pc[w] = "gone"
=============================================================================
