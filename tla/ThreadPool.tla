----------------------------- MODULE ThreadPool -----------------------------
(***************************************************************************)
(* TThreadPool (src/src/thread_pool.h, thread_pool.cpp): workers that take *)
(* tasks from a queue under a mutex and wait on a condition variable.      *)
(*                                                                         *)
(* Nothing blocks or calls out while the mutex is held, so what a thread   *)
(* does under it is one step.  Condition.wait tests its predicate under    *)
(* the mutex and releases it as it goes to sleep, in the same step; a      *)
(* worker that wakes up tests again.  Running a task, and notifying the    *)
(* workers, happens without the mutex.                                     *)
(***************************************************************************)
EXTENDS Naturals, Sequences

CONSTANTS
    Workers,     \* the threads of the pool
    TaskIds,     \* the tasks that may be enqueued
    NoTask       \* what a worker without a task holds

ASSUME PoolAssumption == NoTask \notin TaskIds

VARIABLES
    Tasks,       \* the queue
    IsDone,      \* set by the destructor
    worker,      \* where each worker is
    task         \* the task each worker has taken

poolVars == <<Tasks, IsDone, worker, task>>

\* "lock": about to test the predicate; "wait": asleep; "run": in its task.
WorkerStates == {"lock", "wait", "run", "returned"}

At(state) == {w \in Workers : worker[w] = state}

\* The constructor launches the workers.
PoolInit ==
    /\ Tasks = << >>
    /\ IsDone = FALSE
    /\ worker = [w \in Workers |-> "lock"]
    /\ task = [w \in Workers |-> NoTask]

-----------------------------------------------------------------------------
(***************************************************************************)
(* The owner of the pool.                                                  *)
(***************************************************************************)

\* enqueue, up to the release of the mutex.
Enqueue(t) ==
    /\ ~IsDone
    /\ Tasks' = Append(Tasks, t)
    /\ UNCHANGED <<IsDone, worker, task>>

\* Mutated form: no worker is woken as long as another one is at work.
NotifyOneSparingly ==
    /\ IF At("wait") # {} /\ At("run") = {}
       THEN \E w \in At("wait") : worker' = [worker EXCEPT ![w] = "lock"]
       ELSE UNCHANGED worker
    /\ UNCHANGED <<Tasks, IsDone, task>>

\* Condition.notify_one() wakes one of the sleepers, if there are any.
NotifyOne ==
    /\ IF At("wait") # {}
       THEN \E w \in At("wait") : worker' = [worker EXCEPT ![w] = "lock"]
       ELSE UNCHANGED worker
    /\ UNCHANGED <<Tasks, IsDone, task>>

\* The destructor, up to the release of the mutex.
Stop ==
    /\ IsDone' = TRUE
    /\ UNCHANGED <<Tasks, worker, task>>

\* Mutated form: the destructor wakes one worker.
NotifyAllOnce == NotifyOne

\* Condition.notify_all().
NotifyAll ==
    /\ worker' = [w \in Workers |-> IF worker[w] = "wait" THEN "lock" ELSE worker[w]]
    /\ UNCHANGED <<Tasks, IsDone, task>>

\* The joins return when every worker has returned.
Joined == At("returned") = Workers

-----------------------------------------------------------------------------
(***************************************************************************)
(* The workers.                                                            *)
(***************************************************************************)

Wait(w) ==
    /\ worker[w] = "lock"
    /\ ~IsDone /\ Tasks = << >>
    /\ worker' = [worker EXCEPT ![w] = "wait"]
    /\ UNCHANGED <<Tasks, IsDone, task>>

\* wait may return without a notification.
WakeUp(w) ==
    /\ worker[w] = "wait"
    /\ worker' = [worker EXCEPT ![w] = "lock"]
    /\ UNCHANGED <<Tasks, IsDone, task>>

\* Mutated form: a stopped pool drops what is queued.
ReturnUndrained(w) ==
    /\ worker[w] = "lock"
    /\ IsDone
    /\ worker' = [worker EXCEPT ![w] = "returned"]
    /\ UNCHANGED <<Tasks, IsDone, task>>

Return(w) ==
    /\ worker[w] = "lock"
    /\ IsDone /\ Tasks = << >>
    /\ worker' = [worker EXCEPT ![w] = "returned"]
    /\ UNCHANGED <<Tasks, IsDone, task>>

\* Mutated form: the front is read and not popped.
TakeUnpopped(w) ==
    /\ worker[w] = "lock"
    /\ Tasks # << >>
    /\ task' = [task EXCEPT ![w] = Head(Tasks)]
    /\ worker' = [worker EXCEPT ![w] = "run"]
    /\ UNCHANGED <<Tasks, IsDone>>

Take(w) ==
    /\ worker[w] = "lock"
    /\ Tasks # << >>
    /\ task' = [task EXCEPT ![w] = Head(Tasks)]
    /\ Tasks' = Tail(Tasks)
    /\ worker' = [worker EXCEPT ![w] = "run"]
    /\ UNCHANGED IsDone

\* Mutated form: the worker's function object outlives its turn of the loop.
FinishKeepsTask(w) ==
    /\ worker[w] = "run"
    /\ worker' = [worker EXCEPT ![w] = "lock"]
    /\ UNCHANGED <<Tasks, IsDone, task>>

\* task() returns; it never throws, an exception goes into its future.
Finish(w) ==
    /\ worker[w] = "run"
    /\ task' = [task EXCEPT ![w] = NoTask]
    /\ worker' = [worker EXCEPT ![w] = "lock"]
    /\ UNCHANGED <<Tasks, IsDone>>

-----------------------------------------------------------------------------
\* The types of the pool.
PoolTypeOK ==
    /\ Tasks \in Seq(TaskIds)
    /\ IsDone \in BOOLEAN
    /\ worker \in [Workers -> WorkerStates]
    /\ task \in [Workers -> TaskIds \cup {NoTask}]
    /\ \A w \in Workers : task[w] # NoTask <=> worker[w] = "run"
=============================================================================
