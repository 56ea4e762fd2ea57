----------------------------- MODULE ThreadPool -----------------------------
(***************************************************************************)
(* core/src/thread_pool.cpp: worker threads that run submitted tasks, a    *)
(* caller of wait_idle, and the destruction of the pool, which stops and   *)
(* joins the workers.  A worker blocked in queue_cv_.wait goes on when its *)
(* predicate holds (submit notifies after every push); idle_cv_ is         *)
(* modelled in full, with its mutex, because its notification is           *)
(* conditional.                                                            *)
(***************************************************************************)
EXTENDS Naturals, Sequences, FiniteSets

CONSTANTS Workers, Tasks

ASSUME PoolAssumption == IsFiniteSet(Workers)

VARIABLES tasks_,         \* the queue of tasks
          active_tasks,   \* the counter
          wpc, task,      \* each worker: its place in worker(), its task (a set)
          waiter,         \* the caller of wait_idle
          stopping,       \* the workers' stop tokens
          submitted, done \* history: tasks submitted, tasks that have run

poolVars == <<tasks_, active_tasks, wpc, task, waiter, stopping, submitted, done>>

PoolInit ==
    /\ tasks_ = << >> /\ active_tasks = 0
    /\ wpc = [w \in Workers |-> "wait"]
    /\ task = [w \in Workers |-> {}]
    /\ waiter = "out" /\ stopping = FALSE
    /\ submitted = {} /\ done = {}

\* Any thread may submit until the pool is destroyed; the thread that owns
\* the pool is the one that calls wait_idle and destroys it.
OwnerFree == ~ stopping /\ waiter \in {"out", "returned"}

submit ==
    \E x \in Tasks \ submitted :
        /\ ~ stopping
        /\ tasks_' = Append(tasks_, x)
        /\ submitted' = submitted \cup {x}
        /\ UNCHANGED <<active_tasks, wpc, task, waiter, stopping, done>>

-----------------------------------------------------------------------------
(* worker *)

Pop_bug_stop(w) ==
    /\ wpc[w] = "wait" /\ tasks_ # << >> /\ ~ stopping
    /\ task' = [task EXCEPT ![w] = {Head(tasks_)}]
    /\ tasks_' = Tail(tasks_)
    /\ wpc' = [wpc EXCEPT ![w] = "taken"]
    /\ UNCHANGED <<active_tasks, waiter, stopping, submitted, done>>

\* queue_cv_.wait(lock, stop, ...) returned with a task: pop it.
Pop(w) ==
    /\ wpc[w] = "wait" /\ tasks_ # << >>
    /\ task' = [task EXCEPT ![w] = {Head(tasks_)}]
    /\ tasks_' = Tail(tasks_)
    /\ wpc' = [wpc EXCEPT ![w] = "taken"]
    /\ UNCHANGED <<active_tasks, waiter, stopping, submitted, done>>

Exit_bug_stop(w) ==
    /\ wpc[w] = "wait" /\ stopping
    /\ wpc' = [wpc EXCEPT ![w] = "exited"]
    /\ UNCHANGED <<tasks_, active_tasks, task, waiter, stopping, submitted, done>>

\* ... or with none: after a stop, and only when the queue is empty.
Exit(w) ==
    /\ wpc[w] = "wait" /\ stopping /\ tasks_ = << >>
    /\ wpc' = [wpc EXCEPT ![w] = "exited"]
    /\ UNCHANGED <<tasks_, active_tasks, task, waiter, stopping, submitted, done>>

CountUp(w) ==
    /\ wpc[w] = "taken"
    /\ active_tasks' = active_tasks + 1
    /\ wpc' = [wpc EXCEPT ![w] = "run"]
    /\ UNCHANGED <<tasks_, task, waiter, stopping, submitted, done>>

\* The task returns or throws: the exception is swallowed either way.
RunTask(w) ==
    /\ wpc[w] = "run"
    /\ done' = done \cup task[w]
    /\ task' = [task EXCEPT ![w] = {}]
    /\ wpc' = [wpc EXCEPT ![w] = "ran"]
    /\ UNCHANGED <<tasks_, active_tasks, waiter, stopping, submitted>>

CountDown(w) ==
    /\ wpc[w] = "ran"
    /\ active_tasks' = active_tasks - 1
    /\ wpc' = [wpc EXCEPT ![w] = IF active_tasks = 1 THEN "notify" ELSE "wait"]
    /\ UNCHANGED <<tasks_, task, waiter, stopping, submitted, done>>

\* The waiter holds idle_mutex_ from the evaluation of its predicate until
\* it is blocked on the condition variable.
IdleMutexFree == waiter \notin {"evaluate", "block"}

NotifyIdle_bug_unlocked(w) ==
    /\ wpc[w] = "notify"
    /\ waiter' = IF waiter = "blocked" THEN "evaluate" ELSE waiter
    /\ wpc' = [wpc EXCEPT ![w] = "wait"]
    /\ UNCHANGED <<tasks_, active_tasks, task, stopping, submitted, done>>

\* lock idle_mutex_; idle_cv_.notify_all()
NotifyIdle(w) ==
    /\ wpc[w] = "notify" /\ IdleMutexFree
    /\ waiter' = IF waiter = "blocked" THEN "evaluate" ELSE waiter
    /\ wpc' = [wpc EXCEPT ![w] = "wait"]
    /\ UNCHANGED <<tasks_, active_tasks, task, stopping, submitted, done>>

Worker(w) == \/ Pop(w) \/ Exit(w) \/ CountUp(w) \/ RunTask(w)
             \/ CountDown(w) \/ NotifyIdle(w)

-----------------------------------------------------------------------------
(* wait_idle and the destructor *)

wait_idle ==
    /\ OwnerFree
    /\ waiter' = "evaluate"
    /\ UNCHANGED <<tasks_, active_tasks, wpc, task, stopping, submitted, done>>

EvaluateIdle_bug_queue ==
    /\ waiter = "evaluate"
    /\ waiter' = IF active_tasks = 0 THEN "returned" ELSE "block"
    /\ UNCHANGED <<tasks_, active_tasks, wpc, task, stopping, submitted, done>>

EvaluateIdle ==
    /\ waiter = "evaluate"
    /\ waiter' = IF tasks_ = << >> /\ active_tasks = 0 THEN "returned" ELSE "block"
    /\ UNCHANGED <<tasks_, active_tasks, wpc, task, stopping, submitted, done>>

BlockIdle ==
    /\ waiter = "block"
    /\ waiter' = "blocked"
    /\ UNCHANGED <<tasks_, active_tasks, wpc, task, stopping, submitted, done>>

\* ~ThreadPool: the workers are asked to stop, then joined.
DestroyPool ==
    /\ OwnerFree
    /\ stopping' = TRUE
    /\ UNCHANGED <<tasks_, active_tasks, wpc, task, waiter, submitted, done>>

Waiter == EvaluateIdle \/ BlockIdle

PoolNext == \/ \E w \in Workers : Worker(w)
            \/ submit \/ wait_idle \/ Waiter \/ DestroyPool

\* Every thread runs; no one has to submit, wait or stop.
PoolFairness == (\A w \in Workers : WF_poolVars(Worker(w))) /\ WF_poolVars(Waiter)

PoolSpec == PoolInit /\ [][PoolNext]_poolVars /\ PoolFairness

-----------------------------------------------------------------------------
(* Properties *)

Held == UNION {task[w] : w \in {v \in Workers : wpc[v] = "taken"}}

\* When wait_idle returns, every task that was submitted has run, except those
\* a worker has popped and not yet counted in active_tasks_.
IdleMeansRun ==
    [][waiter # "returned" /\ waiter' = "returned" => submitted \ done \subseteq Held]_poolVars

\* A call of wait_idle returns: the notification is never missed, although the
\* counter changes outside of idle_mutex_.
WaitIdleReturns == waiter \in {"evaluate", "block", "blocked"} ~> waiter = "returned"

Joined == \A w \in Workers : wpc[w] = "exited"

\* When the destructor has joined the last worker, everything that was
\* submitted has run: stopping workers empty the queue first.
JoinedMeansRun == [][Joined' /\ ~ Joined => submitted' = done']_poolVars

\* The destructor joins every worker in the end.
DestroyedPoolIsJoined == stopping ~> Joined
=============================================================================
