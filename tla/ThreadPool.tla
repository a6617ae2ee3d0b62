------------------------------ MODULE ThreadPool ------------------------------
(***************************************************************************)
(* avs::core::ThreadPool (libs/avs-core/src/ThreadPool.cpp): the pool that *)
(* Pipeline::render hands one task per multi-threaded effect.              *)
(*                                                                         *)
(* Every critical section of mutex_ is one action.  A thread waiting on a  *)
(* condition variable is "blocked"; a notification, or a spurious wakeup,  *)
(* sends it back to re-evaluate its predicate under the mutex.  One thread *)
(* owns the pool: it constructs it, calls execute and destroys it.         *)
(***************************************************************************)
EXTENDS Integers, FiniteSets

CONSTANTS
  Workers,       \* the threads a pool may be given
  MaxCalls,      \* bound: calls of execute in a behaviour
  CounterRange   \* the values of the int completedWorkers_ (2^32 in C++)

ASSUME PoolAssumption ==
  /\ IsFiniteSet(Workers)
  /\ MaxCalls \in Nat
  /\ CounterRange \in Nat
  /\ CounterRange > Cardinality(Workers) + 1

VARIABLES
  threads,       \* threads_: fixed by the constructor
  pc,            \* where each worker is in workerLoop
  held,          \* the call whose task a worker holds a copy of, 0 for none
  task,          \* currentTask_, named by the call that stored it, 0 for none
  hasTask,       \* hasTask_
  shutdown,      \* shutdown_
  completed,     \* completedWorkers_
  owner,         \* where the owner is in execute or ~ThreadPool
  calls,         \* history: calls of execute begun
  runs           \* history: how often each worker ran the current call's task

vars == <<threads, pc, held, task, hasTask, shutdown, completed, owner, calls, runs>>
workerVars == <<pc, held, runs>>

N == Cardinality(threads)

\* The owner is inside a multi-threaded execute.
InCall == owner \in {"notify", "wait", "blocked"}

\* history only: a second run is as wrong as a third
Twice == 2

-------------------------------------------------------------------------------
(* The constructor makes no thread at all for a count of 0 or 1. *)
Construct ==
  threads \in {S \in SUBSET Workers : Cardinality(S) # 1}

Init ==
  /\ Construct
  /\ pc        = [w \in Workers |-> IF w \in threads THEN "lock" ELSE "exited"]
  /\ held      = [w \in Workers |-> 0]
  /\ task      = 0
  /\ hasTask   = FALSE
  /\ shutdown  = FALSE
  /\ completed = 0
  /\ owner     = "idle"
  /\ calls     = 0
  /\ runs      = [w \in Workers |-> 0]

-------------------------------------------------------------------------------
(* workerLoop *)

\* taskReady_.wait: the predicate is false, so the worker gives up the mutex.
AwaitTask(w) ==
  /\ pc[w] = "lock"
  /\ ~hasTask
  /\ pc' = [pc EXCEPT ![w] = "blocked"]
  /\ UNCHANGED <<threads, held, task, hasTask, shutdown, completed, owner, calls, runs>>

SpuriousWakeup(w) ==
  /\ pc[w] = "blocked"
  /\ pc' = [pc EXCEPT ![w] = "lock"]
  /\ UNCHANGED <<threads, held, task, hasTask, shutdown, completed, owner, calls, runs>>

TakeTask(w) ==
  /\ pc[w] = "lock"
  /\ hasTask
  /\ ~shutdown
  /\ pc'   = [pc EXCEPT ![w] = "run"]
  /\ held' = [held EXCEPT ![w] = task]
  /\ UNCHANGED <<threads, task, hasTask, shutdown, completed, owner, calls, runs>>

Exit(w) ==
  /\ pc[w] = "lock"
  /\ hasTask
  /\ shutdown
  /\ pc' = [pc EXCEPT ![w] = "exited"]
  /\ UNCHANGED <<threads, held, task, hasTask, shutdown, completed, owner, calls, runs>>

\* task(threadId, threads_.size()) returns.
RunTask(w) ==
  /\ pc[w] = "run"
  /\ pc'   = [pc EXCEPT ![w] = "signal"]
  /\ runs' = IF held[w] = calls /\ runs[w] < Twice
               THEN [runs EXCEPT ![w] = @ + 1]
               ELSE runs
  /\ UNCHANGED <<threads, held, task, hasTask, shutdown, completed, owner, calls>>

\* mutant: the last worker does not notify
SignalDoneWithoutNotify(w) ==
  /\ pc[w] = "signal"
  /\ completed' = (completed + 1) % CounterRange
  /\ pc'    = [pc EXCEPT ![w] = "lock"]
  /\ held'  = [held EXCEPT ![w] = 0]
  /\ UNCHANGED <<threads, task, hasTask, shutdown, owner, calls, runs>>

\* completedWorkers_++, taskComplete_.notify_one() on reaching the thread
\* count, and the copy of the task goes out of scope.
SignalDone(w) ==
  /\ pc[w] = "signal"
  /\ completed' = (completed + 1) % CounterRange
  /\ owner' = IF completed' = N /\ owner = "blocked" THEN "wait" ELSE owner
  /\ pc'    = [pc EXCEPT ![w] = "lock"]
  /\ held'  = [held EXCEPT ![w] = 0]
  /\ UNCHANGED <<threads, task, hasTask, shutdown, calls, runs>>

WorkerStep(w) ==
  AwaitTask(w) \/ TakeTask(w) \/ Exit(w) \/ RunTask(w) \/ SignalDone(w)

-------------------------------------------------------------------------------
(* execute *)

\* threads_.empty(): the caller runs the task itself, as thread 0 of 1.
ExecuteInline ==
  /\ owner = "idle"
  /\ threads = {}
  /\ calls < MaxCalls
  /\ calls' = calls + 1
  /\ UNCHANGED <<threads, pc, held, task, hasTask, shutdown, completed, owner, runs>>

StoreTask ==
  /\ owner = "idle"
  /\ threads # {}
  /\ calls < MaxCalls
  /\ calls'     = calls + 1
  /\ task'      = calls + 1
  /\ hasTask'   = TRUE
  /\ completed' = 0
  /\ owner'     = "notify"
  /\ runs'      = [w \in Workers |-> 0]
  /\ UNCHANGED <<threads, pc, held, shutdown>>

\* mutant: notify_one instead of notify_all
WakeOne ==
  LET asleep == {w \in Workers : pc[w] = "blocked"}
  IN  IF asleep = {} THEN pc' = pc
      ELSE \E w \in asleep : pc' = [pc EXCEPT ![w] = "lock"]

WakeWorkers == pc' = [w \in Workers |-> IF pc[w] = "blocked" THEN "lock" ELSE pc[w]]

\* mutant: nobody is notified
NotifyNobody ==
  /\ owner = "notify"
  /\ owner' = "wait"
  /\ UNCHANGED <<threads, pc, held, task, hasTask, shutdown, completed, calls, runs>>

NotifyWorkers ==
  /\ owner = "notify"
  /\ WakeWorkers
  /\ owner' = "wait"
  /\ UNCHANGED <<threads, held, task, hasTask, shutdown, completed, calls, runs>>

AwaitCompletion ==
  /\ owner = "wait"
  /\ completed # N
  /\ owner' = "blocked"
  /\ UNCHANGED <<threads, task, hasTask, shutdown, completed, calls, workerVars>>

SpuriousOwnerWakeup ==
  /\ owner = "blocked"
  /\ owner' = "wait"
  /\ UNCHANGED <<threads, task, hasTask, shutdown, completed, calls, workerVars>>

\* mutant: hasTask_ is not reset
ReturnKeepingTask ==
  /\ owner = "wait"
  /\ completed = N
  /\ owner' = "idle"
  /\ UNCHANGED <<threads, task, hasTask, shutdown, completed, calls, workerVars>>

Return ==
  /\ owner = "wait"
  /\ completed = N
  /\ hasTask' = FALSE
  /\ owner'   = "idle"
  /\ UNCHANGED <<threads, task, shutdown, completed, calls, workerVars>>

-------------------------------------------------------------------------------
(* ~ThreadPool *)

\* mutant: hasTask_ is not set, so the predicate of sleeping workers stays false
DestroyWithoutTask ==
  /\ owner = "idle"
  /\ shutdown' = TRUE
  /\ owner'    = "release"
  /\ UNCHANGED <<threads, task, hasTask, completed, calls, workerVars>>

Destroy ==
  /\ owner = "idle"
  /\ shutdown' = TRUE
  /\ hasTask'  = TRUE
  /\ owner'    = "release"
  /\ UNCHANGED <<threads, task, completed, calls, workerVars>>

NotifyShutdown ==
  /\ owner = "release"
  /\ WakeWorkers
  /\ owner' = "join"
  /\ UNCHANGED <<threads, held, task, hasTask, shutdown, completed, calls, runs>>

\* mutant: threads are detached instead of joined
JoinWithoutWaiting ==
  /\ owner = "join"
  /\ owner' = "destroyed"
  /\ UNCHANGED <<threads, task, hasTask, shutdown, completed, calls, workerVars>>

Join ==
  /\ owner = "join"
  /\ \A w \in threads : pc[w] = "exited"
  /\ owner' = "destroyed"
  /\ UNCHANGED <<threads, task, hasTask, shutdown, completed, calls, workerVars>>

\* Nothing happens once the pool is gone.
Destroyed ==
  /\ owner = "destroyed"
  /\ UNCHANGED vars

OwnerStep ==
  \/ NotifyWorkers \/ AwaitCompletion \/ Return
  \/ NotifyShutdown \/ Join

Next ==
  \/ \E w \in Workers : WorkerStep(w) \/ SpuriousWakeup(w)
  \/ ExecuteInline \/ StoreTask \/ SpuriousOwnerWakeup \/ Destroy
  \/ OwnerStep
  \/ Destroyed

\* Tasks terminate and the scheduler lets every runnable thread go on; nothing
\* obliges the owner to call execute again or to destroy the pool.
Fairness ==
  /\ \A w \in Workers : WF_vars(WorkerStep(w))
  /\ WF_vars(OwnerStep)

Spec == Init /\ [][Next]_vars
FairSpec == Spec /\ Fairness

-------------------------------------------------------------------------------
TypeOK ==
  /\ threads \subseteq Workers
  /\ pc \in [Workers -> {"lock", "blocked", "run", "signal", "exited"}]
  /\ held \in [Workers -> 0..MaxCalls]
  /\ task \in 0..MaxCalls
  /\ hasTask \in BOOLEAN
  /\ shutdown \in BOOLEAN
  /\ completed \in 0..(CounterRange - 1)
  /\ owner \in {"idle", "notify", "wait", "blocked", "release", "join", "destroyed"}
  /\ calls \in 0..MaxCalls
  /\ runs \in [Workers -> 0..Twice]

\* A worker sleeps while there is a task (or a shutdown) for it only if the
\* owner is still to send the notification: hasTask_ is set under the mutex
\* that the predicate is evaluated under, so no wakeup is lost.
NoLostWakeup ==
  \A w \in threads : pc[w] = "blocked" /\ hasTask => owner \in {"notify", "release"}

\* The caller of execute never sleeps on a predicate that is already true:
\* the worker that makes it true is the one that notifies it.
CallerNotStranded == owner = "blocked" => completed # N

\* A worker that finds a task finds the one of the execute call in progress:
\* none is started between two calls, or during the destructor, even though
\* hasTask_ and currentTask_ outlive the work they announce.
StartsInsideCall ==
  [][\A w \in Workers :
       pc[w] = "lock" /\ pc'[w] = "run" => InCall /\ held'[w] = calls]_vars

\* Once the destructor has returned no thread of the pool is alive and none
\* holds a copy of a task, however many stale copies were running at its start.
NothingOutlivesPool ==
  owner = "destroyed" => \A w \in threads : pc[w] = "exited" /\ held[w] = 0

\* The destructor returns: the hasTask_ = true it sets "to wake up threads"
\* releases the sleeping workers and the busy ones find shutdown_ set.
DestructorReturns == (owner = "release") ~> (owner = "destroyed")

\* The counter of finished workers reaches the thread count after every
\* notification: no call is left without the workers to complete it.
WorkGetsDone == (owner = "notify") ~> (completed = N)

-------------------------------------------------------------------------------
(* What the documentation of execute promises, and the code does not keep. *)

\* "The task function will be called once per thread" (ThreadPool.hpp:35).
OncePerThread == \A w \in threads : runs[w] <= 1

\* "This method blocks until all threads have completed the task"
\* (ThreadPool.hpp:38), and no longer: a call whose threads complete returns.
CallReturns == InCall ~> (owner = "idle")

===============================================================================
