---------------------------- MODULE SerialExecutor ---------------------------
(***************************************************************************)
(* AsyncTaskX.SerialExecutor: it hands the tasks it is given to            *)
(* THREAD_POOL_EXECUTOR, each when the one before it has returned.  The    *)
(* pool is shared with tasks that do not come through this executor, and   *)
(* throws when its threads are all there and its queue is full.  The pool  *)
(* belongs to the platform; it is modelled as this code relies on it.      *)
(*                                                                         *)
(* The definitions named Bug... are faulty variants of the ones they stand *)
(* before: they show what each property would find.                        *)
(***************************************************************************)
EXTENDS Naturals, Sequences, SequencesExt, FiniteSets

CONSTANTS Tasks,     \* the Runnables wrapped by execute, each one new
          NoTask,    \* null
          PoolSize,  \* MAXIMUM_POOL_SIZE, the same as CORE_POOL_SIZE
          QueueSize, \* the capacity of sPoolWorkQueue
          MaxOthers  \* bound on the other work in the pool at one time

ASSUME SerialAssumption == /\ NoTask \notin Tasks
                           /\ PoolSize \in Nat \ {0}
                           /\ QueueSize \in Nat
                           /\ MaxOthers \in Nat

VARIABLES
    mTasks,     \* the tasks that wait for their turn
    mActive,    \* the task that was scheduled last
    where,      \* where each task is
    workers,    \* the threads of the pool
    idle,       \* those of them that have no work
    othersWait, \* other work in the queue of the pool
    othersRun,  \* other work on a thread of the pool
    submitted,  \* history: the tasks in the order of execute
    started     \* history: the tasks in the order in which they were run

executor == <<mTasks, mActive, where>>
pool     == <<workers, idle, othersWait, othersRun>>
history  == <<submitted, started>>
vars     == <<executor, pool, history>>

\* Scheduled, and not back in scheduleNext yet.
InPool == {"handed", "queued", "running", "finishing"}

TypeOK == /\ mTasks \in Seq(Tasks)
          /\ mActive \in Tasks \cup {NoTask}
          /\ where \in [Tasks -> InPool \cup {"none", "waiting", "rejected", "ended"}]
          /\ workers \in 0..PoolSize /\ idle \in Nat
          /\ othersWait \in Nat /\ othersRun \in Nat
          /\ submitted \in Seq(Tasks)
          /\ started \in Seq(Tasks)

Init == /\ mTasks = <<>> /\ mActive = NoTask
        /\ where = [t \in Tasks |-> "none"]
        /\ workers = 0 /\ idle = 0
        /\ othersWait = 0 /\ othersRun = 0
        /\ submitted = <<>> /\ started = <<>>

Queued == {t \in Tasks : where[t] = "queued"}

Full == workers = PoolSize /\ Cardinality(Queued) + othersWait >= QueueSize

(***************************************************************************)
(* THREAD_POOL_EXECUTOR.execute: a new thread for the task, a place in the *)
(* queue, or a RejectedExecutionException.                                 *)
(***************************************************************************)
PoolTakes(t, w) == \/ /\ workers < PoolSize
                      /\ workers' = workers + 1
                      /\ where' = [w EXCEPT ![t] = "handed"]
                   \/ /\ workers = PoolSize /\ ~Full
                      /\ UNCHANGED workers
                      /\ where' = [w EXCEPT ![t] = "queued"]
                   \/ /\ Full
                      /\ UNCHANGED workers
                      /\ where' = [w EXCEPT ![t] = "rejected"]

\* The newest task first: the wrong end of the deque.
BugScheduleNext(q, w) ==
    \/ /\ q = <<>>
       /\ mActive' = NoTask /\ mTasks' = q
       /\ where' = w /\ UNCHANGED workers
    \/ /\ q # <<>>
       /\ mActive' = Last(q) /\ mTasks' = Front(q)
       /\ PoolTakes(Last(q), w)

\* scheduleNext, with the tasks in the deque and where the tasks are by now.
\* A pool that throws leaves mActive set: no later task will be scheduled.
scheduleNext(q, w) ==
    \/ /\ q = <<>>
       /\ mActive' = NoTask /\ mTasks' = q
       /\ where' = w /\ UNCHANGED workers
    \/ /\ q # <<>>
       /\ mActive' = Head(q) /\ mTasks' = Tail(q)
       /\ PoolTakes(Head(q), w)

\* Schedules whatever the active task is doing.
BugExecute(t) ==
    /\ where[t] = "none"
    /\ submitted' = Append(submitted, t)
    /\ scheduleNext(Append(mTasks, t), [where EXCEPT ![t] = "waiting"])
    /\ UNCHANGED <<idle, othersWait, othersRun, started>>

\* execute is synchronized, so one step.
execute(t) ==
    /\ where[t] = "none"
    /\ submitted' = Append(submitted, t)
    /\ LET q == Append(mTasks, t)
           w == [where EXCEPT ![t] = "waiting"]
       IN  \/ /\ mActive = NoTask
              /\ scheduleNext(q, w)
           \/ /\ mActive # NoTask
              /\ mTasks' = q /\ where' = w
              /\ UNCHANGED <<mActive, workers>>
    /\ UNCHANGED <<idle, othersWait, othersRun, started>>

\* The thread made for the task begins to run it.
Begin(t) == /\ where[t] = "handed"
            /\ where' = [where EXCEPT ![t] = "running"]
            /\ started' = Append(started, t)
            /\ UNCHANGED <<mTasks, mActive, pool, submitted>>

\* An idle thread takes the task from the queue of the pool.
Fetch(t) == /\ where[t] = "queued" /\ idle > 0
            /\ where' = [where EXCEPT ![t] = "running"]
            /\ idle' = idle - 1
            /\ started' = Append(started, t)
            /\ UNCHANGED <<mTasks, mActive, workers, othersWait, othersRun, submitted>>

\* r.run() returns or throws; the finally block comes next in either case.
RunEnds(t) == /\ where[t] = "running"
              /\ where' = [where EXCEPT ![t] = "finishing"]
              /\ UNCHANGED <<mTasks, mActive, pool, history>>

\* A wrapper without the finally: after a task that throws there is no next.
BugFinally(t) == /\ where[t] = "finishing"
                 /\ \/ scheduleNext(mTasks, [where EXCEPT ![t] = "ended"])
                    \/ /\ where' = [where EXCEPT ![t] = "ended"]
                       /\ UNCHANGED <<mTasks, mActive, workers>>
                 /\ idle' = idle + 1
                 /\ UNCHANGED <<othersWait, othersRun, history>>

\* The finally block, on the thread of the task, which is idle after it; the pool
\* replaces a thread that died of what the task has thrown.
Finally(t) == /\ where[t] = "finishing"
              /\ scheduleNext(mTasks, [where EXCEPT ![t] = "ended"])
              /\ idle' = idle + 1
              /\ UNCHANGED <<othersWait, othersRun, history>>

(***************************************************************************)
(* The rest of the pool.                                                   *)
(***************************************************************************)
SubmitOther == /\ othersWait + othersRun < MaxOthers
               /\ ~Full
               /\ \/ /\ workers < PoolSize
                     /\ workers' = workers + 1 /\ othersRun' = othersRun + 1
                     /\ UNCHANGED othersWait
                  \/ /\ workers = PoolSize
                     /\ othersWait' = othersWait + 1
                     /\ UNCHANGED <<workers, othersRun>>
               /\ UNCHANGED <<executor, idle, history>>

FetchOther == /\ othersWait > 0 /\ idle > 0
              /\ othersWait' = othersWait - 1 /\ othersRun' = othersRun + 1
              /\ idle' = idle - 1
              /\ UNCHANGED <<executor, workers, history>>

OtherEnds == /\ othersRun > 0
             /\ othersRun' = othersRun - 1
             /\ idle' = idle + 1
             /\ UNCHANGED <<executor, workers, othersWait, history>>

\* allowCoreThreadTimeOut: an idle thread ends when there is nothing to do.
TimeOut == /\ workers > 0 /\ idle > 0
           /\ Queued = {} /\ othersWait = 0
           /\ idle' = idle - 1 /\ workers' = workers - 1
           /\ UNCHANGED <<executor, othersWait, othersRun, history>>

Next == \/ \E t \in Tasks : execute(t) \/ Begin(t) \/ Fetch(t) \/ RunEnds(t) \/ Finally(t)
        \/ SubmitOther \/ FetchOther \/ OtherEnds \/ TimeOut

Spec == Init /\ [][Next]_vars

\* Work that runs ends, and the queue of the pool is first in, first out: a task
\* in it is passed over only finitely often.
FairSpec == /\ Spec
            /\ \A t \in Tasks : /\ WF_vars(Begin(t) \/ RunEnds(t) \/ Finally(t))
                                /\ SF_vars(Fetch(t))
            /\ WF_vars(OtherEnds)

(***************************************************************************)
(* Properties.                                                             *)
(***************************************************************************)

\* What still has to be run: the active task while it has not begun (on its way
\* or rejected for good), and then the tasks in the deque.
Backlog == IF mActive # NoTask /\ where[mActive] \in {"handed", "queued", "rejected"}
             THEN Cons(mActive, mTasks) ELSE mTasks

\* No task is forgotten or runs twice: what was submitted is what was started
\* and what still has to be run, in this order.
NothingForgotten == submitted = started \o Backlog

\* No wake-up is lost between execute and scheduleNext: as long as tasks wait
\* there is an active one, whose end will schedule the next, or the pool has
\* rejected it.
SomebodyActive ==
    mTasks # <<>> => mActive # NoTask /\ where[mActive] \in InPool \cup {"rejected"}

\* The tasks whose r.run() is in progress.
Running == {t \in Tasks : where[t] = "running"}

\* "Executes tasks one at a time in serial order": never two at once, never one
\* out of its turn.  Every task that runs counts as in hand, not only the active one.
M == INSTANCE Mailbox WITH
       Messages <- Tasks, accepted <- submitted, taken <- started, closed <- FALSE,
       done <- Len(started) - Cardinality(Running)
ImplementsMailbox == M!Spec

\* A task that was submitted is run, unless the pool rejects it or one before
\* it: after that the executor is stuck, and every later task waits for ever.
SubmittedRuns == \A t \in Tasks :
    where[t] # "none" ~> (t \in Range(started) \/ \E u \in Tasks : where[u] = "rejected")
=============================================================================
