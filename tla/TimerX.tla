-------------------------------- MODULE TimerX -------------------------------
(***************************************************************************)
(* com.yan.luaide.util.TimerX and TimerTaskX as LuaTimer and LuaTimerTask  *)
(* use them: one timer thread, its queue guarded by the monitor of         *)
(* TimerImpl, tasks each guarded by their own lock, and callers on any     *)
(* thread.  A step is what one thread does while it holds its locks; the   *)
(* run loop is cut where a caller that does not need its monitor can come  *)
(* in between: TimerTaskX.cancel takes task.lock only, setPeriod nothing.  *)
(*                                                                         *)
(* The array heap is abstracted to the set of its tasks and to whether it  *)
(* is known to be in heap order: TimerHeap models the array and shows that *)
(* this abstraction is right.                                              *)
(*                                                                         *)
(* The definitions named Bug... are faulty variants of the ones they stand *)
(* before: they show what each property would find.                        *)
(***************************************************************************)
EXTENDS Integers, FiniteSets

CONSTANTS Tasks,      \* the TimerTaskX objects
          Periods,    \* the periods callers pass to schedule
          NewPeriods, \* the periods callers pass to setPeriod
          Rates,      \* TRUE if callers use scheduleAtFixedRate, FALSE if schedule
          Switches,   \* the values callers pass to setEnabled
          Epoch,      \* the time at which the timer is created
          MaxTime     \* bound on the clock and on the times asked for

ASSUME TimerAssumption ==
    /\ Tasks # {}
    /\ Periods \subseteq Nat \ {0}
    /\ NewPeriods \subseteq Int
    /\ Rates \subseteq BOOLEAN
    /\ Switches \subseteq BOOLEAN
    /\ Epoch \in Nat \ {0}
    /\ MaxTime \in Nat

OneShot == -1

\* A heap of this many tasks stays in heap order whatever is deleted (TimerHeap).
SafeHeapSize == 5

VARIABLES
    cancelled,     \* TimerImpl.cancelled
    finished,      \* TimerImpl.finished
    queue,         \* the tasks in TimerImpl.tasks
    sorted,        \* the heap is known to be in heap order
    taskCancelled, \* TimerTaskX.cancelled
    when,          \* TimerTaskX.when
    period,        \* TimerTaskX.period
    fixedRate,     \* TimerTaskX.fixedRate
    launched,      \* TimerTaskX.scheduledTime > 0
    enabled,       \* LuaTimerTask.mEnabled
    pc,            \* where the timer thread is in TimerImpl.run
    task,          \* the local variable of TimerImpl.run
    now,           \* System.currentTimeMillis()
    lastFire,      \* history: when each task was last fired, 0 if never
    prevented      \* history: the tasks whose cancel() returned true

timer   == <<cancelled, finished, queue, sorted>>
slots   == <<taskCancelled, when, period, fixedRate, launched, enabled>>
thread  == <<pc, task>>
history == <<lastFire, prevented>>
vars    == <<timer, slots, thread, now, history>>

TypeOK == /\ cancelled \in BOOLEAN /\ finished \in BOOLEAN /\ sorted \in BOOLEAN
          /\ queue \subseteq Tasks
          /\ taskCancelled \in [Tasks -> BOOLEAN]
          /\ when \in [Tasks -> Int]
          /\ period \in [Tasks -> Int]
          /\ fixedRate \in [Tasks -> BOOLEAN]
          /\ launched \in [Tasks -> BOOLEAN]
          /\ enabled \in [Tasks -> BOOLEAN]
          /\ pc \in {"loop", "waiting", "sleeping", "fire", "again", "run", "body",
                     "thrown", "dead"}
          /\ task \in Tasks
          /\ now \in Nat \ {0}
          /\ lastFire \in [Tasks -> Nat]
          /\ prevented \subseteq Tasks

Init == /\ cancelled = FALSE /\ finished = FALSE
        /\ queue = {} /\ sorted = TRUE
        /\ taskCancelled = [t \in Tasks |-> FALSE]
        /\ when = [t \in Tasks |-> 0]
        /\ period = [t \in Tasks |-> 0]
        /\ fixedRate = [t \in Tasks |-> FALSE]
        /\ launched = [t \in Tasks |-> FALSE]
        /\ enabled = [t \in Tasks |-> TRUE]
        /\ pc = "loop" /\ task \in Tasks
        /\ now = Epoch
        /\ lastFire = [t \in Tasks |-> 0]
        /\ prevented = {}

\* The timer thread keeps the monitor of TimerImpl from Examine until the task
\* is off the queue or back in it.
MonitorFree == pc \notin {"fire", "again"}

\* task.lock is held from the second test of task.cancelled to the rescheduling.
TaskLockFree(t) == pc = "again" => t # task

\* The notification reaches nobody, or a thread in the timed wait only.
BugWokenNobody  == pc
BugWokenSleeper == IF pc = "sleeping" THEN "loop" ELSE pc

\* this.notify(): only the timer thread ever waits on TimerImpl.
Woken == IF pc \in {"waiting", "sleeping"} THEN "loop" ELSE pc

\* A task that has run may be scheduled again.
BugIsScheduled(t) == when[t] > 0

IsScheduled(t) == when[t] > 0 \/ launched[t]

\* Every repeating task runs at a fixed rate.
BugNextTime(t) == when[t] + period[t]

\* When a repeating task runs next: the period is read again, without a lock that
\* setPeriod takes.
NextTime(t) == (IF fixedRate[t] THEN when[t] ELSE now) + period[t]

\* The task's mark is forgotten.
BugSetScheduledTime(t) == UNCHANGED launched

setScheduledTime(t) == launched' = [launched EXCEPT ![t] = when[t] > 0]

\* Any task that was not cancelled yet.
BugWillRun(t) == ~taskCancelled[t]

\* What TimerTaskX.cancel answers.
WillRun(t) == ~taskCancelled[t] /\ when[t] > 0

\* The second test of task.cancelled is missing.
BugStillWanted(t) == TRUE

StillWanted(t) == ~taskCancelled[t]

\* purge takes every task.
BugPurgeable == queue

Purgeable == {t \in queue : taskCancelled[t]}

\* What TimerHeap.minimum() may return.
Minimum == {t \in queue : sorted => \A u \in queue : when[t] <= when[u]}

\* Deleting from the middle of a large heap may leave it out of order.
StillSorted(rest) == \/ rest = {}
                     \/ sorted /\ (rest = queue \/ Cardinality(queue) <= SafeHeapSize)

-----------------------------------------------------------------------------
(* Callers.                                                                *)

\* scheduleImpl, the calls that do not throw.  A delay gives a time from now on;
\* only scheduleAtFixedRate(task, Date, period) accepts a time already past.  The
\* times asked for are positive (Next), as those of LuaTimer are, which schedules by
\* delays.  scheduleImpl also accepts the Date of time 0: isScheduled() then stays
\* FALSE and the heap may come to hold the task twice, which a set cannot show.
Schedule(t, w, p, rate) ==
    /\ ~finished
    /\ MonitorFree
    /\ ~cancelled
    /\ rate \/ w >= now
    /\ p = OneShot => ~rate
    /\ ~IsScheduled(t)
    /\ ~taskCancelled[t]
    /\ when' = [when EXCEPT ![t] = w]
    /\ period' = [period EXCEPT ![t] = p]
    /\ fixedRate' = [fixedRate EXCEPT ![t] = rate]
    /\ queue' = queue \cup {t}
    /\ pc' = Woken
    /\ UNCHANGED <<cancelled, finished, sorted, taskCancelled, launched, enabled,
                   task, now, history>>

\* TimerX.cancel: the queue is dropped, the tasks are left as they are.
TimerCancel ==
    /\ ~finished
    /\ MonitorFree
    /\ cancelled' = TRUE
    /\ queue' = {} /\ sorted' = TRUE
    /\ pc' = Woken
    /\ UNCHANGED <<finished, slots, task, now, history>>

\* TimerX.purge reads task.cancelled without task.lock, so it may miss a
\* cancellation that another thread has just made.
Purge ==
    /\ ~finished
    /\ MonitorFree
    /\ \E gone \in SUBSET Purgeable :
          /\ queue' = queue \ gone
          /\ sorted' = StillSorted(queue \ gone)
    /\ UNCHANGED <<cancelled, finished, slots, thread, now, history>>

\* TimerTaskX.cancel takes task.lock only.
TaskCancel(t) ==
    /\ TaskLockFree(t)
    /\ prevented' = IF WillRun(t) THEN prevented \cup {t} ELSE prevented
    /\ taskCancelled' = [taskCancelled EXCEPT ![t] = TRUE]
    /\ UNCHANGED <<timer, when, period, fixedRate, launched, enabled, thread, now, lastFire>>

\* TimerTaskX.setPeriod and LuaTimerTask.setEnabled take no lock at all.
SetPeriod(t, p) ==
    /\ period' = [period EXCEPT ![t] = p]
    /\ UNCHANGED <<timer, taskCancelled, when, fixedRate, launched, enabled, thread, now, history>>

SetEnabled(t, b) ==
    /\ enabled' = [enabled EXCEPT ![t] = b]
    /\ UNCHANGED <<timer, taskCancelled, when, period, fixedRate, launched, thread, now, history>>

\* FinalizerHelper.finalize: nobody refers to the TimerX any more.
Finalize ==
    /\ MonitorFree
    /\ finished' = TRUE
    /\ pc' = Woken
    /\ UNCHANGED <<cancelled, queue, sorted, slots, task, now, history>>

Tick == /\ now < MaxTime
        /\ now' = now + 1
        /\ UNCHANGED <<timer, slots, thread, history>>

-----------------------------------------------------------------------------
(* The timer thread.                                                       *)

\* The run loop returns.
Exit == /\ pc = "loop"
        /\ cancelled \/ (queue = {} /\ finished)
        /\ pc' = "dead"
        /\ UNCHANGED <<timer, slots, task, now, history>>

\* The loop does not look at finished before it waits.
BugWaitForTask == /\ pc = "loop"
                  /\ ~cancelled /\ queue = {}
                  /\ pc' = "waiting"
                  /\ UNCHANGED <<timer, slots, task, now, history>>

WaitForTask == /\ pc = "loop"
               /\ ~cancelled /\ queue = {} /\ ~finished
               /\ pc' = "waiting"
               /\ UNCHANGED <<timer, slots, task, now, history>>

\* The first task.lock section and the decision it leads to.
Examine(t) ==
    /\ pc = "loop"
    /\ ~cancelled
    /\ t \in Minimum
    /\ task' = t
    /\ IF taskCancelled[t]
       THEN queue' = queue \ {t} /\ pc' = "loop"
       ELSE queue' = queue /\ pc' = IF when[t] > now THEN "sleeping" ELSE "fire"
    /\ UNCHANGED <<cancelled, finished, sorted, slots, now, history>>

\* wait(timeToSleep) times out.
SleepOver == /\ pc = "sleeping"
             /\ when[task] <= now
             /\ pc' = "loop"
             /\ UNCHANGED <<timer, slots, task, now, history>>

\* wait() may end for no reason, or by an interrupt that the loop ignores.
SpuriousWakeup == /\ pc \in {"waiting", "sleeping"}
                  /\ pc' = "loop"
                  /\ UNCHANGED <<timer, slots, task, now, history>>

\* The second task.lock section: the task may have been cancelled meanwhile.
FireCancelled == /\ pc = "fire"
                 /\ ~StillWanted(task)
                 /\ queue' = queue \ {task}
                 /\ pc' = "loop"
                 /\ UNCHANGED <<cancelled, finished, sorted, slots, task, now, history>>

\* The launch: the task leaves the queue, and a task whose period is negative
\* at this moment leaves it for good.
Fire == /\ pc = "fire"
        /\ StillWanted(task)
        /\ setScheduledTime(task)
        /\ queue' = queue \ {task}
        /\ lastFire' = [lastFire EXCEPT ![task] = now]
        /\ \/ period[task] >= 0 /\ pc' = "again" /\ when' = when
           \/ period[task] < 0 /\ pc' = "run" /\ when' = [when EXCEPT ![task] = 0]
        /\ UNCHANGED <<cancelled, finished, sorted, taskCancelled, period, fixedRate,
                       enabled, task, now, prevented>>

Reschedule == /\ pc = "again"
              /\ when' = [when EXCEPT ![task] = NextTime(task)]
              /\ queue' = queue \cup {task}
              /\ pc' = "run"
              /\ UNCHANGED <<cancelled, finished, sorted, taskCancelled, period, fixedRate,
                             launched, enabled, task, now, history>>

\* Outside the monitor: isEnabled() and then the body.
Launch == /\ pc = "run"
          /\ pc' = IF enabled[task] THEN "body" ELSE "loop"
          /\ UNCHANGED <<timer, slots, task, now, history>>

BodyReturns == /\ pc = "body"
               /\ pc' = "loop"
               /\ UNCHANGED <<timer, slots, task, now, history>>

\* An exception that LuaTimerTask.run does not catch; the queue is kept.
BodyThrows == /\ pc = "body"
              /\ pc' = "thrown"
              /\ UNCHANGED <<timer, slots, task, now, history>>

\* The finally clause is missing.
BugUnwind == /\ pc = "thrown"
             /\ pc' = "dead"
             /\ UNCHANGED <<timer, slots, task, now, history>>

Unwind == /\ pc = "thrown"
          /\ cancelled' = TRUE
          /\ pc' = "dead"
          /\ UNCHANGED <<finished, queue, sorted, slots, task, now, history>>

-----------------------------------------------------------------------------
Caller == \/ \E t \in Tasks, w \in Epoch..MaxTime, rate \in Rates, p \in Periods \cup {OneShot} :
                Schedule(t, w, p, rate)
          \/ \E t \in Tasks : TaskCancel(t)
          \/ \E t \in Tasks, p \in NewPeriods : SetPeriod(t, p)
          \/ \E t \in Tasks, b \in Switches : SetEnabled(t, b)
          \/ TimerCancel
          \/ Purge
          \/ Finalize

TimerThread == \/ Exit \/ WaitForTask \/ SleepOver
               \/ \E t \in Tasks : Examine(t)
               \/ FireCancelled \/ Fire \/ Reschedule \/ Launch
               \/ BodyReturns \/ Unwind

Next == Caller \/ TimerThread \/ BodyThrows \/ SpuriousWakeup \/ Tick

Spec == Init /\ [][Next]_vars

\* The thread is scheduled, a body ends, and time goes on; callers owe nothing.
FairSpec == Spec /\ WF_vars(TimerThread) /\ WF_vars(Tick)

-----------------------------------------------------------------------------
(* Safety.                                                                 *)

\* Until the timer is cancelled, a task that has a time to run and was not
\* cancelled is in the queue (or on its way back into it), and the queue holds only
\* tasks that were scheduled: no interleaving of the run loop with its callers loses
\* a task or brings one back.
NoLostTask == ~cancelled =>
    /\ \A t \in Tasks : when[t] > 0 /\ ~taskCancelled[t] =>
                          t \in queue \/ (pc = "again" /\ t = task)
    /\ \A t \in queue : when[t] > 0 \/ lastFire[t] > 0

\* A timer whose thread has ended refuses new tasks instead of swallowing them.
DeadTimerIsClosed == pc = "dead" => cancelled \/ (finished /\ queue = {})

\* A step that launches t.
Fires(t) == pc = "fire" /\ pc' \in {"again", "run"} /\ t = task

\* The run loop fires a task only if at that moment it is due, not cancelled, and
\* the timer is not cancelled, although it decided to do so in an earlier step.
FiresOnlyDue == [][\A t \in Tasks : Fires(t) =>
                     when[t] <= now /\ ~taskCancelled[t] /\ ~cancelled]_vars

\* A task that has fired and left the queue can never be scheduled again,
\* so a one-shot task fires once.
NeverReused == [][\A t \in Tasks :
                    lastFire[t] > 0 /\ t \notin queue /\ MonitorFree => t \notin queue']_vars

\* "two runs are never fired closer together in time than the specified period"
\* (TimerX.java:34): under fixed-period execution, by the smallest period in use.
\* It needs periods that setPeriod keeps non-negative.
FixedPeriodSpacing ==
    [][\A t \in Tasks : lastFire[t] > 0 /\ Fires(t) /\ ~fixedRate[t] =>
          \E p \in Periods \cup NewPeriods : now >= lastFire[t] + p]_vars

\* While the timer is open, TimerTaskX.cancel answers true exactly when the timer still
\* had the task in its queue: neither a run that it prevents goes unreported nor does
\* it claim to have prevented one that had been given up (TimerTaskX.java:100).  Of a
\* timer that was cancelled, or that a body has thrown out of, nothing is claimed:
\* cancel() then answers true for every task left with a time to run.
CancelAnswers == [][\A t \in Tasks : ~cancelled /\ taskCancelled'[t] # taskCancelled[t] =>
                      (t \in prevented' <=> t \in queue)]_vars

-----------------------------------------------------------------------------
(* Liveness.                                                               *)

\* A task in the queue does not stay there past its time: it fires, or is dropped.
DueTaskLeaves == \A t \in Tasks, k \in Epoch..MaxTime :
                    (t \in queue /\ when[t] = k) ~> (t \notin queue \/ when[t] # k \/ cancelled)

\* TimerX.cancel "releases the timer's thread" (TimerX.java:44).
CancelEndsThread == cancelled ~> (pc = "dead")

\* A timer that was dropped and has nothing left to run ends its thread.
FinishedEndsThread == (finished /\ queue = {} /\ MonitorFree) ~> (pc = "dead")

-----------------------------------------------------------------------------
(* Refinement.                                                             *)

Life(t) == IF taskCancelled[t] THEN "withdrawn"
           ELSE IF when[t] > 0 THEN "scheduled"
           ELSE IF launched[t] THEN "over" ELSE "new"

Abstract == INSTANCE TimerSpec WITH
               open  <- ~cancelled,
               life  <- [t \in Tasks |-> Life(t)],
               due   <- when,
               clock <- now

\* TimerX does what TimerSpec promises.
ImplementsTimerSpec == Abstract!Spec
=============================================================================
