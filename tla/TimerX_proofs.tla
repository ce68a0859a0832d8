---------------------------- MODULE TimerX_proofs ----------------------------
(***************************************************************************)
(* Proofs about TimerX for every set of tasks, every period and every      *)
(* bound.  The first part holds whatever setPeriod is given; the second    *)
(* needs setPeriod to keep periods non-negative, which is what the         *)
(* documentation of the schedule methods asks of a period.                 *)
(***************************************************************************)
EXTENDS TimerX, TLAPS

\* Between Examine and Rescheduling the thread holds the monitor, so nobody can
\* cancel the timer or take the chosen task away from it.
Chosen == /\ pc \in {"fire", "again"} => ~cancelled /\ when[task] <= now
          /\ pc = "fire" => task \in queue
          /\ pc = "again" => ~taskCancelled[task] /\ lastFire[task] > 0

IInv == TypeOK /\ NoLostTask /\ DeadTimerIsClosed /\ Chosen

LEMMA InitIInv == Init => IInv
<1> SUFFICES ASSUME Init PROVE IInv
  OBVIOUS
<1>1. TypeOK
  <2>1. now \in Nat \ {0}
    BY TimerAssumption DEF Init
  <2>2. /\ cancelled \in BOOLEAN /\ finished \in BOOLEAN /\ sorted \in BOOLEAN
        /\ pc = "loop" /\ task \in Tasks
        /\ queue \subseteq Tasks /\ prevented \subseteq Tasks
    BY DEF Init
  <2>3. /\ when \in [Tasks -> Int] /\ period \in [Tasks -> Int]
        /\ lastFire \in [Tasks -> Nat]
    BY DEF Init
  <2>4. /\ taskCancelled \in [Tasks -> BOOLEAN] /\ fixedRate \in [Tasks -> BOOLEAN]
        /\ launched \in [Tasks -> BOOLEAN] /\ enabled \in [Tasks -> BOOLEAN]
    BY DEF Init
  <2> QED BY <2>1, <2>2, <2>3, <2>4 DEF TypeOK
<1>2. pc = "loop" /\ queue = {} /\ \A t \in Tasks : when[t] = 0
  BY DEF Init
<1>3. NoLostTask
  BY <1>2 DEF NoLostTask
<1>4. DeadTimerIsClosed /\ Chosen
  BY <1>2 DEF DeadTimerIsClosed, Chosen
<1> QED BY <1>1, <1>3, <1>4 DEF IInv

\* Each action of TimerX keeps the type invariant.
LEMMA TypeStep == TypeOK /\ [Next]_vars => TypeOK'
<1> SUFFICES ASSUME TypeOK, [Next]_vars PROVE TypeOK'
  OBVIOUS
<1> USE TimerAssumption DEF TypeOK, timer, slots, thread, history, OneShot, Woken
<1>1. ASSUME NEW t \in Tasks, NEW w \in Epoch..MaxTime, NEW rate \in Rates,
             NEW p \in Periods \cup {OneShot}, Schedule(t, w, p, rate)
      PROVE TypeOK'
  <2>1. w \in Int /\ p \in Int /\ rate \in BOOLEAN
    OBVIOUS
  <2> QED BY <1>1, <2>1 DEF Schedule
<1>2. ASSUME NEW t \in Tasks, TaskCancel(t) PROVE TypeOK'
  BY <1>2 DEF TaskCancel, WillRun
<1>3. ASSUME NEW t \in Tasks, NEW p \in NewPeriods, SetPeriod(t, p) PROVE TypeOK'
  BY <1>3 DEF SetPeriod
<1>4. ASSUME NEW t \in Tasks, NEW b \in Switches, SetEnabled(t, b) PROVE TypeOK'
  BY <1>4 DEF SetEnabled
<1>5. CASE TimerCancel BY <1>5 DEF TimerCancel
<1>6. CASE Purge BY <1>6 DEF Purge, Purgeable, StillSorted
<1>7. CASE Finalize BY <1>7 DEF Finalize
<1>8. CASE Exit BY <1>8 DEF Exit
<1>9. CASE WaitForTask BY <1>9 DEF WaitForTask
<1>10. CASE SleepOver BY <1>10 DEF SleepOver
<1>11. ASSUME NEW t \in Tasks, Examine(t) PROVE TypeOK'
  BY <1>11 DEF Examine
<1>12. CASE FireCancelled BY <1>12 DEF FireCancelled, StillWanted
<1>13. CASE Fire BY <1>13 DEF Fire, StillWanted, setScheduledTime
<1>14. CASE Reschedule BY <1>14 DEF Reschedule, NextTime
<1>15. CASE Launch BY <1>15 DEF Launch
<1>16. CASE BodyReturns BY <1>16 DEF BodyReturns
<1>17. CASE BodyThrows BY <1>17 DEF BodyThrows
<1>18. CASE Unwind BY <1>18 DEF Unwind
<1>19. CASE SpuriousWakeup BY <1>19 DEF SpuriousWakeup
<1>20. CASE Tick BY <1>20 DEF Tick
<1>21. CASE UNCHANGED vars BY <1>21 DEF vars
<1> QED
  BY <1>1, <1>2, <1>3, <1>4, <1>5, <1>6, <1>7, <1>8, <1>9, <1>10, <1>11, <1>12, <1>13,
     <1>14, <1>15, <1>16, <1>17, <1>18, <1>19, <1>20, <1>21
     DEF Next, Caller, TimerThread

(***************************************************************************)
(* The timer's queue and its thread.                                       *)
(***************************************************************************)

LEMMA IInvStep == IInv /\ [Next]_vars => IInv'
<1> SUFFICES ASSUME IInv, [Next]_vars PROVE IInv'
  OBVIOUS
<1>0. TypeOK /\ TypeOK'
  BY TypeStep DEF IInv
<1> SUFFICES NoLostTask' /\ DeadTimerIsClosed' /\ Chosen'
  BY <1>0 DEF IInv
<1> USE <1>0 DEF IInv, TypeOK, NoLostTask, DeadTimerIsClosed, Chosen, timer, slots, thread,
                 history, OneShot, Woken, MonitorFree
<1>1. ASSUME NEW t \in Tasks, NEW w \in Epoch..MaxTime, NEW rate \in Rates,
             NEW p \in Periods \cup {OneShot}, Schedule(t, w, p, rate)
      PROVE NoLostTask' /\ DeadTimerIsClosed' /\ Chosen'
  <2>1. w \in Int /\ w > 0
    BY TimerAssumption
  <2>2. NoLostTask'
    BY <1>1, <2>1 DEF Schedule
  <2>3. DeadTimerIsClosed'
    BY <1>1 DEF Schedule
  <2>4. Chosen'
    BY <1>1 DEF Schedule
  <2> QED BY <2>2, <2>3, <2>4
<1>2. ASSUME NEW t \in Tasks, TaskCancel(t)
      PROVE NoLostTask' /\ DeadTimerIsClosed' /\ Chosen'
  BY <1>2 DEF TaskCancel, WillRun, TaskLockFree
<1>3. ASSUME NEW t \in Tasks, NEW p \in NewPeriods, SetPeriod(t, p)
      PROVE NoLostTask' /\ DeadTimerIsClosed' /\ Chosen'
  BY <1>3 DEF SetPeriod
<1>4. ASSUME NEW t \in Tasks, NEW b \in Switches, SetEnabled(t, b)
      PROVE NoLostTask' /\ DeadTimerIsClosed' /\ Chosen'
  BY <1>4 DEF SetEnabled
<1>5. CASE TimerCancel BY <1>5 DEF TimerCancel
<1>6. CASE Purge BY <1>6 DEF Purge, Purgeable, StillSorted
<1>7. CASE Finalize BY <1>7 DEF Finalize
<1>8. CASE Exit BY <1>8 DEF Exit
<1>9. CASE WaitForTask BY <1>9 DEF WaitForTask
<1>10. CASE SleepOver BY <1>10 DEF SleepOver
<1>11. ASSUME NEW t \in Tasks, Examine(t)
       PROVE NoLostTask' /\ DeadTimerIsClosed' /\ Chosen'
  <2>1. t \in queue
    BY <1>11 DEF Examine, Minimum
  <2> QED BY <1>11, <2>1 DEF Examine
<1>12. CASE FireCancelled BY <1>12 DEF FireCancelled, StillWanted
<1>13. CASE Fire BY <1>13 DEF Fire, StillWanted, setScheduledTime
<1>14. CASE Reschedule
  <2>1. pc' = "run" /\ queue' = queue \cup {task}
    BY <1>14 DEF Reschedule, NextTime
  <2>2. \A t \in Tasks : t # task => when'[t] = when[t]
    BY <1>14 DEF Reschedule, NextTime
  <2>3. ASSUME NEW t \in queue' PROVE when'[t] > 0 \/ lastFire'[t] > 0
    BY <1>14, <2>1, <2>2, <2>3 DEF Reschedule, NextTime
  <2> QED BY <1>14, <2>1, <2>2, <2>3 DEF Reschedule, NextTime
<1>15. CASE Launch BY <1>15 DEF Launch
<1>16. CASE BodyReturns BY <1>16 DEF BodyReturns
<1>17. CASE BodyThrows BY <1>17 DEF BodyThrows
<1>18. CASE Unwind BY <1>18 DEF Unwind
<1>19. CASE SpuriousWakeup BY <1>19 DEF SpuriousWakeup
<1>20. CASE Tick BY <1>20 DEF Tick
<1>21. CASE UNCHANGED vars BY <1>21 DEF vars
<1> QED
  BY <1>1, <1>2, <1>3, <1>4, <1>5, <1>6, <1>7, <1>8, <1>9, <1>10, <1>11, <1>12, <1>13,
     <1>14, <1>15, <1>16, <1>17, <1>18, <1>19, <1>20, <1>21
     DEF Next, Caller, TimerThread

LEMMA Inductive == Spec => []IInv
  BY InitIInv, IInvStep, PTL DEF Spec

\* Every variable of TimerX keeps its type.
THEOREM TypeCorrect == Spec => []TypeOK
<1>1. IInv => TypeOK
  BY DEF IInv
<1> QED BY <1>1, Inductive, PTL

\* No interleaving of the run loop, schedule, cancel, purge and setPeriod loses
\* a live task or brings an unscheduled one into the queue.
THEOREM NoTaskIsLost == Spec => []NoLostTask
<1>1. IInv => NoLostTask
  BY DEF IInv
<1> QED BY <1>1, Inductive, PTL

\* When the timer thread has ended, schedule throws or cannot be called any more.
THEOREM DeadIsClosed == Spec => []DeadTimerIsClosed
<1>1. IInv => DeadTimerIsClosed
  BY DEF IInv
<1> QED BY <1>1, Inductive, PTL

\* The decision to fire, made in Examine, still holds when the task is fired.
THEOREM FireIsDue == Spec => FiresOnlyDue
<1>1. IInv /\ [Next]_vars => [\A t \in Tasks : Fires(t) =>
                                when[t] <= now /\ ~taskCancelled[t] /\ ~cancelled]_vars
  <2> SUFFICES ASSUME IInv, Next, NEW t \in Tasks, Fires(t)
               PROVE when[t] <= now /\ ~taskCancelled[t] /\ ~cancelled
    OBVIOUS
  <2>1. Fire
    BY DEF Fires, Next, Caller, TimerThread, Schedule, MonitorFree, TaskCancel, SetPeriod,
           SetEnabled, TimerCancel, Purge, Finalize, Exit, WaitForTask, SleepOver, Examine,
           FireCancelled, Reschedule, Launch, BodyReturns, BodyThrows, Unwind, SpuriousWakeup,
           Tick, thread
  <2> QED BY <2>1 DEF Fires, Fire, StillWanted, IInv, TypeOK, Chosen
<1> QED BY <1>1, Inductive, PTL DEF Spec, FiresOnlyDue

-----------------------------------------------------------------------------
(***************************************************************************)
(* With periods that setPeriod keeps non-negative.                         *)
(***************************************************************************)

AllPeriods == Periods \cup NewPeriods

\* Times stay positive while a task is scheduled, a task that has fired is marked
\* as launched, a fixed-period task is due a period after it last fired, and only a
\* cancellation is ever reported to have prevented a run.
Timely == /\ \A t \in Tasks : when[t] >= 0 /\ lastFire[t] <= now
          /\ \A t \in queue : when[t] > 0
          /\ \A t \in Tasks : lastFire[t] > 0 => launched[t]
          /\ \A t \in Tasks : launched[t] => lastFire[t] > 0
          /\ \A t \in Tasks : when[t] > 0 => period[t] \in AllPeriods \cup {OneShot}
          /\ pc = "again" => when[task] > 0 /\ period[task] >= 0 /\ launched[task]
          /\ \A t \in queue : lastFire[t] > 0 /\ ~fixedRate[t] =>
                \E p \in AllPeriods : when[t] >= lastFire[t] + p
          /\ \A t \in prevented : taskCancelled[t]

PInv == IInv /\ Timely

LEMMA InitPInv == Init => PInv
<1> SUFFICES ASSUME Init PROVE Timely
  BY InitIInv DEF PInv
<1>1. /\ pc = "loop" /\ queue = {} /\ now \in Nat
      /\ \A t \in Tasks : when[t] = 0 /\ lastFire[t] = 0 /\ ~launched[t]
      /\ prevented = {}
  BY TimerAssumption DEF Init
<1> QED BY <1>1 DEF Timely

LEMMA PInvStep ==
  ASSUME NewPeriods \subseteq Nat
  PROVE  PInv /\ [Next]_vars => PInv'
<1> SUFFICES ASSUME PInv, [Next]_vars PROVE Timely'
  BY IInvStep DEF PInv
<1>0. TypeOK /\ TypeOK' /\ IInv /\ Timely /\ AllPeriods \subseteq Nat
  BY TypeStep, TimerAssumption DEF PInv, IInv, AllPeriods
<1> USE <1>0 DEF TypeOK, timer, slots, thread, history
<1>1. ASSUME NEW t \in Tasks, NEW w \in Epoch..MaxTime, NEW rate \in Rates,
             NEW p \in Periods \cup {OneShot}, Schedule(t, w, p, rate)
      PROVE Timely'
  <2>1. w \in Int /\ w > 0 /\ p \in AllPeriods \cup {OneShot}
    BY TimerAssumption DEF AllPeriods
  <2>2. ~launched[t] /\ lastFire[t] = 0 /\ lastFire' = lastFire /\ launched' = launched
    BY <1>1 DEF Schedule, IsScheduled, Timely
  <2>3. pc # "again" /\ pc' # "again"
    BY <1>1 DEF Schedule, MonitorFree, Woken
  <2>4. /\ when'[t] = w /\ period'[t] = p
        /\ \A u \in Tasks : u # t => /\ when'[u] = when[u] /\ period'[u] = period[u]
                                     /\ fixedRate'[u] = fixedRate[u]
        /\ queue' = queue \cup {t} /\ now' = now
        /\ UNCHANGED <<taskCancelled, prevented>>
    BY <1>1 DEF Schedule
  <2> QED BY <2>1, <2>2, <2>3, <2>4 DEF Timely
<1>2. ASSUME NEW t \in Tasks, TaskCancel(t) PROVE Timely'
  BY <1>2 DEF TaskCancel, WillRun, Timely
<1>3. ASSUME NEW t \in Tasks, NEW p \in NewPeriods, SetPeriod(t, p) PROVE Timely'
  <2>1. p \in AllPeriods /\ p >= 0
    BY DEF AllPeriods
  <2>2. \A u \in Tasks : period'[u] = IF u = t THEN p ELSE period[u]
    BY <1>3 DEF SetPeriod
  <2> QED BY <1>3, <2>1, <2>2 DEF SetPeriod, Timely
<1>4. ASSUME NEW t \in Tasks, NEW b \in Switches, SetEnabled(t, b) PROVE Timely'
  BY <1>4 DEF SetEnabled, Timely
<1>5. CASE TimerCancel BY <1>5 DEF TimerCancel, Timely, MonitorFree, Woken
<1>6. CASE Purge BY <1>6 DEF Purge, Purgeable, Timely
<1>7. CASE Finalize BY <1>7 DEF Finalize, Timely, MonitorFree, Woken
<1>8. CASE Exit BY <1>8 DEF Exit, Timely
<1>9. CASE WaitForTask BY <1>9 DEF WaitForTask, Timely
<1>10. CASE SleepOver BY <1>10 DEF SleepOver, Timely
<1>11. ASSUME NEW t \in Tasks, Examine(t) PROVE Timely'
  BY <1>11 DEF Examine, Timely
<1>12. CASE FireCancelled BY <1>12 DEF FireCancelled, StillWanted, Timely
<1>13. CASE Fire
  <2>1. task \in queue /\ when[task] > 0
    BY <1>13 DEF Fire, StillWanted, setScheduledTime, IInv, Chosen, Timely
  <2>2. /\ queue' = queue \ {task} /\ lastFire'[task] = now /\ launched'[task] /\ now' = now
        /\ \A u \in Tasks : u # task => lastFire'[u] = lastFire[u] /\ launched'[u] = launched[u]
        /\ task' = task /\ period' = period /\ fixedRate' = fixedRate
        /\ UNCHANGED <<taskCancelled, prevented>>
    BY <1>13, <2>1 DEF Fire, StillWanted, setScheduledTime
  <2>3. CASE period[task] >= 0
    <3>1. when' = when
      BY <1>13, <2>3 DEF Fire, StillWanted, setScheduledTime
    <3> QED BY <2>1, <2>2, <2>3, <3>1 DEF Timely
  <2>4. CASE period[task] < 0
    <3>1. pc' = "run" /\ \A u \in Tasks : when'[u] = IF u = task THEN 0 ELSE when[u]
      BY <1>13, <2>4 DEF Fire, StillWanted, setScheduledTime
    <3> QED BY <2>1, <2>2, <3>1 DEF Timely
  <2> QED BY <2>3, <2>4
<1>14. CASE Reschedule
  <2> DEFINE next == (IF fixedRate[task] THEN when[task] ELSE now) + period[task]
  <2>1. /\ when[task] > 0 /\ period[task] >= 0 /\ launched[task]
        /\ period[task] \in AllPeriods
    BY <1>14 DEF Reschedule, NextTime, Timely, OneShot
  <2>2. /\ pc' = "run" /\ queue' = queue \cup {task} /\ when'[task] = next
        /\ \A u \in Tasks : u # task => when'[u] = when[u]
        /\ UNCHANGED <<period, fixedRate, launched, now, lastFire, taskCancelled, prevented>>
    BY <1>14 DEF Reschedule, NextTime
  <2>3. next > 0 /\ (~fixedRate[task] => next >= lastFire[task] + period[task])
    BY <2>1 DEF Timely
  <2>4. ASSUME NEW t \in queue', lastFire'[t] > 0, ~fixedRate'[t]
        PROVE \E p \in AllPeriods : when'[t] >= lastFire'[t] + p
    <3>1. CASE t = task
      BY <2>1, <2>2, <2>3, <2>4, <3>1
    <3>2. CASE t # task
      BY <2>2, <2>4, <3>2 DEF Timely
    <3> QED BY <3>1, <3>2
  <2>5. \A t \in queue' : when'[t] > 0
    BY <2>2, <2>3 DEF Timely
  <2>6. \A t \in Tasks : when'[t] >= 0 /\ (when'[t] > 0 => period'[t] \in AllPeriods \cup {OneShot})
    BY <2>1, <2>2, <2>3 DEF Timely
  <2> QED BY <2>2, <2>4, <2>5, <2>6 DEF Timely
<1>15. CASE Launch BY <1>15 DEF Launch, Timely
<1>16. CASE BodyReturns BY <1>16 DEF BodyReturns, Timely
<1>17. CASE BodyThrows BY <1>17 DEF BodyThrows, Timely
<1>18. CASE Unwind BY <1>18 DEF Unwind, Timely
<1>19. CASE SpuriousWakeup BY <1>19 DEF SpuriousWakeup, Timely
<1>20. CASE Tick BY <1>20 DEF Tick, Timely
<1>21. CASE UNCHANGED vars BY <1>21 DEF vars, Timely
<1> QED
  BY <1>1, <1>2, <1>3, <1>4, <1>5, <1>6, <1>7, <1>8, <1>9, <1>10, <1>11, <1>12, <1>13,
     <1>14, <1>15, <1>16, <1>17, <1>18, <1>19, <1>20, <1>21
     DEF Next, Caller, TimerThread

\* While the timer is open, cancel() answers true exactly for a task that is queued.
THEOREM CancelIsTruthful ==
  ASSUME NewPeriods \subseteq Nat
  PROVE  Spec => CancelAnswers
<1>1. PInv /\ [Next]_vars =>
        [\A t \in Tasks : ~cancelled /\ taskCancelled'[t] # taskCancelled[t] =>
           (t \in prevented' <=> t \in queue)]_vars
  <2> SUFFICES ASSUME PInv, Next, NEW t \in Tasks,
                      ~cancelled, taskCancelled'[t] # taskCancelled[t]
               PROVE  t \in prevented' <=> t \in queue
    OBVIOUS
  <2>1. TaskCancel(t)
    <3>1. PICK u \in Tasks : TaskCancel(u)
      BY DEF Next, Caller, TimerThread, Schedule, SetPeriod, SetEnabled, TimerCancel, Purge,
             Finalize, Exit, WaitForTask, SleepOver, Examine, FireCancelled, Fire, Reschedule,
             Launch, BodyReturns, BodyThrows, Unwind, SpuriousWakeup, Tick, slots
    <3>2. u = t
      BY <3>1 DEF TaskCancel, PInv, IInv, TypeOK
    <3> QED BY <3>1, <3>2
  <2>2. ~taskCancelled[t] /\ t \notin prevented
    BY <2>1 DEF TaskCancel, PInv, IInv, TypeOK, Timely
  <2>3. when[t] > 0 <=> t \in queue
    BY <2>1, <2>2 DEF TaskCancel, TaskLockFree, PInv, IInv, NoLostTask, Timely
  <2> QED BY <2>1, <2>2, <2>3 DEF TaskCancel, WillRun
<1>2. PInv /\ [Next]_vars => PInv'
  BY PInvStep
<1> QED BY <1>1, <1>2, InitPInv, PTL DEF Spec, CancelAnswers

\* A one-shot task fires once: what has fired and left the queue stays out of it.
THEOREM FiredIsNeverReused ==
  ASSUME NewPeriods \subseteq Nat
  PROVE  Spec => NeverReused
<1>1. PInv /\ [Next]_vars =>
        [\A t \in Tasks : lastFire[t] > 0 /\ t \notin queue /\ MonitorFree => t \notin queue']_vars
  <2> SUFFICES ASSUME PInv, Next, NEW t \in Tasks,
                      lastFire[t] > 0, t \notin queue, MonitorFree, t \in queue'
               PROVE FALSE
    OBVIOUS
  <2>1. PICK u \in Tasks, w \in Epoch..MaxTime, rate \in Rates, p \in Periods \cup {OneShot} :
           Schedule(u, w, p, rate)
    BY DEF Next, Caller, TimerThread, Schedule, TaskCancel, WillRun, SetPeriod, SetEnabled,
           TimerCancel, Purge, Finalize, Exit, WaitForTask, SleepOver, Examine, FireCancelled, Fire, Reschedule,
           Launch, BodyReturns, BodyThrows, Unwind, SpuriousWakeup, Tick, timer, MonitorFree
  <2>2. u = t
    BY <2>1 DEF Schedule
  <2> QED BY <2>1, <2>2 DEF Schedule, IsScheduled, PInv, Timely
<1>2. PInv /\ [Next]_vars => PInv'
  BY PInvStep
<1> QED BY <1>1, <1>2, InitPInv, PTL DEF Spec, NeverReused

\* Two runs under fixed-period execution are a period apart, whatever happens between
\* the launch, the rescheduling and the next launch.
THEOREM RunsAreSpaced ==
  ASSUME NewPeriods \subseteq Nat
  PROVE  Spec => FixedPeriodSpacing
<1>1. PInv /\ [Next]_vars =>
        [\A t \in Tasks : lastFire[t] > 0 /\ Fires(t) /\ ~fixedRate[t] =>
           \E p \in Periods \cup NewPeriods : now >= lastFire[t] + p]_vars
  <2> SUFFICES ASSUME PInv, Next, NEW t \in Tasks,
                      lastFire[t] > 0, Fires(t), ~fixedRate[t]
               PROVE \E p \in AllPeriods : now >= lastFire[t] + p
    BY DEF AllPeriods
  <2>1. Fire
    BY DEF Fires, Next, Caller, TimerThread, Schedule, MonitorFree, TaskCancel, SetPeriod,
           SetEnabled, TimerCancel, Purge, Finalize, Exit, WaitForTask, SleepOver, Examine,
           FireCancelled, Reschedule, Launch, BodyReturns, BodyThrows, Unwind, SpuriousWakeup,
           Tick, thread
  <2>2. t = task /\ t \in queue /\ when[t] <= now
    BY <2>1 DEF Fires, Fire, PInv, IInv, TypeOK, Chosen
  <2>3. PICK p \in AllPeriods : when[t] >= lastFire[t] + p
    BY <2>2 DEF PInv, Timely
  <2>4. when[t] \in Int /\ now \in Int /\ lastFire[t] \in Int /\ p \in Int
    BY TimerAssumption DEF PInv, IInv, TypeOK, AllPeriods
  <2> QED BY <2>2, <2>3, <2>4
<1>2. PInv /\ [Next]_vars => PInv'
  BY PInvStep
<1> QED BY <1>1, <1>2, InitPInv, PTL DEF Spec, FixedPeriodSpacing

-----------------------------------------------------------------------------
(***************************************************************************)
(* Every step of TimerX is a step of TimerSpec or changes nothing in it.   *)
(***************************************************************************)

LifeOf == [t \in Tasks |-> Life(t)]

LEMMA InitRefines == Init => Abstract!Init
<1> SUFFICES ASSUME Init PROVE Abstract!Init
  OBVIOUS
<1>1. now \in Nat \ {0} /\ ~cancelled /\ when = [t \in Tasks |-> 0]
  BY TimerAssumption DEF Init
<1>2. \A t \in Tasks : Life(t) = "new"
  BY DEF Init, Life
<1>3. [t \in Tasks |-> Life(t)] = [t \in Tasks |-> "new"]
  BY <1>2
<1> QED BY <1>1, <1>3 DEF Abstract!Init

LEMMA StepRefines ==
  ASSUME NewPeriods \subseteq Nat
  PROVE  PInv /\ PInv' /\ [Next]_vars => [Abstract!Next]_(Abstract!vars)
<1> SUFFICES ASSUME PInv, PInv', [Next]_vars
             PROVE  Abstract!Next \/ UNCHANGED <<cancelled, LifeOf, when, now>>
  BY DEF Abstract!vars, LifeOf
<1>0. TypeOK /\ TypeOK' /\ IInv /\ Timely
  BY DEF PInv, IInv
<1> USE <1>0 DEF TypeOK, timer, slots, thread, history
<1>a. ASSUME UNCHANGED <<taskCancelled, when, launched>> PROVE LifeOf' = LifeOf
  BY <1>a DEF LifeOf, Life
<1>b. ASSUME UNCHANGED <<cancelled, taskCancelled, when, launched, now>>
      PROVE UNCHANGED <<cancelled, LifeOf, when, now>>
  BY <1>a, <1>b
<1>c. ASSUME NEW t \in Tasks, \A u \in Tasks : u # t => Life(u)' = Life(u)
      PROVE LifeOf' = [LifeOf EXCEPT ![t] = Life(t)']
  BY <1>c DEF LifeOf
<1>1. ASSUME NEW t \in Tasks, NEW w \in Epoch..MaxTime, NEW rate \in Rates,
             NEW p \in Periods \cup {OneShot}, Schedule(t, w, p, rate)
      PROVE Abstract!Accept(t)
  <2>1. w \in Int /\ w > 0
    BY TimerAssumption
  <2>2. Life(t) = "new"
    BY <1>1 DEF Schedule, IsScheduled, Timely, Life
  <2>3. Life(t)' = "scheduled" /\ \A u \in Tasks : u # t => Life(u)' = Life(u)
    BY <1>1, <2>1 DEF Schedule, Life
  <2>4. LifeOf' = [LifeOf EXCEPT ![t] = "scheduled"]
    BY <1>c, <2>3
  <2>5. when' = [when EXCEPT ![t] = when'[t]] /\ when'[t] > 0 /\ ~cancelled
        /\ UNCHANGED <<cancelled, now>>
    BY <1>1, <2>1 DEF Schedule
  <2> QED BY <2>2, <2>4, <2>5 DEF Abstract!Accept, LifeOf
<1>2. ASSUME NEW t \in Tasks, TaskCancel(t) PROVE Abstract!Withdraw(t)
  <2>1. Life(t)' = "withdrawn" /\ \A u \in Tasks : u # t => Life(u)' = Life(u)
    BY <1>2 DEF TaskCancel, WillRun, Life
  <2>2. LifeOf' = [LifeOf EXCEPT ![t] = "withdrawn"]
    BY <1>c, <2>1
  <2> QED BY <1>2, <2>2 DEF TaskCancel, WillRun, Abstract!Withdraw, LifeOf
<1>3. ASSUME NEW t \in Tasks, NEW p \in NewPeriods, SetPeriod(t, p)
      PROVE UNCHANGED <<cancelled, LifeOf, when, now>>
  BY <1>b, <1>3 DEF SetPeriod
<1>4. ASSUME NEW t \in Tasks, NEW b \in Switches, SetEnabled(t, b)
      PROVE UNCHANGED <<cancelled, LifeOf, when, now>>
  BY <1>b, <1>4 DEF SetEnabled
<1>5. CASE TimerCancel
  BY <1>a, <1>5 DEF TimerCancel, Abstract!Next, Abstract!Close, LifeOf
<1>6. CASE Purge BY <1>b, <1>6 DEF Purge, Purgeable
<1>7. CASE Finalize BY <1>b, <1>7 DEF Finalize
<1>8. CASE Exit BY <1>b, <1>8 DEF Exit
<1>9. CASE WaitForTask BY <1>b, <1>9 DEF WaitForTask
<1>10. CASE SleepOver BY <1>b, <1>10 DEF SleepOver
<1>11. ASSUME NEW t \in Tasks, Examine(t) PROVE UNCHANGED <<cancelled, LifeOf, when, now>>
  BY <1>b, <1>11 DEF Examine
<1>12. CASE FireCancelled BY <1>b, <1>12 DEF FireCancelled, StillWanted
<1>13. CASE Fire
  <2>1. ~cancelled /\ when[task] > 0 /\ when[task] <= now /\ Life(task) = "scheduled"
    BY <1>13 DEF Fire, StillWanted, setScheduledTime, IInv, Chosen, Timely, Life
  <2>2. CASE period[task] >= 0
    <3>1. \A u \in Tasks : Life(u)' = Life(u)
      BY <1>13, <2>1, <2>2 DEF Fire, setScheduledTime, Life
    <3> QED BY <1>13, <2>2, <3>1 DEF Fire, setScheduledTime, LifeOf
  <2>3. CASE period[task] < 0
    <3> PICK t \in Tasks : t = task
      OBVIOUS
    <3>a. /\ ~taskCancelled[t] /\ taskCancelled' = taskCancelled
          /\ when' = [when EXCEPT ![t] = 0]
      BY <1>13, <2>3 DEF Fire, StillWanted, setScheduledTime
    <3>b. launched'[t] = TRUE /\ \A u \in Tasks : u # t => launched'[u] = launched[u]
      BY <1>13, <2>1 DEF Fire, StillWanted, setScheduledTime
    <3>1. Life(t)' = "over" /\ \A u \in Tasks : u # t => Life(u)' = Life(u)
      BY <3>a, <3>b DEF Life
    <3>2. LifeOf' = [LifeOf EXCEPT ![t] = "over"]
      BY <1>c, <3>1
    <3>3. when' = [when EXCEPT ![t] = 0] /\ UNCHANGED <<cancelled, now>>
      BY <1>13, <2>3 DEF Fire, StillWanted, setScheduledTime
    <3>4. Abstract!FireOnce(t)
      BY <2>1, <3>2, <3>3 DEF Abstract!FireOnce, LifeOf
    <3> QED BY <3>4 DEF Abstract!Next
  <2> QED BY <2>2, <2>3
<1>14. CASE Reschedule
  <2>1. /\ ~cancelled /\ when[task] > 0 /\ when[task] <= now /\ period[task] >= 0
        /\ ~taskCancelled[task]
    BY <1>14 DEF Reschedule, NextTime, IInv, Chosen, Timely
  <2>2. /\ when' = [when EXCEPT ![task] = when'[task]]
        /\ when'[task] >= when[task] /\ when'[task] > 0
        /\ UNCHANGED <<cancelled, taskCancelled, launched, now>>
    BY <1>14, <2>1 DEF Reschedule, NextTime
  <2>3. \A u \in Tasks : Life(u)' = Life(u)
    BY <2>1, <2>2 DEF Life
  <2>4. LifeOf' = LifeOf /\ LifeOf[task] = "scheduled"
    BY <2>1, <2>3 DEF LifeOf, Life
  <2>5. Abstract!FireOnce(task)
    BY <2>1, <2>2, <2>4 DEF Abstract!FireOnce, LifeOf
  <2> QED BY <2>5 DEF Abstract!Next
<1>15. CASE Launch BY <1>b, <1>15 DEF Launch
<1>16. CASE BodyReturns BY <1>b, <1>16 DEF BodyReturns
<1>17. CASE BodyThrows BY <1>b, <1>17 DEF BodyThrows
<1>18. CASE Unwind
  BY <1>a, <1>18 DEF Unwind, Abstract!Next, Abstract!Close, LifeOf
<1>19. CASE SpuriousWakeup BY <1>b, <1>19 DEF SpuriousWakeup
<1>20. CASE Tick
  BY <1>a, <1>20 DEF Tick, Abstract!Next, Abstract!Advance, LifeOf
<1>21. CASE UNCHANGED vars BY <1>b, <1>21 DEF vars
<1> QED
  BY <1>1, <1>2, <1>3, <1>4, <1>5, <1>6, <1>7, <1>8, <1>9, <1>10, <1>11, <1>12, <1>13,
     <1>14, <1>15, <1>16, <1>17, <1>18, <1>19, <1>20, <1>21
     DEF Next, Caller, TimerThread, Abstract!Next

\* TimerX keeps the promises of TimerSpec: no firing before its time, after a
\* cancellation or beyond the last one, for any number of tasks.
THEOREM Refinement ==
  ASSUME NewPeriods \subseteq Nat
  PROVE  Spec => ImplementsTimerSpec
<1>1. PInv /\ [Next]_vars => PInv'
  BY PInvStep
<1>2. PInv /\ PInv' /\ [Next]_vars => [Abstract!Next]_(Abstract!vars)
  BY StepRefines
<1> QED BY <1>1, <1>2, InitPInv, InitRefines, PTL DEF Spec, ImplementsTimerSpec, Abstract!Spec

=============================================================================
