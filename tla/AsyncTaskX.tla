------------------------------ MODULE AsyncTaskX -----------------------------
(***************************************************************************)
(* com.yan.luaide.util.AsyncTaskX with the LuaAsyncTask built on it: the   *)
(* task on the UI thread, its FutureTask on a thread of the pool, and      *)
(* cancel(), which any thread may call.  FutureTask, ThreadPoolExecutor    *)
(* and the message queue of the main Looper belong to the platform; they   *)
(* are modelled as this code relies on them.                               *)
(*                                                                         *)
(* The definitions named Bug... are faulty variants of the ones they stand *)
(* before: they show what each property would find.                        *)
(***************************************************************************)
EXTENDS Naturals, Sequences, FiniteSets

CONSTANTS Tasks,        \* the AsyncTaskX objects
          NoTask,       \* no task: handleMessage is not in finish()
          PoolSize,     \* MAXIMUM_POOL_SIZE, the same as CORE_POOL_SIZE
          QueueSize,    \* the capacity of sPoolWorkQueue
          MaxProgress   \* bound on the calls of publishProgress of a task

ASSUME AsyncAssumption == /\ NoTask \notin Tasks
                          /\ PoolSize \in Nat \ {0}
                          /\ QueueSize \in Nat
                          /\ MaxProgress \in Nat

VARIABLES
    status,     \* mStatus
    cancelled,  \* mCancelled
    invoked,    \* mTaskInvoked
    future,     \* the state of mFuture
    worker,     \* where the pool thread of the task is
    canceller,  \* where a call of cancel() on the task is
    looper,     \* the messages posted to the callback Looper
    uiCall,     \* what finish() is about to do
    uiTask,     \* and the task it is for
    mGc,        \* LuaAsyncTask.mGc
    published,  \* how many values publishProgress has let pass
    results,    \* history: how many results were posted
    updated,    \* history: the last value given to the Lua function update
    delivered,  \* history: how often the Lua callback was called
    failed,     \* history: doInBackground threw
    stopped     \* history: gc() met the task RUNNING

task    == <<status, cancelled, invoked, future>>
ui      == <<uiCall, uiTask>>
history == <<results, updated, delivered, failed, stopped>>
vars    == <<task, worker, canceller, looper, ui, mGc, published, history>>

\* A progress message carries the number of the value that was published.
Message == [task : Tasks, what : {"result", "progress"}, value : Nat]

resultMessage(t)      == [task |-> t, what |-> "result", value |-> 0]
progressMessage(t, n) == [task |-> t, what |-> "progress", value |-> n]

\* doInBackground is in progress.
InBody == {"body", "publishing"}

\* The worker is on a thread of the pool.
OnThread == InBody \cup {"checked", "result", "posted"}

TypeOK == /\ status \in [Tasks -> {"PENDING", "RUNNING", "FINISHED"}]
          /\ cancelled \in [Tasks -> BOOLEAN]
          /\ invoked \in [Tasks -> BOOLEAN]
          /\ future \in [Tasks -> {"new", "normal", "cancelled"}]
          /\ worker \in [Tasks -> OnThread \cup {"none", "queued", "rejected", "ended"}]
          /\ canceller \in [Tasks -> {"idle", "flagged", "done"}]
          /\ looper \in Seq(Message)
          /\ uiCall \in {"none", "onCancelled", "onPostExecute", "callback"}
          /\ uiTask \in Tasks \cup {NoTask}
          /\ mGc \in [Tasks -> BOOLEAN]
          /\ published \in [Tasks -> 0..MaxProgress]
          /\ results \in [Tasks -> Nat]
          /\ updated \in [Tasks -> Nat]
          /\ delivered \in [Tasks -> Nat]
          /\ failed \in [Tasks -> BOOLEAN]
          /\ stopped \subseteq Tasks

Init == /\ status = [t \in Tasks |-> "PENDING"]
        /\ cancelled = [t \in Tasks |-> FALSE]
        /\ invoked = [t \in Tasks |-> FALSE]
        /\ future = [t \in Tasks |-> "new"]
        /\ worker = [t \in Tasks |-> "none"]
        /\ canceller = [t \in Tasks |-> "idle"]
        /\ looper = <<>>
        /\ uiCall = "none" /\ uiTask = NoTask
        /\ mGc = [t \in Tasks |-> FALSE]
        /\ published = [t \in Tasks |-> 0]
        /\ results = [t \in Tasks |-> 0]
        /\ updated = [t \in Tasks |-> 0]
        /\ delivered = [t \in Tasks |-> 0]
        /\ failed = [t \in Tasks |-> FALSE]
        /\ stopped = {}

Goto(t, from, to) == worker[t] = from /\ worker' = [worker EXCEPT ![t] = to]

\* A task waits in the pool's queue or occupies one of its threads.
Busy   == {t \in Tasks : worker[t] \in OnThread}
Queued == {t \in Tasks : worker[t] = "queued"}

\* The result overtakes what was posted before it.
BugPostAtFront(t) == /\ looper' = <<resultMessage(t)>> \o looper
                     /\ results' = [results EXCEPT ![t] = @ + 1]

postResult(t) == /\ looper' = Append(looper, resultMessage(t))
                 /\ results' = [results EXCEPT ![t] = @ + 1]

\* The test of mTaskInvoked is the wrong way round, or missing.
BugPostIfInvoked(t) == IF invoked[t] THEN postResult(t) ELSE UNCHANGED <<looper, results>>
BugPostAlways(t)    == postResult(t)

postResultIfNotInvoked(t) == IF invoked[t] THEN UNCHANGED <<looper, results>> ELSE postResult(t)

-----------------------------------------------------------------------------
(* executeOnExecutor, called on the UI thread: the status is set before    *)
(* the pool is asked, and a pool that is full throws.                      *)
Execute(t) ==
    /\ status[t] = "PENDING"
    /\ status' = [status EXCEPT ![t] = "RUNNING"]
    /\ worker' = [worker EXCEPT ![t] =
                    IF Cardinality(Busy \cup Queued) < PoolSize + QueueSize
                    THEN "queued" ELSE "rejected"]
    /\ UNCHANGED <<cancelled, invoked, future, canceller, looper, ui, mGc, published, history>>

(* The pool thread: FutureTask.run, then mWorker.call.                     *)

\* FutureTask.run tests its state before it calls mWorker.
Start(t) == /\ Cardinality(Busy) < PoolSize
            /\ Goto(t, "queued", IF future[t] = "new" THEN "checked" ELSE "ended")
            /\ UNCHANGED <<task, canceller, looper, ui, mGc, published, history>>

Invoke(t) == /\ Goto(t, "checked", "body")
             /\ invoked' = [invoked EXCEPT ![t] = TRUE]
             /\ UNCHANGED <<status, cancelled, future, canceller, looper, ui, mGc,
                            published, history>>

\* publishProgress from doInBackground: it does nothing for a task that is cancelled,
\* and sends the value of one that was not when it looked.
Publish(t) == /\ Goto(t, "body", "publishing")
              /\ ~cancelled[t]
              /\ published[t] < MaxProgress
              /\ published' = [published EXCEPT ![t] = @ + 1]
              /\ UNCHANGED <<task, canceller, looper, ui, mGc, history>>

SendProgress(t) == /\ Goto(t, "publishing", "body")
                   /\ looper' = Append(looper, progressMessage(t, published[t]))
                   /\ UNCHANGED <<task, canceller, ui, mGc, published, history>>

BodyReturns(t) == /\ Goto(t, "body", "result")
                  /\ UNCHANGED <<task, canceller, looper, ui, mGc, published, history>>

\* The exception is caught and does not mark the task cancelled.
BugBodyThrows(t) == /\ Goto(t, "body", "result")
                    /\ failed' = [failed EXCEPT ![t] = TRUE]
                    /\ UNCHANGED <<task, canceller, looper, ui, mGc, published, results,
                                   updated, delivered, stopped>>

\* What doInBackground throws is caught, marks the task cancelled and is forgotten.
BodyThrows(t) == /\ Goto(t, "body", "result")
                 /\ cancelled' = [cancelled EXCEPT ![t] = TRUE]
                 /\ failed' = [failed EXCEPT ![t] = TRUE]
                 /\ UNCHANGED <<status, invoked, future, canceller, looper, ui, mGc,
                                published, results, updated, delivered, stopped>>

PostResult(t) == /\ Goto(t, "result", "posted")
                 /\ postResult(t)
                 /\ UNCHANGED <<task, canceller, ui, mGc, published, updated, delivered,
                                failed, stopped>>

\* FutureTask.set and the call of done() it makes; nothing if a cancel came first.
SetResult(t) == /\ Goto(t, "posted", "ended")
                /\ IF future[t] = "new"
                   THEN /\ future' = [future EXCEPT ![t] = "normal"]
                        /\ postResultIfNotInvoked(t)
                   ELSE UNCHANGED <<future, looper, results>>
                /\ UNCHANGED <<status, cancelled, invoked, canceller, ui, mGc, published,
                               updated, delivered, failed, stopped>>

(* cancel(true).                                                           *)

Flag(t) == /\ cancelled' = [cancelled EXCEPT ![t] = TRUE]
           /\ canceller' = [canceller EXCEPT ![t] = IF @ = "idle" THEN "flagged" ELSE @]

Cancel(t) == /\ Flag(t)
             /\ UNCHANGED <<status, invoked, future, worker, looper, ui, mGc, published, history>>

\* mFuture.cancel: only the first outcome of a future counts.
CancelFuture(t) == /\ canceller[t] = "flagged"
                   /\ IF future[t] = "new"
                      THEN /\ future' = [future EXCEPT ![t] = "cancelled"]
                           /\ canceller' = [canceller EXCEPT ![t] = "done"]
                      ELSE /\ canceller' = [canceller EXCEPT ![t] = "idle"]
                           /\ UNCHANGED future
                   /\ UNCHANGED <<status, cancelled, invoked, worker, looper, ui, mGc,
                                  published, history>>

\* done() posts nothing after a cancellation.
BugCancelDone(t) == /\ canceller[t] = "done"
                    /\ canceller' = [canceller EXCEPT ![t] = "idle"]
                    /\ UNCHANGED <<task, worker, looper, ui, mGc, published, history>>

\* done() runs on the thread that cancelled.
CancelDone(t) == /\ canceller[t] = "done"
                 /\ canceller' = [canceller EXCEPT ![t] = "idle"]
                 /\ postResultIfNotInvoked(t)
                 /\ UNCHANGED <<task, worker, ui, mGc, published, updated, delivered,
                                failed, stopped>>

\* mGc is set and the task is left to run.
BugGc(t) == /\ uiCall = "none"
            /\ mGc' = [mGc EXCEPT ![t] = TRUE]
            /\ stopped' = IF status[t] = "RUNNING" THEN stopped \cup {t} ELSE stopped
            /\ UNCHANGED <<task, worker, canceller, looper, ui, published,
                           results, updated, delivered, failed>>

\* LuaAsyncTask.gc, when the activity is destroyed on the UI thread.
Gc(t) == /\ uiCall = "none"
         /\ mGc' = [mGc EXCEPT ![t] = TRUE]
         /\ IF status[t] = "RUNNING"
            THEN Flag(t) /\ stopped' = stopped \cup {t}
            ELSE UNCHANGED <<cancelled, canceller, stopped>>
         /\ UNCHANGED <<status, invoked, future, worker, looper, ui, published,
                        results, updated, delivered, failed>>

(* InternalHandler.handleMessage on the UI thread.                         *)

\* onProgressUpdate calls the Lua function update, whatever became of the task
\* since the message was posted.
HandleProgress == /\ uiCall = "none"
                  /\ looper # <<>> /\ Head(looper).what = "progress"
                  /\ looper' = Tail(looper)
                  /\ updated' = [updated EXCEPT ![Head(looper).task] = Head(looper).value]
                  /\ UNCHANGED <<task, worker, canceller, ui, mGc, published, results,
                                 delivered, failed, stopped>>

\* finish() looks at mCancelled once and then calls back.
HandleResult == /\ uiCall = "none"
                /\ looper # <<>> /\ Head(looper).what = "result"
                /\ looper' = Tail(looper)
                /\ uiTask' = Head(looper).task
                /\ uiCall' = IF cancelled[Head(looper).task] THEN "onCancelled" ELSE "onPostExecute"
                /\ UNCHANGED <<task, worker, canceller, mGc, published, history>>

\* The callback has returned to finish().
Finished == /\ uiCall' = "none" /\ uiTask' = NoTask
            /\ status' = [status EXCEPT ![uiTask] = "FINISHED"]

OnCancelled == /\ uiCall = "onCancelled"
               /\ Finished
               /\ UNCHANGED <<cancelled, invoked, future, worker, canceller, looper, mGc,
                              published, history>>

\* LuaAsyncTask.onPostExecute looks at mCancelled again ...
OnPostExecute == /\ uiCall = "onPostExecute"
                 /\ \/ cancelled[uiTask] /\ Finished
                    \/ /\ ~cancelled[uiTask]
                       /\ uiCall' = "callback"
                       /\ UNCHANGED <<uiTask, status>>
                 /\ UNCHANGED <<cancelled, invoked, future, worker, canceller, looper, mGc,
                                published, history>>

\* ... and then calls mCallback, also when a cancel() has come in between.
Callback == /\ uiCall = "callback"
            /\ delivered' = [delivered EXCEPT ![uiTask] = @ + 1]
            /\ Finished
            /\ UNCHANGED <<cancelled, invoked, future, worker, canceller, looper, mGc,
                           published, results, updated, failed, stopped>>

-----------------------------------------------------------------------------
PoolThread(t) == \/ Start(t) \/ Invoke(t) \/ Publish(t) \/ SendProgress(t)
                 \/ BodyReturns(t) \/ BodyThrows(t) \/ PostResult(t) \/ SetResult(t)
CancelStep(t) == CancelFuture(t) \/ CancelDone(t)
MainLooper    == HandleProgress \/ HandleResult \/ OnCancelled \/ OnPostExecute \/ Callback

Next == \/ \E t \in Tasks : Execute(t) \/ PoolThread(t) \/ Cancel(t) \/ CancelStep(t) \/ Gc(t)
        \/ MainLooper

Spec == Init /\ [][Next]_vars

\* Pool threads run, doInBackground ends, a cancel() in progress completes, and the
\* main Looper handles its messages.  Nobody has to call execute, cancel or gc.
FairSpec == Spec /\ WF_vars(MainLooper)
                 /\ \A t \in Tasks : WF_vars(PoolThread(t)) /\ WF_vars(CancelStep(t))

-----------------------------------------------------------------------------
\* A future that is settled, with nobody working on it, has posted a result, whichever
\* of mWorker.call and done() had to: no task that runs or is cancelled ends in silence.
SettledHasResult ==
    \A t \in Tasks :
       future[t] # "new" /\ canceller[t] = "idle" /\ worker[t] \notin OnThread => results[t] > 0

\* The Lua callback gets a result at most once, although two can be posted.
CallbackOnce == \A t \in Tasks : delivered[t] <= 1

\* Nor does it get one before doInBackground is over, or when that threw.
CallbackAfterBody ==
    [][\A t \in Tasks : delivered'[t] # delivered[t] =>
          worker[t] \in {"posted", "ended"} /\ invoked[t] /\ ~failed[t]]_vars

\* Progress that doInBackground published never reaches Lua after the final callback.
ProgressBeforeCallback ==
    \A t \in Tasks : delivered[t] > 0 =>
       \A i \in 1..Len(looper) : looper[i].task = t => looper[i].what # "progress"

\* gc() of a task that is RUNNING, when its activity is destroyed: the result no
\* longer reaches the script, doInBackground publishes nothing more, and of its
\* progress only what it had published by then may still call the function update.
NothingNewAfterGc ==
    [][\A t \in stopped :
         delivered'[t] = delivered[t] /\ published'[t] = published[t]
          /\ updated'[t] <= published[t]]_vars

\* A task the pool accepted is FINISHED in the end.
AcceptedFinishes == \A t \in Tasks :
    (status[t] = "RUNNING" /\ worker[t] # "rejected") ~> (status[t] = "FINISHED")
=============================================================================
