-------------------------- MODULE AsyncTaskX_proofs --------------------------
(***************************************************************************)
(* Proofs about AsyncTaskX for every number of tasks, every size of the    *)
(* pool and of its queue.                                                  *)
(***************************************************************************)
EXTENDS AsyncTaskX, SequenceTheorems, TLAPS

IsResult(m, t)  == m.task = t /\ m.what = "result"
Over(t)         == worker[t] \in {"posted", "ended"} /\ invoked[t]

\* How far the pool thread, the future and a cancel() in progress may be apart.
Pace == \A t \in Tasks :
    /\ worker[t] \in InBody \cup {"result", "posted"} => invoked[t]
    /\ invoked[t] => worker[t] \in InBody \cup {"result", "posted", "ended"}
    /\ future[t] = "normal" => worker[t] = "ended" /\ invoked[t]
    /\ future[t] = "cancelled" => cancelled[t]
    /\ canceller[t] # "idle" => cancelled[t]
    /\ canceller[t] = "done" => future[t] = "cancelled"
    /\ worker[t] = "ended" => future[t] # "new"
    /\ worker[t] # "none" => status[t] # "PENDING"
    /\ failed[t] => cancelled[t]
    /\ t \in stopped => cancelled[t]

\* Who has posted a result: the thread that ran the task, or the one that cancelled it.
Posted == \A t \in Tasks :
    /\ Over(t) => results[t] > 0
    /\ future[t] = "cancelled" /\ canceller[t] # "done" =>
          results[t] > 0 \/ worker[t] \in InBody \cup {"result"}

\* While the task is not cancelled, its result is its last message and there is one.
OneResult(t) == ~cancelled[t] =>
    /\ \A i \in 1..Len(looper) : IsResult(looper[i], t) =>
          /\ Over(t) /\ delivered[t] = 0
          /\ uiCall # "none" => uiTask # t
          /\ \A j \in 1..Len(looper) : j > i => looper[j].task # t
    /\ (uiCall # "none" /\ uiTask = t) \/ delivered[t] > 0 =>
          Over(t) /\ \A i \in 1..Len(looper) : looper[i].task # t
    /\ uiCall # "none" /\ uiTask = t => delivered[t] = 0

\* onPostExecute has found the task not cancelled and is about to call mCallback.
Calling(t) == uiCall = "callback" /\ uiTask = t

\* Whatever happens later, it is called back once and all its progress came before.
CalledBack(t) ==
    /\ delivered[t] <= 1
    /\ Calling(t) => delivered[t] = 0
    /\ Calling(t) \/ delivered[t] > 0 =>
          Over(t) /\ \A i \in 1..Len(looper) : looper[i].task = t => looper[i].what = "result"

Told == \A t \in Tasks : OneResult(t) /\ CalledBack(t)

\* A cancellation that comes after the second test is not gc()'s, which runs on the
\* same thread, nor that of a body which throws.
Answered == \A t \in Tasks : Calling(t) => ~failed[t] /\ t \notin stopped

\* The values on their way to the function update, and those it was given, are ones
\* that publishProgress has let pass.
Values == /\ \A t \in Tasks : updated[t] <= published[t]
          /\ \A i \in 1..Len(looper) : looper[i].what = "progress" =>
                looper[i].value <= published[looper[i].task]

IInv == TypeOK /\ Pace /\ Posted /\ Told /\ Answered /\ Values

\* What appending does to the queue of messages.
LEMMA AppendMessage ==
  ASSUME NEW s \in Seq(Message), NEW m \in Message
  PROVE  /\ Append(s, m) \in Seq(Message)
         /\ Len(Append(s, m)) = Len(s) + 1
         /\ \A i \in 1..Len(s) + 1 : Append(s, m)[i] = IF i <= Len(s) THEN s[i] ELSE m
  OBVIOUS

\* Posting puts one message at the end of the queue.
LEMMA Post ==
  ASSUME looper \in Seq(Message), NEW m \in Message, looper' = Append(looper, m)
  PROVE  /\ looper' \in Seq(Message)
         /\ Len(looper) \in Nat /\ Len(looper') = Len(looper) + 1
         /\ \A i \in 1..Len(looper) : looper'[i] = looper[i]
         /\ looper'[Len(looper) + 1] = m
BY AppendMessage

\* The messages that are posted.
LEMMA Messages ==
  ASSUME NEW t \in Tasks, NEW n \in Nat
  PROVE  /\ resultMessage(t) \in Message /\ progressMessage(t, n) \in Message
         /\ resultMessage(t).task = t /\ resultMessage(t).what = "result"
         /\ progressMessage(t, n).task = t /\ progressMessage(t, n).what = "progress"
         /\ progressMessage(t, n).value = n
BY DEF resultMessage, progressMessage, Message

\* Handling takes one message from the front.
LEMMA TailMessage ==
  ASSUME NEW s \in Seq(Message), s # <<>>
  PROVE  /\ Tail(s) \in Seq(Message)
         /\ Len(s) \in Nat \ {0} /\ Head(s) = s[1] /\ Head(s) \in Message
         /\ Len(Tail(s)) = Len(s) - 1
         /\ \A i \in 1..Len(s) - 1 : Tail(s)[i] = s[i + 1]
  OBVIOUS

\* The invariant holds before any task is executed.
LEMMA InitIInv == Init => IInv
<1> SUFFICES ASSUME Init PROVE IInv
  OBVIOUS
<1>1. /\ looper = <<>> /\ uiCall = "none" /\ stopped = {}
      /\ \A t \in Tasks : /\ status[t] = "PENDING" /\ ~cancelled[t] /\ ~invoked[t]
                          /\ future[t] = "new" /\ worker[t] = "none" /\ canceller[t] = "idle"
                          /\ results[t] = 0 /\ delivered[t] = 0 /\ ~failed[t]
                          /\ updated[t] = 0 /\ published[t] = 0
  BY DEF Init
<1>2. TypeOK
  BY AsyncAssumption DEF Init, TypeOK
<1>3. Pace /\ Posted
  BY <1>1 DEF Pace, Posted, Over, InBody
<1>4. Told /\ Answered /\ Values
  BY <1>1, Len(<<>>) = 0 DEF Told, OneResult, CalledBack, Calling, Answered, Values
<1> QED BY <1>2, <1>3, <1>4 DEF IInv

\* Each action keeps the types.
LEMMA TypeStep == TypeOK /\ [Next]_vars => TypeOK'
<1> SUFFICES ASSUME TypeOK, [Next]_vars PROVE TypeOK'
  OBVIOUS
<1> USE AsyncAssumption DEF TypeOK, OnThread, InBody, task, ui, history, Finished
<1>1. ASSUME NEW t \in Tasks, Execute(t) PROVE TypeOK'
  BY <1>1 DEF Execute
<1>2. ASSUME NEW t \in Tasks, Start(t) PROVE TypeOK'
  BY <1>2 DEF Start, Goto
<1>3. ASSUME NEW t \in Tasks, Invoke(t) PROVE TypeOK'
  BY <1>3 DEF Invoke, Goto
<1>4. ASSUME NEW t \in Tasks, Publish(t) PROVE TypeOK'
  BY <1>4 DEF Publish, Goto
<1>17. ASSUME NEW t \in Tasks, SendProgress(t) PROVE TypeOK'
  <2>1. looper' \in Seq(Message)
    BY <1>17, Post, Messages DEF SendProgress
  <2> QED BY <1>17, <2>1 DEF SendProgress, Goto
<1>5. ASSUME NEW t \in Tasks, BodyReturns(t) PROVE TypeOK'
  BY <1>5 DEF BodyReturns, Goto
<1>6. ASSUME NEW t \in Tasks, BodyThrows(t) PROVE TypeOK'
  BY <1>6 DEF BodyThrows, Goto
<1>7. ASSUME NEW t \in Tasks, PostResult(t) PROVE TypeOK'
  BY <1>7, Post, Messages, 0 \in Nat DEF PostResult, Goto, postResult
<1>8. ASSUME NEW t \in Tasks, SetResult(t) PROVE TypeOK'
  <2>1. looper' \in Seq(Message)
    <3>1. looper' = looper \/ looper' = Append(looper, resultMessage(t))
      BY <1>8 DEF SetResult, postResult, postResultIfNotInvoked
    <3> QED BY <3>1, Post, Messages, 0 \in Nat
  <2>2. results' \in [Tasks -> Nat]
    BY <1>8 DEF SetResult, postResult, postResultIfNotInvoked
  <2> QED BY <1>8, <2>1, <2>2 DEF SetResult, Goto
<1>9. ASSUME NEW t \in Tasks, Cancel(t) PROVE TypeOK'
  BY <1>9 DEF Cancel, Flag
<1>10. ASSUME NEW t \in Tasks, CancelFuture(t) PROVE TypeOK'
  BY <1>10 DEF CancelFuture
<1>11. ASSUME NEW t \in Tasks, CancelDone(t) PROVE TypeOK'
  <2>1. looper' \in Seq(Message)
    <3>1. looper' = looper \/ looper' = Append(looper, resultMessage(t))
      BY <1>11 DEF CancelDone, postResult, postResultIfNotInvoked
    <3> QED BY <3>1, Post, Messages, 0 \in Nat
  <2>2. results' \in [Tasks -> Nat]
    BY <1>11 DEF CancelDone, postResult, postResultIfNotInvoked
  <2> QED BY <1>11, <2>1, <2>2 DEF CancelDone
<1>12. ASSUME NEW t \in Tasks, Gc(t) PROVE TypeOK'
  BY <1>12 DEF Gc, Flag
<1>13. CASE HandleProgress
  <2>1. Head(looper).task \in Tasks /\ Head(looper).value \in Nat /\ looper' \in Seq(Message)
    BY <1>13, TailMessage DEF HandleProgress, Message
  <2> QED BY <1>13, <2>1 DEF HandleProgress
<1>14. CASE HandleResult
  <2>1. Head(looper).task \in Tasks /\ looper' \in Seq(Message)
    BY <1>14, TailMessage DEF HandleResult, Message
  <2> QED BY <1>14, <2>1 DEF HandleResult
<1>15. CASE OnCancelled \/ OnPostExecute \/ Callback
  <2>1. CASE OnCancelled BY <2>1 DEF OnCancelled, Finished
  <2>2. CASE OnPostExecute BY <2>2 DEF OnPostExecute, Finished
  <2>3. CASE Callback
    <3>1. delivered' = [t \in Tasks |-> IF t = uiTask THEN delivered[t] + 1 ELSE delivered[t]]
      BY <2>3 DEF Callback
    <3>2. delivered' \in [Tasks -> Nat]
      BY <3>1
    <3> QED BY <2>3, <3>2 DEF Callback, Finished
  <2> QED BY <1>15, <2>1, <2>2, <2>3
<1>16. CASE UNCHANGED vars
  BY <1>16 DEF vars
<1> QED
  BY <1>1, <1>2, <1>3, <1>4, <1>5, <1>6, <1>7, <1>8, <1>9,
     <1>10, <1>11, <1>12, <1>13, <1>14, <1>15, <1>16, <1>17
     DEF Next, PoolThread, CancelStep, MainLooper

\* The thread, the future and the cancellation stay within reach of each other.
LEMMA PaceStep == (TypeOK /\ Pace) /\ [Next]_vars => Pace'
<1> SUFFICES ASSUME (TypeOK /\ Pace), [Next]_vars PROVE Pace'
  OBVIOUS
<1> USE DEF TypeOK, Pace, OnThread, InBody, task, ui, history
<1>1. ASSUME NEW t \in Tasks, Execute(t) PROVE Pace'
  BY <1>1 DEF Execute
<1>2. ASSUME NEW t \in Tasks, Start(t) PROVE Pace'
  BY <1>2 DEF Start, Goto
<1>3. ASSUME NEW t \in Tasks, Invoke(t) PROVE Pace'
  BY <1>3 DEF Invoke, Goto
<1>4. ASSUME NEW t \in Tasks, Publish(t) PROVE Pace'
  BY <1>4 DEF Publish, Goto
<1>17. ASSUME NEW t \in Tasks, SendProgress(t) PROVE Pace'
  BY <1>17 DEF SendProgress, Goto
<1>5. ASSUME NEW t \in Tasks, BodyReturns(t) PROVE Pace'
  BY <1>5 DEF BodyReturns, Goto
<1>6. ASSUME NEW t \in Tasks, BodyThrows(t) PROVE Pace'
  BY <1>6 DEF BodyThrows, Goto
<1>7. ASSUME NEW t \in Tasks, PostResult(t) PROVE Pace'
  BY <1>7 DEF PostResult, Goto, postResult
<1>8. ASSUME NEW t \in Tasks, SetResult(t) PROVE Pace'
  BY <1>8 DEF SetResult, Goto, postResult, postResultIfNotInvoked
<1>9. ASSUME NEW t \in Tasks, Cancel(t) PROVE Pace'
  BY <1>9 DEF Cancel, Flag
<1>10. ASSUME NEW t \in Tasks, CancelFuture(t) PROVE Pace'
  BY <1>10 DEF CancelFuture
<1>11. ASSUME NEW t \in Tasks, CancelDone(t) PROVE Pace'
  BY <1>11 DEF CancelDone, postResult, postResultIfNotInvoked
<1>12. ASSUME NEW t \in Tasks, Gc(t) PROVE Pace'
  <2>1. UNCHANGED <<status, invoked, future, worker, failed>>
    BY <1>12 DEF Gc
  <2>2. CASE status[t] = "RUNNING"
    <3>1. /\ \A u \in Tasks : cancelled'[u] <=> (cancelled[u] \/ u = t)
          /\ \A u \in Tasks : u # t => canceller'[u] = canceller[u]
          /\ canceller'[t] = (IF canceller[t] = "idle" THEN "flagged" ELSE canceller[t])
          /\ stopped' = stopped \cup {t}
      BY <1>12, <2>2 DEF Gc, Flag
    <3> QED BY <2>1, <3>1
  <2>3. CASE status[t] # "RUNNING"
    BY <1>12, <2>1, <2>3 DEF Gc
  <2> QED BY <2>2, <2>3
<1>13. CASE HandleProgress
  BY <1>13 DEF HandleProgress
<1>14. CASE HandleResult
  BY <1>14 DEF HandleResult
<1>15. CASE OnCancelled \/ OnPostExecute \/ Callback
  <2>1. CASE OnCancelled BY <2>1 DEF OnCancelled, Finished
  <2>2. CASE OnPostExecute BY <2>2 DEF OnPostExecute, Finished
  <2>3. CASE Callback BY <2>3 DEF Callback, Finished
  <2> QED BY <1>15, <2>1, <2>2, <2>3
<1>16. CASE UNCHANGED vars
  BY <1>16 DEF vars
<1> QED
  BY <1>1, <1>2, <1>3, <1>4, <1>5, <1>6, <1>7, <1>8, <1>9,
     <1>10, <1>11, <1>12, <1>13, <1>14, <1>15, <1>16, <1>17
     DEF Next, PoolThread, CancelStep, MainLooper

\* Somebody posts a result.
LEMMA PostedStep == (TypeOK /\ Pace /\ Posted) /\ [Next]_vars => Posted'
<1> SUFFICES ASSUME (TypeOK /\ Pace /\ Posted), [Next]_vars PROVE Posted'
  OBVIOUS
<1> USE DEF TypeOK, Pace, Posted, Over, OnThread, InBody, task, ui, history
<1>1. ASSUME NEW t \in Tasks, Execute(t) PROVE Posted'
  BY <1>1 DEF Execute
<1>2. ASSUME NEW t \in Tasks, Start(t) PROVE Posted'
  BY <1>2 DEF Start, Goto
<1>3. ASSUME NEW t \in Tasks, Invoke(t) PROVE Posted'
  BY <1>3 DEF Invoke, Goto
<1>4. ASSUME NEW t \in Tasks, Publish(t) PROVE Posted'
  BY <1>4 DEF Publish, Goto
<1>17. ASSUME NEW t \in Tasks, SendProgress(t) PROVE Posted'
  BY <1>17 DEF SendProgress, Goto
<1>5. ASSUME NEW t \in Tasks, BodyReturns(t) PROVE Posted'
  BY <1>5 DEF BodyReturns, Goto
<1>6. ASSUME NEW t \in Tasks, BodyThrows(t) PROVE Posted'
  BY <1>6 DEF BodyThrows, Goto
<1>7. ASSUME NEW t \in Tasks, PostResult(t) PROVE Posted'
  BY <1>7 DEF PostResult, Goto, postResult
<1>8. ASSUME NEW t \in Tasks, SetResult(t) PROVE Posted'
  <2>1. results' = results
    BY <1>8 DEF SetResult, Goto, postResultIfNotInvoked
  <2> QED BY <1>8, <2>1 DEF SetResult, Goto
<1>9. ASSUME NEW t \in Tasks, Cancel(t) PROVE Posted'
  BY <1>9 DEF Cancel, Flag
<1>10. ASSUME NEW t \in Tasks, CancelFuture(t) PROVE Posted'
  <2>1. UNCHANGED <<worker, invoked, results>> /\ canceller[t] = "flagged"
    BY <1>10 DEF CancelFuture
  <2>2. CASE future[t] = "new"
    <3>1. canceller'[t] = "done" /\ \A u \in Tasks : u # t => /\ future'[u] = future[u]
                                                            /\ canceller'[u] = canceller[u]
      BY <1>10, <2>2 DEF CancelFuture
    <3> QED BY <2>1, <3>1
  <2>3. CASE future[t] # "new"
    <3>1. future' = future /\ \A u \in Tasks : u # t => canceller'[u] = canceller[u]
      BY <1>10, <2>3 DEF CancelFuture
    <3> QED BY <2>1, <3>1
  <2> QED BY <2>2, <2>3
<1>11. ASSUME NEW t \in Tasks, CancelDone(t) PROVE Posted'
  BY <1>11 DEF CancelDone, postResult, postResultIfNotInvoked
<1>12. ASSUME NEW t \in Tasks, Gc(t) PROVE Posted'
  BY <1>12 DEF Gc, Flag
<1>13. CASE HandleProgress
  BY <1>13 DEF HandleProgress
<1>14. CASE HandleResult
  BY <1>14 DEF HandleResult
<1>15. CASE OnCancelled \/ OnPostExecute \/ Callback
  <2>1. CASE OnCancelled BY <2>1 DEF OnCancelled, Finished
  <2>2. CASE OnPostExecute BY <2>2 DEF OnPostExecute, Finished
  <2>3. CASE Callback BY <2>3 DEF Callback, Finished
  <2> QED BY <1>15, <2>1, <2>2, <2>3
<1>16. CASE UNCHANGED vars
  BY <1>16 DEF vars
<1> QED
  BY <1>1, <1>2, <1>3, <1>4, <1>5, <1>6, <1>7, <1>8, <1>9,
     <1>10, <1>11, <1>12, <1>13, <1>14, <1>15, <1>16, <1>17
     DEF Next, PoolThread, CancelStep, MainLooper

\* A step that leaves the messages alone and never takes back a cancellation or a
\* finished body keeps what is known of a task.
LEMMA Frame ==
  ASSUME NEW u \in Tasks, OneResult(u), CalledBack(u), uiCall' = uiCall, uiTask' = uiTask,
         delivered'[u] = delivered[u], looper' = looper,
         cancelled[u] => cancelled'[u], Over(u) => Over(u)'
  PROVE  OneResult(u)' /\ CalledBack(u)'
<1>1. OneResult(u)'
  BY DEF OneResult
<1>2. CalledBack(u)'
  BY DEF CalledBack, Calling
<1> QED BY <1>1, <1>2

\* So does one that posts a message of another task.
LEMMA OtherPost ==
  ASSUME NEW u \in Tasks, OneResult(u), CalledBack(u), uiCall' = uiCall, uiTask' = uiTask,
         delivered'[u] = delivered[u], cancelled[u] => cancelled'[u], Over(u) => Over(u)',
         looper \in Seq(Message), NEW m \in Message, m.task # u, looper' = Append(looper, m)
  PROVE  OneResult(u)' /\ CalledBack(u)'
<1>1. /\ Len(looper) \in Nat /\ Len(looper') = Len(looper) + 1
      /\ \A i \in 1..Len(looper) : looper'[i] = looper[i]
      /\ looper'[Len(looper) + 1].task # u
  BY Post
<1>2. \A i \in 1..Len(looper') : looper'[i].task = u => i \in 1..Len(looper) /\ looper'[i] = looper[i]
  BY <1>1
<1>3. CalledBack(u)'
  BY <1>1, <1>2 DEF CalledBack, Calling
<1>4. OneResult(u)'
  BY <1>1, <1>2 DEF OneResult, IsResult
<1> QED BY <1>3, <1>4

\* So does one that only takes the first message.
LEMMA OtherTail ==
  ASSUME NEW u \in Tasks, OneResult(u), CalledBack(u), uiCall' = uiCall, uiTask' = uiTask,
         delivered'[u] = delivered[u], cancelled[u] => cancelled'[u], Over(u) => Over(u)',
         looper \in Seq(Message), looper # <<>>, looper' = Tail(looper)
  PROVE  OneResult(u)' /\ CalledBack(u)'
<1>1. /\ Len(looper) \in Nat \ {0} /\ Len(looper') = Len(looper) - 1
      /\ \A i \in 1..Len(looper) - 1 : looper'[i] = looper[i + 1]
  BY TailMessage
<1>2. \A i \in 1..Len(looper') : i + 1 \in 1..Len(looper) /\ looper'[i] = looper[i + 1]
  BY <1>1
<1>3. CalledBack(u)'
  BY <1>1, <1>2 DEF CalledBack, Calling
<1>4. OneResult(u)'
  BY <1>1, <1>2 DEF OneResult, IsResult
<1> QED BY <1>3, <1>4

\* Each action keeps what is known of the messages and the callback of a task.
LEMMA ToldStep == TypeOK /\ Pace /\ Told /\ [Next]_vars => Told'
<1> SUFFICES ASSUME TypeOK, Pace, Told, [Next]_vars, NEW u \in Tasks
             PROVE  OneResult(u)' /\ CalledBack(u)'
  BY DEF Told
<1> USE DEF task, ui, history
<1>0. /\ OneResult(u) /\ CalledBack(u) /\ looper \in Seq(Message)
      /\ u \in Tasks /\ (worker[u] \in InBody \cup {"none", "queued", "checked", "result"} => ~Over(u))
  BY DEF Told, TypeOK, Over, InBody
<1>1. ASSUME NEW t \in Tasks, Execute(t) PROVE OneResult(u)' /\ CalledBack(u)'
  <2>1. /\ UNCHANGED <<invoked, cancelled, looper, uiCall, uiTask, delivered>>
        /\ status[t] = "PENDING" /\ (u # t => worker'[u] = worker[u])
    BY <1>1 DEF Execute, TypeOK
  <2>2. worker[t] = "none"
    BY <2>1 DEF Pace
  <2>3. Over(u) => Over(u)'
    BY <2>1, <2>2 DEF Over
  <2> QED BY <1>0, <2>1, <2>3, Frame
<1>2. ASSUME NEW t \in Tasks, Start(t) PROVE OneResult(u)' /\ CalledBack(u)'
  <2>1. UNCHANGED <<invoked, cancelled, looper, uiCall, uiTask, delivered>> /\ worker[t] = "queued"
    BY <1>2 DEF Start, Goto
  <2>2. u # t => worker'[u] = worker[u]
    BY <1>2 DEF Start, Goto, TypeOK
  <2>3. Over(u) => Over(u)'
    BY <2>1, <2>2 DEF Over
  <2> QED BY <1>0, <2>1, <2>3, Frame
<1>3. ASSUME NEW t \in Tasks, Invoke(t) PROVE OneResult(u)' /\ CalledBack(u)'
  <2>1. /\ UNCHANGED <<cancelled, looper, uiCall, uiTask, delivered>> /\ worker[t] = "checked"
        /\ u # t => worker'[u] = worker[u] /\ invoked'[u] = invoked[u]
    BY <1>3 DEF Invoke, Goto, TypeOK
  <2>2. Over(u) => Over(u)'
    BY <2>1 DEF Over
  <2> QED BY <1>0, <2>1, <2>2, Frame
<1>4. ASSUME NEW t \in Tasks, Publish(t) PROVE OneResult(u)' /\ CalledBack(u)'
  <2>1. UNCHANGED <<invoked, cancelled, looper, uiCall, uiTask, delivered>> /\ worker[t] = "body"
    BY <1>4 DEF Publish, Goto
  <2>2. u # t => worker'[u] = worker[u]
    BY <1>4 DEF Publish, Goto, TypeOK
  <2>3. Over(u) => Over(u)'
    BY <2>1, <2>2 DEF Over
  <2> QED BY <1>0, <2>1, <2>3, Frame
<1>17. ASSUME NEW t \in Tasks, SendProgress(t) PROVE OneResult(u)' /\ CalledBack(u)'
  <2> DEFINE m == progressMessage(t, published[t])
  <2>1. /\ UNCHANGED <<invoked, cancelled, uiCall, uiTask, delivered>>
        /\ worker[t] = "publishing" /\ looper' = Append(looper, m)
    BY <1>17 DEF SendProgress, Goto
  <2>2. m \in Message /\ m.task = t /\ m.what = "progress"
    BY Messages DEF TypeOK
  <2>3. u # t => worker'[u] = worker[u]
    BY <1>17 DEF SendProgress, Goto, TypeOK
  <2>4. Over(u) => Over(u)'
    BY <2>1, <2>3 DEF Over
  <2> HIDE DEF m
  <2>5. CASE u # t
    BY <1>0, <2>1, <2>2, <2>4, <2>5, OtherPost
  <2>6. CASE u = t
    <3>1. /\ Len(looper) \in Nat /\ Len(looper') = Len(looper) + 1
          /\ \A i \in 1..Len(looper) : looper'[i] = looper[i]
          /\ looper'[Len(looper) + 1].what = "progress"
      BY <1>0, <2>1, <2>2, Post
    <3>2. ~Over(u) /\ ~(delivered[u] > 0) /\ ~Calling(u) /\ delivered[u] <= 1
      BY <1>0, <2>1, <2>6 DEF CalledBack, Over
    <3>3. CalledBack(u)'
      BY <2>1, <3>2 DEF CalledBack, Calling
    <3>4. ASSUME ~cancelled[u] PROVE OneResult(u)'
      <4>1. /\ ~(uiCall # "none" /\ uiTask = u)
            /\ \A i \in 1..Len(looper) : ~IsResult(looper[i], u)
        BY <1>0, <3>2, <3>4 DEF OneResult
      <4>2. \A i \in 1..Len(looper') : ~IsResult(looper'[i], u)
        BY <3>1, <4>1 DEF IsResult
      <4> QED BY <2>1, <3>2, <4>1, <4>2 DEF OneResult
    <3>5. ASSUME cancelled[u] PROVE OneResult(u)'
      BY <2>1, <3>5 DEF OneResult
    <3> QED BY <3>3, <3>4, <3>5
  <2> QED BY <2>5, <2>6
<1>5. ASSUME NEW t \in Tasks, BodyReturns(t) PROVE OneResult(u)' /\ CalledBack(u)'
  <2>1. UNCHANGED <<invoked, cancelled, looper, uiCall, uiTask, delivered>> /\ worker[t] = "body"
    BY <1>5 DEF BodyReturns, Goto
  <2>2. u # t => worker'[u] = worker[u]
    BY <1>5 DEF BodyReturns, Goto, TypeOK
  <2>3. Over(u) => Over(u)'
    BY <2>1, <2>2 DEF Over
  <2> QED BY <1>0, <2>1, <2>3, Frame
<1>6. ASSUME NEW t \in Tasks, BodyThrows(t) PROVE OneResult(u)' /\ CalledBack(u)'
  <2>1. UNCHANGED <<invoked, looper, uiCall, uiTask, delivered>> /\ worker[t] = "body"
    BY <1>6 DEF BodyThrows, Goto
  <2>2. (u # t => worker'[u] = worker[u]) /\ (cancelled[u] => cancelled'[u])
    BY <1>6 DEF BodyThrows, Goto, TypeOK
  <2>3. Over(u) => Over(u)'
    BY <2>1, <2>2 DEF Over
  <2> QED BY <1>0, <2>1, <2>2, <2>3, Frame
<1>7. ASSUME NEW t \in Tasks, PostResult(t) PROVE OneResult(u)' /\ CalledBack(u)'
  <2> DEFINE m == resultMessage(t)
  <2>1. /\ UNCHANGED <<invoked, cancelled, uiCall, uiTask, delivered>> /\ worker[t] = "result"
        /\ looper' = Append(looper, m)
    BY <1>7 DEF PostResult, postResult, Goto
  <2>2. (u # t => worker'[u] = worker[u]) /\ worker'[t] = "posted"
    BY <1>7 DEF PostResult, Goto, TypeOK
  <2>3. Over(u) => Over(u)'
    BY <2>1, <2>2 DEF Over
  <2>4. m \in Message /\ m.task = t /\ m.what = "result"
    BY Messages, 0 \in Nat
  <2> HIDE DEF m
  <2>5. CASE u # t
    BY <1>0, <2>1, <2>3, <2>4, <2>5, OtherPost
  <2>6. CASE u = t
    <3>1. /\ Len(looper) \in Nat /\ Len(looper') = Len(looper) + 1
          /\ \A i \in 1..Len(looper) : looper'[i] = looper[i]
          /\ looper'[Len(looper) + 1].task = t /\ looper'[Len(looper) + 1].what = "result"
      BY <1>0, <2>1, <2>4, Post
    <3>2. ~Over(u) /\ ~(delivered[u] > 0) /\ ~Calling(u) /\ Over(u)'
      BY <1>0, <2>1, <2>2, <2>6 DEF CalledBack, Over, Pace
    <3>3. delivered[u] = 0
      BY <1>0, <3>2 DEF TypeOK
    <3>4. CalledBack(u)'
      BY <1>0, <2>1, <3>2, <3>3 DEF CalledBack, Calling
    <3>5. ASSUME ~cancelled[u]
          PROVE  /\ ~(uiCall # "none" /\ uiTask = u)
                 /\ \A i \in 1..Len(looper) : ~IsResult(looper[i], u)
      BY <1>0, <3>2, <3>5 DEF OneResult
    <3>6. ASSUME ~cancelled[u], NEW i \in 1..Len(looper'), IsResult(looper'[i], u)
          PROVE  i = Len(looper')
      BY <3>1, <3>5, <3>6 DEF IsResult
    <3>7. OneResult(u)'
      BY <2>1, <3>1, <3>2, <3>3, <3>5, <3>6 DEF OneResult
    <3> QED BY <3>4, <3>7
  <2> QED BY <2>5, <2>6
<1>8. ASSUME NEW t \in Tasks, SetResult(t) PROVE OneResult(u)' /\ CalledBack(u)'
  <2>1. UNCHANGED <<invoked, cancelled, uiCall, uiTask, delivered>> /\ worker[t] = "posted"
    BY <1>8 DEF SetResult, Goto
  <2>2. invoked[t]
    BY <2>1 DEF Pace
  <2>3. looper' = looper
    BY <1>8, <2>2 DEF SetResult, postResultIfNotInvoked
  <2>4. (u # t => worker'[u] = worker[u]) /\ worker'[t] = "ended"
    BY <1>8 DEF SetResult, Goto, TypeOK
  <2>5. Over(u) => Over(u)'
    BY <2>1, <2>4 DEF Over
  <2> QED BY <1>0, <2>1, <2>3, <2>5, Frame
<1>9. ASSUME NEW t \in Tasks, Cancel(t) PROVE OneResult(u)' /\ CalledBack(u)'
  <2>1. UNCHANGED <<worker, invoked, looper, uiCall, uiTask, delivered>>
    BY <1>9 DEF Cancel
  <2>2. cancelled[u] => cancelled'[u]
    BY <1>9 DEF Cancel, Flag, TypeOK
  <2>3. Over(u) => Over(u)'
    BY <2>1 DEF Over
  <2> QED BY <1>0, <2>1, <2>2, <2>3, Frame
<1>10. ASSUME NEW t \in Tasks, CancelFuture(t) PROVE OneResult(u)' /\ CalledBack(u)'
  <2>1. UNCHANGED <<worker, invoked, cancelled, looper, uiCall, uiTask, delivered>>
    BY <1>10 DEF CancelFuture
  <2>2. Over(u) => Over(u)'
    BY <2>1 DEF Over
  <2> QED BY <1>0, <2>1, <2>2, Frame
<1>11. ASSUME NEW t \in Tasks, CancelDone(t) PROVE OneResult(u)' /\ CalledBack(u)'
  <2>1. UNCHANGED <<worker, invoked, cancelled, uiCall, uiTask, delivered>> /\ canceller[t] = "done"
    BY <1>11 DEF CancelDone
  <2>2. Over(u) => Over(u)'
    BY <2>1 DEF Over
  <2>3. cancelled[t]
    BY <2>1 DEF Pace
  <2>4. CASE invoked[t]
    BY <1>0, <1>11, <2>1, <2>2, <2>4, Frame DEF CancelDone, postResultIfNotInvoked
  <2>5. CASE ~invoked[t]
    <3>1. looper' = Append(looper, resultMessage(t))
      BY <1>11, <2>5 DEF CancelDone, postResultIfNotInvoked, postResult
    <3>2. CASE u # t
      <4>1. resultMessage(t) \in Message /\ resultMessage(t).task = t
        BY Messages, 0 \in Nat
      <4> QED BY <1>0, <2>1, <2>2, <3>1, <3>2, <4>1, OtherPost
    <3>3. CASE u = t
      <4>1. ~(delivered[u] > 0) /\ delivered[u] <= 1 /\ ~Calling(u) /\ cancelled[u]
        BY <1>0, <2>3, <2>5, <3>3 DEF CalledBack, Over
      <4> QED BY <2>1, <4>1 DEF OneResult, CalledBack, Calling
    <3> QED BY <3>2, <3>3
  <2> QED BY <2>4, <2>5
<1>12. ASSUME NEW t \in Tasks, Gc(t) PROVE OneResult(u)' /\ CalledBack(u)'
  <2>1. UNCHANGED <<worker, invoked, looper, uiCall, uiTask, delivered>>
    BY <1>12 DEF Gc
  <2>2. cancelled[u] => cancelled'[u]
    BY <1>12 DEF Gc, Flag, TypeOK
  <2>3. Over(u) => Over(u)'
    BY <2>1 DEF Over
  <2> QED BY <1>0, <2>1, <2>2, <2>3, Frame
<1>13. CASE HandleProgress
  <2>1. /\ UNCHANGED <<worker, invoked, cancelled, uiCall, uiTask, delivered>>
        /\ looper # <<>> /\ looper' = Tail(looper)
    BY <1>13 DEF HandleProgress
  <2>2. Over(u) => Over(u)'
    BY <2>1 DEF Over
  <2> QED BY <1>0, <2>1, <2>2, OtherTail
<1>14. CASE HandleResult
  <2>1. /\ UNCHANGED <<worker, invoked, cancelled, delivered>>
        /\ uiCall = "none" /\ looper # <<>> /\ looper' = Tail(looper)
        /\ uiTask' = Head(looper).task /\ Head(looper).what = "result"
    BY <1>14 DEF HandleResult
  <2>2. Over(u) <=> Over(u)'
    BY <2>1 DEF Over
  <2>3. /\ Len(looper) \in Nat \ {0} /\ Head(looper) = looper[1]
        /\ Len(looper') = Len(looper) - 1
        /\ \A i \in 1..Len(looper) - 1 : looper'[i] = looper[i + 1]
    BY <1>0, <2>1, TailMessage
  <2>4. \A i \in 1..Len(looper') : i + 1 \in 1..Len(looper) /\ i + 1 > 1 /\ looper'[i] = looper[i + 1]
    BY <2>3
  <2>5. CalledBack(u)'
    <3>1. ~Calling(u)'
      BY <1>14 DEF HandleResult, Calling
    <3> QED BY <1>0, <2>1, <2>2, <2>4, <3>1 DEF CalledBack
  <2>6. ASSUME ~cancelled[u] PROVE OneResult(u)'
    <3>1. CASE uiTask' = u
      <4>1. IsResult(looper[1], u) /\ 1 \in 1..Len(looper)
        BY <2>1, <2>3, <3>1 DEF IsResult
      <4>2. Over(u) /\ delivered[u] = 0 /\ \A j \in 1..Len(looper) : j > 1 => looper[j].task # u
        BY <1>0, <2>6, <4>1 DEF OneResult
      <4>3. \A i \in 1..Len(looper') : looper'[i].task # u
        BY <2>4, <4>2
      <4> QED BY <2>1, <2>2, <4>2, <4>3 DEF OneResult, IsResult
    <3>2. CASE uiTask' # u
      BY <1>0, <2>1, <2>2, <2>3, <2>4, <2>6, <3>2 DEF OneResult, IsResult
    <3> QED BY <3>1, <3>2
  <2>7. ASSUME cancelled[u] PROVE OneResult(u)'
    BY <2>1, <2>7 DEF OneResult
  <2> QED BY <2>5, <2>6, <2>7
<1>15. CASE OnCancelled \/ Callback
  <2>1. /\ UNCHANGED <<worker, invoked, cancelled, looper>>
        /\ uiCall # "none" /\ uiCall' = "none" /\ ~Calling(u)'
    BY <1>15 DEF OnCancelled, Callback, Finished, Calling
  <2>2. Over(u) <=> Over(u)'
    BY <2>1 DEF Over
  <2>3. CASE delivered'[u] = delivered[u]
    BY <1>0, <2>1, <2>2, <2>3 DEF OneResult, CalledBack
  <2>4. CASE delivered'[u] # delivered[u]
    <3>1. Calling(u) /\ delivered'[u] = delivered[u] + 1
      BY <1>15, <2>4 DEF OnCancelled, Callback, Calling, TypeOK
    <3>2. Over(u) /\ delivered[u] = 0 /\ delivered'[u] = 1
      BY <1>0, <3>1 DEF CalledBack
    <3>3. CalledBack(u)'
      BY <1>0, <2>1, <2>2, <3>1, <3>2 DEF CalledBack
    <3>4. ~cancelled[u] => \A i \in 1..Len(looper) : looper[i].task # u
      BY <1>0, <2>1, <3>1 DEF OneResult, Calling
    <3>5. OneResult(u)'
      BY <2>1, <2>2, <3>2, <3>4 DEF OneResult, IsResult
    <3> QED BY <3>3, <3>5
  <2> QED BY <2>3, <2>4
<1>18. CASE OnPostExecute
  <2>1. UNCHANGED <<worker, invoked, cancelled, looper, delivered>> /\ uiCall = "onPostExecute"
    BY <1>18 DEF OnPostExecute
  <2>2. Over(u) <=> Over(u)'
    BY <2>1 DEF Over
  <2>3. CASE uiCall' = "none"
    BY <1>0, <2>1, <2>2, <2>3 DEF OneResult, CalledBack, Calling
  <2>4. CASE uiCall' # "none"
    <3>1. ~cancelled[uiTask] /\ uiCall' = "callback" /\ uiTask' = uiTask
      BY <1>18, <2>4 DEF OnPostExecute, Finished
    <3>2. OneResult(u)'
      BY <1>0, <2>1, <2>2, <3>1 DEF OneResult
    <3>3. CASE uiTask = u
      <4>1. /\ Over(u) /\ delivered[u] = 0
            /\ \A i \in 1..Len(looper) : looper[i].task # u
        BY <1>0, <2>1, <3>1, <3>3 DEF OneResult
      <4> QED BY <2>1, <2>2, <3>2, <4>1 DEF CalledBack
    <3>4. CASE uiTask # u
      BY <1>0, <2>1, <2>2, <3>1, <3>2, <3>4 DEF CalledBack, Calling
    <3> QED BY <3>3, <3>4
  <2> QED BY <2>3, <2>4
<1>16. CASE UNCHANGED vars
  <2>1. /\ UNCHANGED <<worker, invoked, cancelled, looper, uiCall, uiTask, delivered>>
    BY <1>16 DEF vars
  <2>2. Over(u) => Over(u)'
    BY <2>1 DEF Over
  <2> QED BY <1>0, <2>1, <2>2, Frame
<1> QED
  BY <1>1, <1>2, <1>3, <1>4, <1>5, <1>6, <1>7, <1>8, <1>9, <1>10, <1>11, <1>12, <1>13,
     <1>14, <1>15, <1>16, <1>17, <1>18
     DEF Next, PoolThread, CancelStep, MainLooper

\* Between the second test and the call of mCallback gc() cannot come in, and the body
\* is over.
LEMMA AnsweredStep ==
  TypeOK /\ Pace /\ Told /\ Answered /\ [Next]_vars => Answered'
<1> SUFFICES ASSUME TypeOK, Pace, Told, Answered, [Next]_vars, NEW u \in Tasks, Calling(u)'
             PROVE  ~failed'[u] /\ u \notin stopped'
  BY DEF Answered
<1> USE DEF task, ui, history, vars
<1>1. CASE OnPostExecute
  <2>1. ~cancelled[u] /\ UNCHANGED <<failed, stopped>>
    BY <1>1 DEF OnPostExecute, Finished, Calling
  <2> QED BY <2>1 DEF Pace
<1>2. CASE ~OnPostExecute
  <2>1. Calling(u) /\ UNCHANGED <<uiCall, uiTask>>
    BY <1>2 DEF Next, PoolThread, CancelStep, MainLooper, Execute, Start, Invoke, Publish,
           SendProgress, BodyReturns, BodyThrows, PostResult, SetResult, Cancel, CancelFuture,
           CancelDone, Gc, HandleProgress, HandleResult, OnCancelled, Callback, Finished, Calling
  <2>2. ~failed[u] /\ u \notin stopped /\ Over(u)
    BY <2>1 DEF Answered, Told, CalledBack
  <2>3. ASSUME NEW t \in Tasks, BodyThrows(t) PROVE ~failed'[u] /\ u \notin stopped'
    <3>1. u # t
      BY <2>2, <2>3 DEF BodyThrows, Goto, Over
    <3> QED BY <2>2, <2>3, <3>1 DEF BodyThrows, TypeOK
  <2>4. CASE ~\E t \in Tasks : BodyThrows(t)
    <3>1. UNCHANGED <<failed, stopped>>
      BY <1>2, <2>1, <2>4 DEF Next, PoolThread, CancelStep, MainLooper, Execute, Start, Invoke,
             Publish, SendProgress, BodyReturns, PostResult, SetResult, Cancel, CancelFuture,
             CancelDone, Gc, HandleProgress, HandleResult, OnCancelled, Callback, Calling
    <3> QED BY <2>2, <3>1
  <2> QED BY <2>3, <2>4
<1> QED BY <1>1, <1>2

\* The values that reach the function update were published.
LEMMA ValuesStep == TypeOK /\ Values /\ [Next]_vars => Values'
<1> SUFFICES ASSUME TypeOK, Values, [Next]_vars PROVE Values'
  OBVIOUS
<1> USE DEF task, ui, history, vars
<1>0. looper \in Seq(Message) /\ \A t \in Tasks : published[t] \in Nat /\ updated[t] \in Nat
  BY AsyncAssumption DEF TypeOK
<1>1. ASSUME NEW t \in Tasks, Publish(t) PROVE Values'
  <2>1. /\ UNCHANGED <<looper, updated>>
        /\ \A u \in Tasks : published'[u] >= published[u] /\ published'[u] \in Nat
    <3>1. /\ looper' = looper /\ updated' = updated
          /\ published' = [published EXCEPT ![t] = published[t] + 1]
      BY <1>1 DEF Publish
    <3>2. \A u \in Tasks : published'[u] = IF u = t THEN published[u] + 1 ELSE published[u]
      BY <3>1 DEF TypeOK
    <3> QED BY <1>0, <3>1, <3>2
  <2>2. \A i \in 1..Len(looper) : looper[i].task \in Tasks /\ looper[i].value \in Nat
    <3>1. \A i \in 1..Len(looper) : looper[i] \in Message
      BY <1>0
    <3> QED BY <3>1 DEF Message
  <2> QED BY <1>0, <2>1, <2>2 DEF Values
<1>2. ASSUME NEW m \in Message, looper' = Append(looper, m), UNCHANGED <<updated, published>>,
             m.what = "progress" => m.value <= published[m.task]
      PROVE Values'
  <2>1. /\ Len(looper) \in Nat /\ Len(looper') = Len(looper) + 1
        /\ \A i \in 1..Len(looper) : looper'[i] = looper[i]
        /\ looper'[Len(looper) + 1] = m
    BY <1>0, <1>2, Post
  <2> QED BY <1>2, <2>1 DEF Values
<1>3. ASSUME looper # <<>>, looper' = Tail(looper), UNCHANGED published,
             \A t \in Tasks : updated'[t] = updated[t]
                               \/ /\ Head(looper).what = "progress" /\ t = Head(looper).task
                                  /\ updated'[t] = Head(looper).value
      PROVE Values'
  <2>1. /\ Len(looper) \in Nat \ {0} /\ Len(looper') = Len(looper) - 1
        /\ Head(looper) = looper[1]
        /\ \A i \in 1..Len(looper) - 1 : looper'[i] = looper[i + 1]
    BY <1>0, <1>3, TailMessage
  <2>2. \A i \in 1..Len(looper') : i + 1 \in 1..Len(looper) /\ looper'[i] = looper[i + 1]
    BY <2>1
  <2>3. \A t \in Tasks : updated'[t] <= published[t]
    <3>1. 1 \in 1..Len(looper)
      BY <2>1
    <3> QED BY <1>3, <2>1, <3>1 DEF Values
  <2> QED BY <1>3, <2>2, <2>3 DEF Values
<1>4. ASSUME UNCHANGED <<looper, updated, published>> PROVE Values'
  BY <1>4 DEF Values
<1>5. ASSUME NEW t \in Tasks, SendProgress(t) PROVE Values'
  <2>1. /\ progressMessage(t, published[t]) \in Message
        /\ progressMessage(t, published[t]).task = t
        /\ progressMessage(t, published[t]).value = published[t]
    BY <1>0, Messages
  <2> QED BY <1>0, <1>2, <1>5, <2>1 DEF SendProgress
<1>6. ASSUME NEW t \in Tasks, PostResult(t) \/ SetResult(t) \/ CancelDone(t) PROVE Values'
  <2>1. resultMessage(t) \in Message /\ resultMessage(t).what = "result"
    BY Messages, 0 \in Nat
  <2>2. /\ UNCHANGED <<updated, published>>
        /\ looper' = looper \/ looper' = Append(looper, resultMessage(t))
    BY <1>6 DEF PostResult, SetResult, CancelDone, postResultIfNotInvoked, postResult
  <2> QED BY <1>2, <1>4, <2>1, <2>2
<1>7. CASE HandleProgress \/ HandleResult
  <2>1. looper # <<>> /\ looper' = Tail(looper) /\ UNCHANGED published
    BY <1>7 DEF HandleProgress, HandleResult
  <2>2. CASE HandleProgress
    BY <1>3, <2>1, <2>2 DEF HandleProgress, TypeOK
  <2>3. CASE HandleResult
    BY <1>3, <2>1, <2>3 DEF HandleResult
  <2> QED BY <1>7, <2>2, <2>3
<1> QED
  BY <1>1, <1>4, <1>5, <1>6, <1>7
     DEF Next, PoolThread, CancelStep, MainLooper, Execute, Start, Invoke, BodyReturns,
         BodyThrows, Cancel, CancelFuture, Gc, OnCancelled, OnPostExecute, Callback

\* The inductive invariant.
LEMMA NextIInv == IInv /\ [Next]_vars => IInv'
  BY TypeStep, PaceStep, PostedStep, ToldStep, AnsweredStep, ValuesStep DEF IInv

LEMMA Inductive == Spec => []IInv
  BY InitIInv, NextIInv, PTL DEF Spec

\* Every variable keeps its type, whatever the number of tasks and the size of the pool.
THEOREM TypeCorrect == Spec => []TypeOK
<1>1. IInv => TypeOK
  BY DEF IInv
<1> QED BY Inductive, <1>1, PTL

\* A settled future that nobody is working on has posted a result: whichever of the
\* pool thread and the cancelling thread comes last (AsyncTaskX.mWorker, mFuture.done).
THEOREM SettledTellsResult == Spec => []SettledHasResult
<1>1. IInv => SettledHasResult
  BY DEF IInv, TypeOK, Pace, Posted, SettledHasResult, OnThread, InBody, Over
<1> QED BY Inductive, <1>1, PTL

\* The Lua callback runs once although a task can post two results
\* (LuaAsyncTask.onPostExecute behind AsyncTaskX.finish).
THEOREM CalledBackOnce == Spec => []CallbackOnce
<1>1. IInv => CallbackOnce
  BY DEF IInv, Told, CalledBack, CallbackOnce
<1> QED BY Inductive, <1>1, PTL

\* When the callback has run no progress of the task is left in the queue.
THEOREM ProgressComesFirst == Spec => []ProgressBeforeCallback
<1>1. IInv => ProgressBeforeCallback
  <2> SUFFICES ASSUME IInv, NEW t \in Tasks, delivered[t] > 0,
                      NEW i \in 1..Len(looper), looper[i].task = t
               PROVE  looper[i].what # "progress"
    BY DEF ProgressBeforeCallback
  <2>1. looper[i].what = "result"
    BY DEF IInv, Told, CalledBack
  <2> QED BY <2>1
<1> QED BY Inductive, <1>1, PTL

\* Only Callback delivers, for the task it was to be called for.
LEMMA DeliveryStep ==
  ASSUME TypeOK, [Next]_vars, NEW t \in Tasks, delivered'[t] # delivered[t]
  PROVE  Calling(t)
<1>1. Callback
  BY DEF Next, PoolThread, CancelStep, MainLooper, Execute, Start, Invoke, Publish, SendProgress,
         BodyReturns, BodyThrows, PostResult, SetResult, Cancel, CancelFuture, CancelDone, Gc,
         HandleProgress, HandleResult, OnCancelled, OnPostExecute, history, vars
<1> QED BY <1>1 DEF Callback, TypeOK, Calling

\* The callback comes after a body that returned.
THEOREM BodyComesFirst == Spec => CallbackAfterBody
<1>1. IInv /\ [Next]_vars => \A t \in Tasks : delivered'[t] # delivered[t] =>
          worker[t] \in {"posted", "ended"} /\ invoked[t] /\ ~failed[t]
  <2> SUFFICES ASSUME IInv, [Next]_vars, NEW t \in Tasks, delivered'[t] # delivered[t]
               PROVE  Over(t) /\ ~failed[t]
    BY DEF Over
  <2>1. Calling(t)
    BY DeliveryStep DEF IInv
  <2> QED BY <2>1 DEF IInv, Told, CalledBack, Answered
<1> QED BY Inductive, <1>1, PTL DEF Spec, CallbackAfterBody

\* What LuaAsyncTask.gc cuts off when the activity of a RUNNING task is destroyed: the
\* result and all progress still to be published; what had been published arrives.
THEOREM GcCutsOff == Spec => NothingNewAfterGc
<1>1. IInv /\ [Next]_vars =>
        [\A t \in stopped :
             delivered'[t] = delivered[t] /\ published'[t] = published[t]
              /\ updated'[t] <= published[t]]_vars
  <2> SUFFICES ASSUME IInv, [Next]_vars, NEW t \in stopped
               PROVE  /\ delivered'[t] = delivered[t]
                      /\ published'[t] = published[t]
                      /\ updated'[t] <= published[t]
    OBVIOUS
  <2>1. t \in Tasks /\ cancelled[t]
    BY DEF IInv, TypeOK, Pace
  <2>2. delivered'[t] = delivered[t]
    BY <2>1, DeliveryStep DEF IInv, Answered
  <2>3. published'[t] = published[t]
    <3>1. ~Publish(t)
      BY <2>1 DEF Publish
    <3>2. ASSUME NEW u \in Tasks, Publish(u) PROVE published'[t] = published[t]
      BY <2>1, <3>1, <3>2 DEF Publish, IInv, TypeOK
    <3>3. CASE ~\E u \in Tasks : Publish(u)
      BY <3>3 DEF Next, PoolThread, CancelStep, MainLooper, Execute, Start, Invoke, SendProgress,
             BodyReturns, BodyThrows, PostResult, SetResult, Cancel, CancelFuture, CancelDone, Gc,
             HandleProgress, HandleResult, OnCancelled, OnPostExecute, Callback, vars
    <3> QED BY <3>2, <3>3
  <2>4. updated'[t] <= published[t]
    BY <2>1, <2>3, NextIInv DEF IInv, Values
  <2> QED BY <2>2, <2>3, <2>4
<1> QED BY Inductive, <1>1, PTL DEF Spec, NothingNewAfterGc
=============================================================================
