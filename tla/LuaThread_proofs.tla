-------------------------- MODULE LuaThread_proofs ---------------------------
(***************************************************************************)
(* Theorems about LuaThread, for any set of callers and messages: the      *)
(* types, the meaning of isRun, that no message goes missing, and that the *)
(* thread implements Mailbox.                                              *)
(***************************************************************************)
EXTENDS LuaThread, Integers, SequenceTheorems, TLAPS

(***************************************************************************)
(* A sequence of posted items is split into the ones that were taken and   *)
(* the ones that still wait in a queue.                                    *)
(***************************************************************************)

\* p was posted: s has been taken and q waits.
Split(p, s, q) == p = s \o q

\* An item put at the end of the queue is the last one posted.
LEMMA PutAtEnd == ASSUME NEW S, NEW s \in Seq(S), NEW q \in Seq(S), NEW e \in S, NEW p, Split(p, s, q)
                  PROVE  Split(Append(p, e), s, Append(q, e))
<1>1. s \o q \in Seq(S) /\ <<e>> \in Seq(S)
  BY ConcatProperties
<1>2. Append(s \o q, e) = (s \o q) \o <<e>>
  BY <1>1, AppendIsConcat
<1>3. (s \o q) \o <<e>> = s \o (q \o <<e>>)
  BY <1>1, ConcatAssociative
<1>4. q \o <<e>> = Append(q, e)
  BY AppendIsConcat
<1>5. Append(s \o q, e) = s \o Append(q, e)
  BY <1>2, <1>3, <1>4
<1> QED BY <1>5 DEF Split

\* Taking the head of the queue leaves what was posted as it is.
LEMMA TakeHead == ASSUME NEW S, NEW s \in Seq(S), NEW q \in Seq(S), q # <<>>
                  PROVE  /\ Append(s, Head(q)) \o Tail(q) = s \o q
                         /\ Len(s) < Len(s \o q)
                         /\ (s \o q)[Len(s) + 1] = Head(q)
<1>1. /\ Head(q) \in S /\ Tail(q) \in Seq(S)
      /\ Len(Tail(q)) = Len(q) - 1
      /\ \A i \in 1..Len(Tail(q)) : Tail(q)[i] = q[i + 1]
      /\ Head(q) = q[1]
  BY HeadTailProperties
<1>2. Len(s) \in Nat /\ Len(q) \in Nat \ {0}
  BY EmptySeq, LenProperties
<1>3. /\ s \o q \in Seq(S)
      /\ Len(s \o q) = Len(s) + Len(q)
      /\ \A i \in 1..Len(s) + Len(q) : (s \o q)[i] = IF i <= Len(s) THEN s[i] ELSE q[i - Len(s)]
  BY ConcatProperties
<1> DEFINE a == Append(s, Head(q))
<1>4. /\ a \in Seq(S) /\ Len(a) = Len(s) + 1
      /\ \A i \in 1..Len(s) : a[i] = s[i]
      /\ a[Len(s) + 1] = Head(q)
  BY <1>1, AppendProperties
<1>5. /\ a \o Tail(q) \in Seq(S)
      /\ Len(a \o Tail(q)) = Len(a) + Len(Tail(q))
      /\ \A i \in 1..Len(a) + Len(Tail(q)) :
            (a \o Tail(q))[i] = IF i <= Len(a) THEN a[i] ELSE Tail(q)[i - Len(a)]
  BY <1>1, <1>4, ConcatProperties
<1>6. Len(a \o Tail(q)) = Len(s \o q)
  BY <1>1, <1>2, <1>3, <1>4, <1>5
<1>7. \A i \in 1..Len(a \o Tail(q)) : (a \o Tail(q))[i] = (s \o q)[i]
  <2> SUFFICES ASSUME NEW i \in 1..Len(s) + Len(q)
               PROVE  (a \o Tail(q))[i] = (s \o q)[i]
    BY <1>3, <1>6
  <2> HIDE DEF a
  <2>0. i \in Int
    BY <1>2
  <2>1. CASE i <= Len(s)
    BY <2>1, <1>1, <1>2, <1>3, <1>4, <1>5
  <2>2. CASE i = Len(s) + 1
    BY <2>2, <1>1, <1>2, <1>3, <1>4, <1>5
  <2>3. CASE i > Len(s) + 1
    <3>1. i - Len(a) \in 1..Len(Tail(q)) /\ (i - Len(a)) + 1 = i - Len(s)
      BY <2>3, <1>1, <1>2, <1>4
    <3>2. (a \o Tail(q))[i] = Tail(q)[i - Len(a)]
      BY <2>3, <1>1, <1>2, <1>4, <1>5
    <3>3. Tail(q)[i - Len(a)] = q[i - Len(s)]
      BY <3>1, <1>1
    <3>4. ~(i <= Len(s))
      BY <2>0, <2>3, <1>2
    <3>5. (s \o q)[i] = q[i - Len(s)]
      BY <3>4, <1>3
    <3> QED BY <3>2, <3>3, <3>5
  <2>4. i <= Len(s) \/ i = Len(s) + 1 \/ i > Len(s) + 1
    BY <2>0, <1>2
  <2> QED BY <2>1, <2>2, <2>3, <2>4
<1>8. a \o Tail(q) = s \o q
  BY <1>3, <1>5, <1>6, <1>7, SeqEqual
<1>9. Len(s) < Len(s \o q)
  BY <1>2, <1>3
<1>10. (s \o q)[Len(s) + 1] = Head(q)
  BY <1>1, <1>2, <1>3
<1> QED BY <1>8, <1>9, <1>10

\* A Looper that has quit has an empty queue and is seen by nobody as running;
\* a message in hand is the last one taken.
Closed == quitting => queue = <<>>

InHand == pc = "handling" => taken # <<>>

IInv == TypeOK /\ IsRunTells /\ NothingMissing /\ Closed /\ InHand

LEMMA InitIInv == Init => IInv
<1> SUFFICES ASSUME Init PROVE IInv
  OBVIOUS
<1>1. <<>> \in Seq(Messages)
  BY EmptySeq
<1>2. TypeOK
  BY <1>1 DEF Init, TypeOK, Serving
<1>3. posted = taken \o queue
  BY <1>1, ConcatEmptySeq DEF Init
<1> QED BY <1>2, <1>3 DEF Init, IInv, IsRunTells, NothingMissing, Closed, InHand

LEMMA StepTypeOK == TypeOK /\ [Next]_vars => TypeOK'
<1> SUFFICES ASSUME TypeOK, [Next]_vars PROVE TypeOK'
  OBVIOUS
<1> USE DEF TypeOK, Serving, Goto, Move, CloseLooper, looper, calls, history
<1>0. <<>> \in Seq(Messages)
  BY EmptySeq
<1>1. CASE Thread
  <2>1. CASE Start BY <2>1 DEF Start
  <2>2. CASE ScriptEnds BY <2>2 DEF ScriptEnds
  <2>3. CASE ShowHandler BY <2>3 DEF ShowHandler
  <2>4. CASE ShowRunning BY <2>4 DEF ShowRunning
  <2>5. CASE RunReturns BY <2>5 DEF RunReturns
  <2>6. CASE Dispatch
    <3>1. queue' \in Seq(Messages) /\ Head(queue) \in Messages
      BY <2>6, HeadTailProperties DEF Dispatch
    <3>2. taken' \in Seq(Messages)
      BY <2>6, <3>1, AppendProperties DEF Dispatch
    <3> QED BY <2>6, <3>1, <3>2 DEF Dispatch
  <2>7. CASE LoopReturns BY <2>7 DEF LoopReturns
  <2>8. CASE HandleReturns BY <2>8 DEF HandleReturns
  <2>9. CASE HandleFails BY <2>9 DEF HandleFails
  <2>10. CASE QuitItself BY <2>10, <1>0 DEF QuitItself
  <2>11. CASE RunEnds BY <2>11 DEF RunEnds
  <2> QED BY <1>1, <2>1, <2>2, <2>3, <2>4, <2>5, <2>6, <2>7, <2>8, <2>9, <2>10, <2>11 DEF Thread
<1>2. ASSUME NEW m \in Messages, PushRefused(m) PROVE TypeOK'
  BY <1>2 DEF PushRefused
<1>3. ASSUME NEW m \in Messages, NEW c \in Callers, PushBegins(c, m) PROVE TypeOK'
  BY <1>3 DEF PushBegins
<1>4. ASSUME NEW how \in Calls, QuitIgnored(how) PROVE TypeOK'
  <2>1. mGc' \in BOOLEAN /\ asked' \in BOOLEAN
    BY <1>4 DEF QuitIgnored
  <2> QED BY <1>4, <2>1 DEF QuitIgnored
<1>5. ASSUME NEW how \in Calls, NEW c \in Callers, QuitBegins(c, how) PROVE TypeOK'
  <2>1. asked' \in BOOLEAN
    BY <1>5 DEF QuitBegins
  <2>2. at' \in [Callers -> {"idle", "push", "quit", "gc", "crashed"}]
    BY <1>5 DEF QuitBegins, Calls
  <2> QED BY <1>5, <2>1, <2>2 DEF QuitBegins
<1>6. ASSUME NEW c \in Callers, CallEnds(c) PROVE TypeOK'
  <2>1. CASE Send(c)
    <3>1. queue' \in Seq(Messages) /\ posted' \in Seq(Messages)
      BY <2>1, AppendProperties DEF Send
    <3> QED BY <2>1, <3>1 DEF Send
  <2>2. CASE SendInVain(c) BY <2>2 DEF SendInVain
  <2>3. ASSUME NEW how \in Calls, QuitLooper(c, how) PROVE TypeOK'
    <3>1. mGc' \in BOOLEAN
      BY <2>3 DEF QuitLooper
    <3> QED BY <2>3, <3>1, <1>0 DEF QuitLooper
  <2>4. ASSUME NEW how \in Calls, QuitCrashes(c, how) PROVE TypeOK'
    BY <2>4 DEF QuitCrashes
  <2> QED BY <1>6, <2>1, <2>2, <2>3, <2>4 DEF CallEnds
<1>7. CASE UNCHANGED vars BY <1>7 DEF vars
<1> QED BY <1>1, <1>2, <1>3, <1>4, <1>5, <1>6, <1>7 DEF Next

\* isRun keeps its meaning: whoever clears it is on the way to close the Looper.
LEMMA StepIsRunTells == TypeOK /\ IsRunTells /\ [Next]_vars => IsRunTells'
<1> SUFFICES ASSUME TypeOK, IsRunTells, [Next]_vars PROVE IsRunTells'
  OBVIOUS
<1> USE DEF TypeOK, IsRunTells, Serving, Goto, CloseLooper, looper, calls, history, Calls
<1>1. CASE Thread
  BY <1>1 DEF Thread, Start, ScriptEnds, ShowHandler, ShowRunning, RunReturns, Dispatch,
              LoopReturns, HandleReturns, HandleFails, QuitItself, RunEnds
<1>2. ASSUME NEW m \in Messages, PushRefused(m) PROVE IsRunTells'
  BY <1>2 DEF PushRefused
<1>3. ASSUME NEW m \in Messages, NEW c \in Callers, PushBegins(c, m) PROVE IsRunTells'
  BY <1>3 DEF PushBegins, Move
<1>4. ASSUME NEW how \in Calls, QuitIgnored(how) PROVE IsRunTells'
  BY <1>4 DEF QuitIgnored
<1>5. ASSUME NEW how \in Calls, NEW c \in Callers, QuitBegins(c, how) PROVE IsRunTells'
  <2>1. at'[c] = how
    BY <1>5 DEF QuitBegins, Move
  <2> QED BY <1>5, <2>1 DEF QuitBegins
<1>6. ASSUME NEW c \in Callers, CallEnds(c) PROVE IsRunTells'
  <2>1. CASE Send(c)
    <3>1. \A d \in Callers : at[d] \in Calls \cup {"crashed"} => at'[d] = at[d]
      BY <2>1 DEF Send, Move
    <3> QED BY <2>1, <3>1 DEF Send
  <2>2. CASE SendInVain(c)
    <3>1. \A d \in Callers : at[d] \in Calls \cup {"crashed"} => at'[d] = at[d]
      BY <2>2 DEF SendInVain, Move
    <3> QED BY <2>2, <3>1 DEF SendInVain
  <2>3. ASSUME NEW how \in Calls, QuitLooper(c, how) PROVE IsRunTells'
    BY <2>3 DEF QuitLooper
  <2>4. ASSUME NEW how \in Calls, QuitCrashes(c, how) PROVE IsRunTells'
    <3>1. at'[c] = "crashed"
      BY <2>4 DEF QuitCrashes, Move
    <3> QED BY <2>4, <3>1 DEF QuitCrashes
  <2> QED BY <1>6, <2>1, <2>2, <2>3, <2>4 DEF CallEnds
<1>7. CASE UNCHANGED vars BY <1>7 DEF vars
<1> QED BY <1>1, <1>2, <1>3, <1>4, <1>5, <1>6, <1>7 DEF Next

\* Every step moves messages along posted, queue and taken without losing one.
LEMMA StepQueue == TypeOK /\ NothingMissing /\ Closed /\ InHand /\ [Next]_vars
                     => NothingMissing' /\ Closed' /\ InHand'
<1> SUFFICES ASSUME TypeOK, NothingMissing, Closed, InHand, [Next]_vars
             PROVE  NothingMissing' /\ Closed' /\ InHand'
  OBVIOUS
<1> USE DEF NothingMissing, Closed, InHand, Goto, CloseLooper, looper, calls, history
<1>1. CASE Thread
  <2>1. CASE Start BY <2>1 DEF Start
  <2>2. CASE ScriptEnds BY <2>2 DEF ScriptEnds
  <2>3. CASE ShowHandler BY <2>3 DEF ShowHandler
  <2>4. CASE ShowRunning BY <2>4 DEF ShowRunning
  <2>5. CASE RunReturns BY <2>5 DEF RunReturns
  <2>6. CASE Dispatch
    <3>1. taken' \o queue' = taken \o queue
      BY <2>6, TakeHead DEF Dispatch, TypeOK
    <3>2. taken' # <<>>
      <4>1. Head(queue) \in Messages
        BY <2>6, HeadTailProperties DEF Dispatch, TypeOK
      <4> QED BY <2>6, <4>1, AppendProperties DEF Dispatch, TypeOK
    <3> QED BY <2>6, <3>1, <3>2 DEF Dispatch
  <2>7. CASE LoopReturns BY <2>7 DEF LoopReturns
  <2>8. CASE HandleReturns BY <2>8 DEF HandleReturns
  <2>9. CASE HandleFails BY <2>9 DEF HandleFails
  <2>10. CASE QuitItself BY <2>10 DEF QuitItself
  <2>11. CASE RunEnds BY <2>11 DEF RunEnds
  <2> QED BY <1>1, <2>1, <2>2, <2>3, <2>4, <2>5, <2>6, <2>7, <2>8, <2>9, <2>10, <2>11 DEF Thread
<1>2. ASSUME NEW m \in Messages, PushRefused(m) PROVE NothingMissing' /\ Closed' /\ InHand'
  BY <1>2 DEF PushRefused
<1>3. ASSUME NEW m \in Messages, NEW c \in Callers, PushBegins(c, m)
      PROVE NothingMissing' /\ Closed' /\ InHand'
  BY <1>3 DEF PushBegins
<1>4. ASSUME NEW how \in Calls, QuitIgnored(how) PROVE NothingMissing' /\ Closed' /\ InHand'
  BY <1>4 DEF QuitIgnored
<1>5. ASSUME NEW how \in Calls, NEW c \in Callers, QuitBegins(c, how)
      PROVE NothingMissing' /\ Closed' /\ InHand'
  BY <1>5 DEF QuitBegins
<1>6. ASSUME NEW c \in Callers, CallEnds(c) PROVE NothingMissing' /\ Closed' /\ InHand'
  <2>1. CASE Send(c)
    <3>1. queue \in Seq(Messages) /\ taken \in Seq(Messages) /\ holds[c] \in Messages
      BY DEF TypeOK
    <3>2. Split(posted, taken, queue)
      BY <2>1 DEF Send, Split
    <3>3. Split(Append(posted, holds[c]), taken, Append(queue, holds[c]))
      <4> HIDE DEF NothingMissing
      <4> QED BY <3>1, <3>2, PutAtEnd
    <3>4. posted' = taken' \o queue'
      BY <2>1, <3>3 DEF Send, Split
    <3> QED BY <2>1, <3>4 DEF Send
  <2>2. CASE SendInVain(c) BY <2>2 DEF SendInVain
  <2>3. ASSUME NEW how \in Calls, QuitLooper(c, how)
        PROVE NothingMissing' /\ Closed' /\ InHand'
    BY <2>3 DEF QuitLooper
  <2>4. ASSUME NEW how \in Calls, QuitCrashes(c, how)
        PROVE NothingMissing' /\ Closed' /\ InHand'
    BY <2>4 DEF QuitCrashes
  <2> QED BY <1>6, <2>1, <2>2, <2>3, <2>4 DEF CallEnds
<1>7. CASE UNCHANGED vars BY <1>7 DEF vars
<1> QED BY <1>1, <1>2, <1>3, <1>4, <1>5, <1>6, <1>7 DEF Next

LEMMA Inductive == Spec => []IInv
<1>1. IInv /\ [Next]_vars => IInv'
  BY StepTypeOK, StepIsRunTells, StepQueue DEF IInv
<1> QED BY InitIInv, <1>1, PTL DEF Spec

\* Every variable of LuaThread keeps its type.
THEOREM TypeCorrect == Spec => []TypeOK
<1>1. IInv => TypeOK
  BY DEF IInv
<1> QED BY <1>1, Inductive, PTL

\* While messages are served isRun is clear only because somebody is quitting,
\* whatever the order in which run() publishes its two fields.
THEOREM RunningIsTold == Spec => []IsRunTells
<1>1. IInv => IsRunTells
  BY DEF IInv
<1> QED BY <1>1, Inductive, PTL

\* As long as nobody quits, what was posted is what was taken and what waits.
THEOREM NoMessageMissing == Spec => []NothingMissing
<1>1. IInv => NothingMissing
  BY DEF IInv
<1> QED BY <1>1, Inductive, PTL

\* Each step of LuaThread is a step of Mailbox or leaves its variables alone.
LEMMA StepMailbox == IInv /\ [Next]_vars => [M!Next]_(M!vars)
<1> SUFFICES ASSUME IInv, [Next]_vars PROVE [M!Next]_(M!vars)
  OBVIOUS
<1> USE DEF Goto, CloseLooper, looper, calls, history
<1> DEFINE finished == IF pc = "handling" THEN Len(taken) - 1 ELSE Len(taken)
<1>0. queue \in Seq(Messages) /\ taken \in Seq(Messages) /\ Len(taken) \in Nat
  BY LenProperties DEF IInv, TypeOK
<1>1. CASE Thread
  <2>1. CASE Start BY <2>1 DEF Start, M!vars
  <2>2. CASE ScriptEnds BY <2>2 DEF ScriptEnds, M!vars
  <2>3. CASE ShowHandler BY <2>3 DEF ShowHandler, M!vars
  <2>4. CASE ShowRunning BY <2>4 DEF ShowRunning, M!vars
  <2>5. CASE RunReturns BY <2>5 DEF RunReturns, M!vars
  <2>6. CASE Dispatch
    <3>1. ~quitting /\ posted = taken \o queue
      BY <2>6 DEF Dispatch, IInv, Closed, NothingMissing
    <3>2. /\ Len(taken) < Len(posted)
          /\ posted[Len(taken) + 1] = Head(queue)
      BY <1>0, <2>6, <3>1, TakeHead DEF Dispatch
    <3>3. taken' = Append(taken, posted[Len(taken) + 1])
      BY <2>6, <3>2 DEF Dispatch
    <3>4. Len(taken') = Len(taken) + 1
      <4>1. Head(queue) \in Messages
        BY <1>0, <2>6, HeadTailProperties DEF Dispatch
      <4> QED BY <1>0, <2>6, <4>1, AppendProperties DEF Dispatch
    <3>5. finished = Len(taken) /\ finished' = Len(taken)
      BY <1>0, <2>6, <3>4 DEF Dispatch
    <3>6. M!Take
      BY <2>6, <3>1, <3>2, <3>3, <3>5 DEF Dispatch, M!Take
    <3> QED BY <3>6 DEF M!Next
  <2>7. CASE LoopReturns BY <2>7 DEF LoopReturns, M!vars
  <2>8. CASE HandleReturns
    <3>1. M!Finish
      BY <1>0, <2>8 DEF HandleReturns, M!Finish
    <3> QED BY <3>1 DEF M!Next
  <2>9. CASE HandleFails
    <3>1. M!Finish
      BY <1>0, <2>9 DEF HandleFails, M!Finish
    <3> QED BY <3>1 DEF M!Next
  <2>10. CASE QuitItself
    <3>1. M!Close
      BY <2>10 DEF QuitItself, M!Close
    <3> QED BY <3>1 DEF M!Next
  <2>11. CASE RunEnds BY <2>11 DEF RunEnds, M!vars
  <2> QED BY <1>1, <2>1, <2>2, <2>3, <2>4, <2>5, <2>6, <2>7, <2>8, <2>9, <2>10, <2>11 DEF Thread
<1>2. ASSUME NEW m \in Messages, PushRefused(m) PROVE [M!Next]_(M!vars)
  BY <1>2 DEF PushRefused, M!vars
<1>3. ASSUME NEW m \in Messages, NEW c \in Callers, PushBegins(c, m)
      PROVE [M!Next]_(M!vars)
  BY <1>3 DEF PushBegins, M!vars
<1>4. ASSUME NEW how \in Calls, QuitIgnored(how) PROVE [M!Next]_(M!vars)
  BY <1>4 DEF QuitIgnored, M!vars
<1>5. ASSUME NEW how \in Calls, NEW c \in Callers, QuitBegins(c, how)
      PROVE [M!Next]_(M!vars)
  BY <1>5 DEF QuitBegins, M!vars
<1>6. ASSUME NEW c \in Callers, CallEnds(c) PROVE [M!Next]_(M!vars)
  <2>1. CASE Send(c)
    <3>1. holds[c] \in Messages
      BY DEF IInv, TypeOK
    <3>2. M!Accept(holds[c])
      BY <2>1 DEF Send, M!Accept
    <3> QED BY <3>1, <3>2 DEF M!Next
  <2>2. CASE SendInVain(c) BY <2>2 DEF SendInVain, M!vars
  <2>3. ASSUME NEW how \in Calls, QuitLooper(c, how) PROVE [M!Next]_(M!vars)
    <3>1. M!Close
      BY <2>3 DEF QuitLooper, M!Close
    <3> QED BY <3>1 DEF M!Next
  <2>4. ASSUME NEW how \in Calls, QuitCrashes(c, how) PROVE [M!Next]_(M!vars)
    BY <2>4 DEF QuitCrashes, M!vars
  <2> QED BY <1>6, <2>1, <2>2, <2>3, <2>4 DEF CallEnds
<1>7. CASE UNCHANGED vars BY <1>7 DEF vars, M!vars
<1> QED BY <1>1, <1>2, <1>3, <1>4, <1>5, <1>6, <1>7 DEF Next

\* Messages are served one at a time and in order, and none after quit().
THEOREM ServesAsMailbox == Spec => ImplementsMailbox
<1>1. Init => M!Init
  BY DEF Init, M!Init
<1> QED BY <1>1, Inductive, StepMailbox, PTL DEF Spec, ImplementsMailbox, M!Spec
=============================================================================
