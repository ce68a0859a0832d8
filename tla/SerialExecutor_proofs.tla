------------------------ MODULE SerialExecutor_proofs ------------------------
(***************************************************************************)
(* Theorems about SerialExecutor, for any tasks and a pool of any size: no *)
(* task is forgotten, no wake-up is lost, and tasks run one at a time and  *)
(* in their order (Mailbox).  They need SerialAssumption.                  *)
(***************************************************************************)
EXTENDS SerialExecutor, Integers, SequenceTheorems, FiniteSetTheorems, TLAPS

(***************************************************************************)
(* A sequence of posted items is split into the ones that were taken and   *)
(* the ones that still wait in a queue.                                    *)
(***************************************************************************)

\* p was posted: s has been taken and q waits.
Split(p, s, q) == p = s \o q

\* An item put at the end of the queue is the last one posted.
LEMMA PutAtEnd == ASSUME NEW S, NEW s \in Seq(S), NEW q \in Seq(S), NEW e \in S, NEW p, Split(p, s, q)
                  PROVE  Split(Append(p, e), s, Append(q, e))
<1>1. s \o q \in Seq(S) /\ <<e>> \in Seq(S)
  BY ConcatProperties
<1>2. Append(s \o q, e) = (s \o q) \o <<e>>
  BY <1>1, AppendIsConcat
<1>3. (s \o q) \o <<e>> = s \o (q \o <<e>>)
  BY <1>1, ConcatAssociative
<1>4. q \o <<e>> = Append(q, e)
  BY AppendIsConcat
<1>5. Append(s \o q, e) = s \o Append(q, e)
  BY <1>2, <1>3, <1>4
<1> QED BY <1>5 DEF Split

\* Taking the head of the queue leaves what was posted as it is.
LEMMA TakeHead == ASSUME NEW S, NEW s \in Seq(S), NEW q \in Seq(S), q # <<>>
                  PROVE  /\ Append(s, Head(q)) \o Tail(q) = s \o q
                         /\ Len(s) < Len(s \o q)
                         /\ (s \o q)[Len(s) + 1] = Head(q)
<1>1. /\ Head(q) \in S /\ Tail(q) \in Seq(S)
      /\ Len(Tail(q)) = Len(q) - 1
      /\ \A i \in 1..Len(Tail(q)) : Tail(q)[i] = q[i + 1]
      /\ Head(q) = q[1]
  BY HeadTailProperties
<1>2. Len(s) \in Nat /\ Len(q) \in Nat \ {0}
  BY EmptySeq, LenProperties
<1>3. /\ s \o q \in Seq(S)
      /\ Len(s \o q) = Len(s) + Len(q)
      /\ \A i \in 1..Len(s) + Len(q) : (s \o q)[i] = IF i <= Len(s) THEN s[i] ELSE q[i - Len(s)]
  BY ConcatProperties
<1> DEFINE a == Append(s, Head(q))
<1>4. /\ a \in Seq(S) /\ Len(a) = Len(s) + 1
      /\ \A i \in 1..Len(s) : a[i] = s[i]
      /\ a[Len(s) + 1] = Head(q)
  BY <1>1, AppendProperties
<1>5. /\ a \o Tail(q) \in Seq(S)
      /\ Len(a \o Tail(q)) = Len(a) + Len(Tail(q))
      /\ \A i \in 1..Len(a) + Len(Tail(q)) :
            (a \o Tail(q))[i] = IF i <= Len(a) THEN a[i] ELSE Tail(q)[i - Len(a)]
  BY <1>1, <1>4, ConcatProperties
<1>6. Len(a \o Tail(q)) = Len(s \o q)
  BY <1>1, <1>2, <1>3, <1>4, <1>5
<1>7. \A i \in 1..Len(a \o Tail(q)) : (a \o Tail(q))[i] = (s \o q)[i]
  <2> SUFFICES ASSUME NEW i \in 1..Len(s) + Len(q)
               PROVE  (a \o Tail(q))[i] = (s \o q)[i]
    BY <1>3, <1>6
  <2> HIDE DEF a
  <2>0. i \in Int
    BY <1>2
  <2>1. CASE i <= Len(s)
    BY <2>1, <1>1, <1>2, <1>3, <1>4, <1>5
  <2>2. CASE i = Len(s) + 1
    BY <2>2, <1>1, <1>2, <1>3, <1>4, <1>5
  <2>3. CASE i > Len(s) + 1
    <3>1. i - Len(a) \in 1..Len(Tail(q)) /\ (i - Len(a)) + 1 = i - Len(s)
      BY <2>3, <1>1, <1>2, <1>4
    <3>2. (a \o Tail(q))[i] = Tail(q)[i - Len(a)]
      BY <2>3, <1>1, <1>2, <1>4, <1>5
    <3>3. Tail(q)[i - Len(a)] = q[i - Len(s)]
      BY <3>1, <1>1
    <3>4. ~(i <= Len(s))
      BY <2>0, <2>3, <1>2
    <3>5. (s \o q)[i] = q[i - Len(s)]
      BY <3>4, <1>3
    <3> QED BY <3>2, <3>3, <3>5
  <2>4. i <= Len(s) \/ i = Len(s) + 1 \/ i > Len(s) + 1
    BY <2>0, <1>2
  <2> QED BY <2>1, <2>2, <2>3, <2>4
<1>8. a \o Tail(q) = s \o q
  BY <1>3, <1>5, <1>6, <1>7, SeqEqual
<1>9. Len(s) < Len(s \o q)
  BY <1>2, <1>3
<1>10. (s \o q)[Len(s) + 1] = Head(q)
  BY <1>1, <1>2, <1>3
<1> QED BY <1>8, <1>9, <1>10

\* An item put before a sequence is its head, and the sequence its tail.
LEMMA ConsProperties == ASSUME NEW S, NEW q \in Seq(S), NEW e \in S
                        PROVE  /\ Cons(e, q) \in Seq(S)
                               /\ Cons(e, q) # <<>>
                               /\ Head(Cons(e, q)) = e
                               /\ Tail(Cons(e, q)) = q
<1>1. <<e>> \in Seq(S) /\ Len(<<e>>) = 1 /\ <<e>>[1] = e
  OBVIOUS
<1>2. /\ Cons(e, q) \in Seq(S)
      /\ Len(Cons(e, q)) = 1 + Len(q)
      /\ \A i \in 1..1 + Len(q) : Cons(e, q)[i] = IF i <= 1 THEN <<e>>[i] ELSE q[i - 1]
  BY <1>1, ConcatProperties DEF Cons
<1>3. Len(q) \in Nat
  BY LenProperties
<1> HIDE DEF Cons
<1>4. Cons(e, q) # <<>>
  BY <1>2, <1>3, EmptySeq
<1>5. Head(Cons(e, q)) = e
  BY <1>1, <1>2, <1>3, <1>4, HeadTailProperties
<1>6. /\ Tail(Cons(e, q)) \in Seq(S) /\ Len(Tail(Cons(e, q))) = Len(q)
      /\ \A i \in 1..Len(Tail(Cons(e, q))) : Tail(Cons(e, q))[i] = Cons(e, q)[i + 1]
  BY <1>2, <1>3, <1>4, HeadTailProperties
<1>7. \A i \in 1..Len(q) : Tail(Cons(e, q))[i] = q[i]
  <2> TAKE i \in 1..Len(q)
  <2>1. i \in Int /\ 1 <= i /\ i <= Len(q) /\ (i + 1) - 1 = i /\ ~(i + 1 <= 1)
    BY <1>3
  <2>2. Cons(e, q)[i + 1] = q[(i + 1) - 1]
    BY <2>1, <1>2, <1>3
  <2> QED BY <2>1, <2>2, <1>6
<1>8. Tail(Cons(e, q)) = q
  BY <1>6, <1>7, SeqEqual
<1> QED BY <1>2, <1>4, <1>5, <1>8

\* A sequence is its head put before its tail.
LEMMA HeadTailCons == ASSUME NEW S, NEW q \in Seq(S), q # <<>>
                      PROVE  Cons(Head(q), Tail(q)) = q
<1>1. Append(<<>>, Head(q)) \o Tail(q) = <<>> \o q
  BY EmptySeq, TakeHead
<1>2. <<>> \o q = q
  BY ConcatEmptySeq
<1>3. Append(<<>>, Head(q)) = <<Head(q)>>
  OBVIOUS
<1>4. Cons(Head(q), Tail(q)) = Append(<<>>, Head(q)) \o Tail(q)
  BY <1>3 DEF Cons
<1> QED BY <1>1, <1>2, <1>4

\* An item put at the end of a sequence that begins with another one.
LEMMA AppendCons == ASSUME NEW S, NEW q \in Seq(S), NEW e \in S, NEW d \in S
                    PROVE  Cons(e, Append(q, d)) = Append(Cons(e, q), d)
<1>1. <<e>> \in Seq(S)
  OBVIOUS
<1>2. Split(Cons(e, q), <<e>>, q)
  BY DEF Split, Cons
<1>3. Split(Append(Cons(e, q), d), <<e>>, Append(q, d))
  BY <1>1, <1>2, PutAtEnd
<1> QED BY <1>3 DEF Split, Cons

\* At most one task is scheduled, and it is mActive; the deque is empty
\* without one.
OnlyActive ==
    /\ \A t \in Tasks : where[t] \in InPool \cup {"rejected"} => t = mActive
    /\ mActive # NoTask => where[mActive] \in InPool \cup {"rejected"}
    /\ mActive = NoTask => mTasks = <<>>

\* The task that runs is the last one started.
RunningStarted == \A t \in Tasks : where[t] = "running" => started # <<>>

IInv == TypeOK /\ OnlyActive /\ NothingForgotten /\ RunningStarted

LEMMA InitIInv == Init => IInv
<1> SUFFICES ASSUME Init PROVE IInv
  OBVIOUS
<1>1. <<>> \in Seq(Tasks) /\ 0 \in 0..PoolSize
  BY EmptySeq, SerialAssumption
<1>2. TypeOK
  BY <1>1 DEF Init, TypeOK, InPool
<1>3. Backlog = <<>>
  BY DEF Init, Backlog
<1>4. NothingForgotten
  <2>1. <<>> \o <<>> = <<>>
    BY <1>1, ConcatEmptySeq
  <2> QED BY <1>3, <2>1 DEF Init, NothingForgotten
<1> QED BY <1>2, <1>4 DEF Init, IInv, OnlyActive, RunningStarted, InPool

(***************************************************************************)
(* scheduleNext: the backlog is the deque it is called with.               *)
(***************************************************************************)

Places == InPool \cup {"none", "waiting", "rejected", "ended"}

LEMMA PoolTakesOne ==
  ASSUME TypeOK, NEW t \in Tasks, NEW w \in [Tasks -> Places], PoolTakes(t, w)
  PROVE  /\ workers' \in 0..PoolSize
         /\ where' \in [Tasks -> Places]
         /\ where'[t] \in {"handed", "queued", "rejected"}
         /\ \A u \in Tasks : u # t => where'[u] = w[u]
<1>1. workers' \in 0..PoolSize
  BY SerialAssumption DEF PoolTakes, TypeOK
<1> QED BY <1>1 DEF PoolTakes, Places, InPool

LEMMA ScheduleNextFacts ==
  ASSUME TypeOK, NEW q \in Seq(Tasks), NEW w \in [Tasks -> Places],
         \A t \in Tasks : w[t] \notin InPool \cup {"rejected"},
         scheduleNext(q, w)
  PROVE  /\ mTasks' \in Seq(Tasks)
         /\ mActive' \in Tasks \cup {NoTask}
         /\ workers' \in 0..PoolSize
         /\ where' \in [Tasks -> Places]
         /\ OnlyActive'
         /\ \A t \in Tasks : where'[t] # "running"
         /\ Backlog' = q
<1>1. CASE q = <<>>
  <2>1. mActive' = NoTask /\ mTasks' = q /\ where' = w /\ workers' = workers
    BY <1>1 DEF scheduleNext
  <2> QED BY <1>1, <2>1, SerialAssumption DEF OnlyActive, Backlog, TypeOK, InPool
<1>2. CASE q # <<>>
  <2>1. mActive' = Head(q) /\ mTasks' = Tail(q) /\ PoolTakes(Head(q), w)
    BY <1>2 DEF scheduleNext
  <2>2. Head(q) \in Tasks /\ Tail(q) \in Seq(Tasks)
    BY <1>2, HeadTailProperties
  <2>3. Head(q) # NoTask
    BY <2>2, SerialAssumption
  <2>4. /\ workers' \in 0..PoolSize
        /\ where' \in [Tasks -> Places]
        /\ where'[Head(q)] \in {"handed", "queued", "rejected"}
        /\ \A u \in Tasks : u # Head(q) => where'[u] = w[u]
    BY <2>1, <2>2, PoolTakesOne
  <2>5. OnlyActive'
    BY <2>1, <2>2, <2>3, <2>4 DEF OnlyActive, InPool
  <2>6. \A t \in Tasks : where'[t] # "running"
    BY <2>4 DEF InPool
  <2>7. Backlog' = Cons(Head(q), Tail(q))
    BY <2>1, <2>3, <2>4 DEF Backlog
  <2>8. Cons(Head(q), Tail(q)) = q
    BY <1>2, HeadTailCons
  <2> QED BY <2>1, <2>2, <2>4, <2>5, <2>6, <2>7, <2>8
<1> QED BY <1>1, <1>2

LEMMA BacklogType == TypeOK => Backlog \in Seq(Tasks)
  BY ConsProperties DEF TypeOK, Backlog

(***************************************************************************)
(* The steps: what execute, the start of a task and its end do.            *)
(***************************************************************************)

\* A task given to execute is the last of the backlog.
LEMMA ExecuteStep ==
  ASSUME IInv, NEW t \in Tasks, execute(t)
  PROVE  /\ IInv' /\ started' = started /\ submitted' = Append(submitted, t)
         /\ \A u \in Tasks : where'[u] = "running" <=> where[u] = "running"
         /\ (mActive # NoTask => mActive' = mActive)
<1> DEFINE q == Append(mTasks, t)
           w == [where EXCEPT ![t] = "waiting"]
<1>1. q \in Seq(Tasks)
  BY AppendProperties DEF IInv, TypeOK
<1>2. w \in [Tasks -> Places] /\ where[t] = "none"
  BY DEF execute, IInv, TypeOK, Places
<1>3. /\ submitted' = Append(submitted, t) /\ started' = started
      /\ idle' = idle /\ othersWait' = othersWait /\ othersRun' = othersRun
  BY DEF execute
<1>4. submitted' \in Seq(Tasks)
  BY <1>3, AppendProperties DEF IInv, TypeOK
<1>5. mTasks \in Seq(Tasks) /\ started \in Seq(Tasks) /\ Backlog \in Seq(Tasks)
  BY BacklogType DEF IInv, TypeOK
<1>6. Split(submitted, started, Backlog)
  BY DEF IInv, NothingForgotten, Split
<1>7. Split(submitted', started, Append(Backlog, t))
  BY <1>3, <1>5, <1>6, PutAtEnd
<1>8. CASE mActive = NoTask
  <2>1. scheduleNext(q, w)
    BY <1>8 DEF execute
  <2>2. \A u \in Tasks : where[u] \notin InPool \cup {"rejected"}
    BY <1>8, SerialAssumption DEF IInv, OnlyActive
  <2>3. \A u \in Tasks : w[u] \notin InPool \cup {"rejected"}
    BY <1>2, <2>2 DEF IInv, TypeOK, InPool
  <2>4. /\ mTasks' \in Seq(Tasks) /\ mActive' \in Tasks \cup {NoTask}
        /\ workers' \in 0..PoolSize /\ where' \in [Tasks -> Places]
        /\ OnlyActive' /\ Backlog' = q
        /\ \A u \in Tasks : where'[u] # "running"
    <3> HIDE DEF q, w
    <3> QED BY <1>1, <1>2, <2>1, <2>3, ScheduleNextFacts DEF IInv
  <2>5. Backlog = mTasks
    BY <1>8 DEF Backlog
  <2>6. Split(submitted', started', Backlog')
    BY <1>3, <1>7, <2>4, <2>5
  <2>7. TypeOK'
    BY <1>3, <1>4, <2>4 DEF IInv, TypeOK, Places
  <2>8. NothingForgotten'
    BY <2>6 DEF NothingForgotten, Split
  <2>9. RunningStarted'
    BY <2>4 DEF RunningStarted
  <2> QED BY <1>3, <1>8, <2>2, <2>4, <2>7, <2>8, <2>9 DEF IInv, InPool
<1>9. CASE mActive # NoTask
  <2>1. mTasks' = q /\ where' = w /\ mActive' = mActive /\ workers' = workers
    BY <1>9 DEF execute
  <2>2. t # mActive
    BY <1>2, <1>9 DEF IInv, OnlyActive, InPool
  <2>3. where'[mActive] = where[mActive]
    BY <1>9, <2>1, <2>2 DEF IInv, TypeOK
  <2>4. TypeOK'
    BY <1>1, <1>2, <1>3, <1>4, <2>1 DEF IInv, TypeOK, Places
  <2>5. OnlyActive'
    <3>1. \A u \in Tasks : where'[u] = IF u = t THEN "waiting" ELSE where[u]
      BY <2>1 DEF IInv, TypeOK
    <3> QED BY <1>9, <2>1, <2>3, <3>1 DEF IInv, OnlyActive, InPool
  <2>6. mActive \in Tasks
    BY <1>9 DEF IInv, TypeOK
  <2>7. Cons(mActive, q) = Append(Cons(mActive, mTasks), t)
    BY <1>5, <2>6, AppendCons
  <2>8. Backlog' = Append(Backlog, t)
    <3> HIDE DEF q
    <3>1. CASE where[mActive] \in {"handed", "queued", "rejected"}
      <4>1. Backlog = Cons(mActive, mTasks) /\ Backlog' = Cons(mActive, q)
        BY <1>9, <2>1, <2>3, <3>1 DEF Backlog
      <4> QED BY <2>7, <4>1, Zenon
    <3>2. CASE where[mActive] \notin {"handed", "queued", "rejected"}
      <4>1. Backlog = mTasks /\ Backlog' = q
        BY <1>9, <2>1, <2>3, <3>2 DEF Backlog
      <4> QED BY <4>1, Zenon DEF q
    <3> QED BY <3>1, <3>2
  <2>9. NothingForgotten'
    BY <1>3, <1>7, <2>8 DEF NothingForgotten, Split
  <2>10. \A u \in Tasks : where'[u] = "running" <=> where[u] = "running"
    BY <1>2, <2>1 DEF IInv, TypeOK
  <2> QED BY <1>3, <2>1, <2>4, <2>5, <2>9, <2>10 DEF IInv, RunningStarted
<1> QED BY <1>8, <1>9

\* A task that starts is the active one, and the oldest of the backlog.
LEMMA StartStep ==
  ASSUME IInv, NEW t \in Tasks, Begin(t) \/ Fetch(t)
  PROVE  /\ IInv' /\ submitted' = submitted
         /\ t = mActive /\ mActive' = mActive
         /\ where'[t] = "running" /\ where[t] # "running"
         /\ Len(started) < Len(submitted)
         /\ started' = Append(started, submitted[Len(started) + 1])
         /\ Len(started') = Len(started) + 1
<1>1. /\ where[t] \in {"handed", "queued"}
      /\ where' = [where EXCEPT ![t] = "running"]
      /\ started' = Append(started, t)
      /\ mTasks' = mTasks /\ mActive' = mActive /\ submitted' = submitted
      /\ workers' = workers
  BY DEF Begin, Fetch, pool
<1>2. idle' \in Nat /\ othersWait' \in Nat /\ othersRun' \in Nat
  BY DEF Begin, Fetch, pool, IInv, TypeOK
<1>3. t = mActive /\ mActive # NoTask
  BY <1>1, SerialAssumption DEF IInv, OnlyActive, InPool
<1>4. \A u \in Tasks : where'[u] = IF u = t THEN "running" ELSE where[u]
  BY <1>1 DEF IInv, TypeOK
<1>5. started' \in Seq(Tasks) /\ started' # <<>> /\ Len(started') = Len(started) + 1
  <2>1. started \in Seq(Tasks) /\ started' = Append(started, t)
    BY <1>1 DEF IInv, TypeOK
  <2>2. /\ Append(started, t) \in Seq(Tasks) /\ Append(started, t) # <<>>
        /\ Len(Append(started, t)) = Len(started) + 1
    BY <2>1, AppendProperties
  <2> QED BY <2>1, <2>2
<1>6. TypeOK'
  BY <1>1, <1>2, <1>5 DEF IInv, TypeOK, InPool
<1>7. OnlyActive'
  BY <1>1, <1>3, <1>4 DEF IInv, OnlyActive, InPool
<1>8. Backlog = Cons(t, mTasks) /\ Backlog' = mTasks
  BY <1>1, <1>3, <1>4 DEF Backlog
<1>9. mTasks \in Seq(Tasks) /\ started \in Seq(Tasks)
  BY DEF IInv, TypeOK
<1>10. /\ Cons(t, mTasks) \in Seq(Tasks) /\ Cons(t, mTasks) # <<>>
       /\ Head(Cons(t, mTasks)) = t /\ Tail(Cons(t, mTasks)) = mTasks
  BY <1>9, ConsProperties
<1> DEFINE b == Cons(t, mTasks)
<1>11. submitted = started \o b
  BY <1>8 DEF IInv, NothingForgotten
<1> HIDE DEF b
<1>12. b \in Seq(Tasks) /\ b # <<>> /\ Head(b) = t /\ Tail(b) = mTasks
  BY <1>10 DEF b
<1>13. /\ Append(started, Head(b)) \o Tail(b) = started \o b
       /\ Len(started) < Len(started \o b)
       /\ (started \o b)[Len(started) + 1] = Head(b)
  BY <1>9, <1>12, TakeHead
<1>14. NothingForgotten'
  <2>1. started' \o Backlog' = Append(started, Head(b)) \o Tail(b)
    BY <1>1, <1>8, <1>12
  <2> QED BY <1>1, <1>11, <1>13, <2>1 DEF NothingForgotten
<1>15. Len(started) < Len(submitted) /\ submitted[Len(started) + 1] = t
  BY <1>11, <1>12, <1>13
<1>16. RunningStarted'
  BY <1>5 DEF RunningStarted
<1> QED BY <1>1, <1>3, <1>4, <1>5, <1>6, <1>7, <1>14, <1>15, <1>16 DEF IInv

\* A task that has returned keeps its place as mActive until scheduleNext.
LEMMA RunEndsStep ==
  ASSUME IInv, NEW t \in Tasks, RunEnds(t)
  PROVE  /\ IInv' /\ UNCHANGED history
         /\ t = mActive /\ mActive' = mActive
         /\ where[t] = "running" /\ where'[t] # "running"
<1>1. /\ where[t] = "running"
      /\ where' = [where EXCEPT ![t] = "finishing"]
      /\ mTasks' = mTasks /\ mActive' = mActive
      /\ UNCHANGED pool /\ UNCHANGED history
  BY DEF RunEnds
<1>2. t = mActive /\ mActive # NoTask
  BY <1>1, SerialAssumption DEF IInv, OnlyActive, InPool
<1>3. \A u \in Tasks : where'[u] = IF u = t THEN "finishing" ELSE where[u]
  BY <1>1 DEF IInv, TypeOK
<1>4. TypeOK'
  BY <1>1 DEF IInv, TypeOK, InPool, pool, history
<1>5. OnlyActive'
  BY <1>1, <1>2, <1>3 DEF IInv, OnlyActive, InPool
<1>6. Backlog' = Backlog
  BY <1>1, <1>2, <1>3 DEF Backlog
<1>7. NothingForgotten' /\ RunningStarted'
  BY <1>1, <1>3, <1>6 DEF IInv, NothingForgotten, RunningStarted, history
<1> QED BY <1>1, <1>2, <1>3, <1>4, <1>5, <1>7 DEF IInv

\* The finally block moves the next task of the backlog on, and starts none.
LEMMA FinallyStep ==
  ASSUME IInv, NEW t \in Tasks, Finally(t)
  PROVE  /\ IInv' /\ UNCHANGED history
         /\ \A u \in Tasks : where[u] # "running" /\ where'[u] # "running"
<1> DEFINE w == [where EXCEPT ![t] = "ended"]
<1>1. /\ where[t] = "finishing" /\ scheduleNext(mTasks, w)
      /\ UNCHANGED history /\ idle' = idle + 1
      /\ othersWait' = othersWait /\ othersRun' = othersRun
  BY DEF Finally
<1>2. t = mActive /\ mActive # NoTask
  BY <1>1, SerialAssumption DEF IInv, OnlyActive, InPool
<1>3. \A u \in Tasks : w[u] = IF u = t THEN "ended" ELSE where[u]
  BY DEF IInv, TypeOK
<1>4. w \in [Tasks -> Places]
  BY DEF IInv, TypeOK, Places, InPool
<1>5. \A u \in Tasks : w[u] \notin InPool \cup {"rejected"}
  BY <1>2, <1>3 DEF IInv, OnlyActive, InPool
<1>6. mTasks \in Seq(Tasks)
  BY DEF IInv, TypeOK
<1>7. /\ mTasks' \in Seq(Tasks) /\ mActive' \in Tasks \cup {NoTask}
      /\ workers' \in 0..PoolSize /\ where' \in [Tasks -> Places]
      /\ OnlyActive' /\ Backlog' = mTasks
      /\ \A u \in Tasks : where'[u] # "running"
  <2> HIDE DEF w
  <2> QED BY <1>1, <1>4, <1>5, <1>6, ScheduleNextFacts DEF IInv
<1>8. Backlog = mTasks
  BY <1>1, <1>2 DEF Backlog
<1>9. TypeOK'
  BY <1>1, <1>7 DEF IInv, TypeOK, Places, history
<1>10. NothingForgotten'
  BY <1>1, <1>7, <1>8 DEF IInv, NothingForgotten, history
<1>11. \A u \in Tasks : where[u] # "running"
  BY <1>1, <1>2 DEF IInv, OnlyActive, InPool
<1> QED BY <1>1, <1>7, <1>9, <1>10, <1>11 DEF IInv, RunningStarted

\* The rest of the pool leaves the executor alone.
LEMMA OthersStep ==
  ASSUME IInv, SubmitOther \/ FetchOther \/ OtherEnds \/ TimeOut \/ UNCHANGED vars
  PROVE  IInv' /\ UNCHANGED <<executor, history>>
<1>1. UNCHANGED <<executor, history>>
  BY DEF SubmitOther, FetchOther, OtherEnds, TimeOut, vars
<1>2. Backlog' = Backlog
  BY <1>1 DEF executor, Backlog
<1>3. /\ workers' \in 0..PoolSize /\ idle' \in Nat
      /\ othersWait' \in Nat /\ othersRun' \in Nat
  <2>1. /\ workers \in 0..PoolSize /\ idle \in Nat /\ PoolSize \in Nat
        /\ othersWait \in Nat /\ othersRun \in Nat
    BY SerialAssumption DEF IInv, TypeOK
  <2>2. CASE SubmitOther
    BY <2>1, <2>2 DEF SubmitOther
  <2>3. CASE FetchOther
    BY <2>1, <2>3 DEF FetchOther
  <2>4. CASE OtherEnds
    BY <2>1, <2>4 DEF OtherEnds
  <2>5. CASE TimeOut
    BY <2>1, <2>5 DEF TimeOut
  <2>6. CASE UNCHANGED vars
    BY <2>1, <2>6 DEF vars, pool
  <2> QED BY <2>2, <2>3, <2>4, <2>5, <2>6
<1>4. TypeOK'
  BY <1>1, <1>3 DEF IInv, TypeOK, executor, history
<1> QED BY <1>1, <1>2, <1>4
        DEF IInv, OnlyActive, NothingForgotten, RunningStarted, executor, history

LEMMA NextIInv == IInv /\ [Next]_vars => IInv'
<1> SUFFICES ASSUME IInv, [Next]_vars PROVE IInv'
  OBVIOUS
<1>1. ASSUME NEW t \in Tasks, execute(t) PROVE IInv'
  BY <1>1, ExecuteStep
<1>2. ASSUME NEW t \in Tasks, Begin(t) \/ Fetch(t) PROVE IInv'
  BY <1>2, StartStep
<1>3. ASSUME NEW t \in Tasks, RunEnds(t) PROVE IInv'
  BY <1>3, RunEndsStep
<1>4. ASSUME NEW t \in Tasks, Finally(t) PROVE IInv'
  BY <1>4, FinallyStep
<1>5. CASE SubmitOther \/ FetchOther \/ OtherEnds \/ TimeOut \/ UNCHANGED vars
  BY <1>5, OthersStep
<1> QED BY <1>1, <1>2, <1>3, <1>4, <1>5 DEF Next

LEMMA Inductive == Spec => []IInv
  BY InitIInv, NextIInv, PTL DEF Spec

(***************************************************************************)
(* The theorems.                                                           *)
(***************************************************************************)

\* Type correctness of the executor and its pool.
THEOREM TypeCorrect == Spec => []TypeOK
<1>1. IInv => TypeOK
  BY DEF IInv
<1> QED BY <1>1, Inductive, PTL

\* What was given to execute is what was started and what still has to be run,
\* in the order of execute: no task is lost, duplicated or overtaken between the
\* deque of the executor and the pool.
THEOREM NoTaskForgotten == Spec => []NothingForgotten
<1>1. IInv => NothingForgotten
  BY DEF IInv
<1> QED BY <1>1, Inductive, PTL

\* The test of mActive in execute and the one in scheduleNext lose no wake-up:
\* tasks wait only behind one that is scheduled, or that the pool has rejected.
THEOREM NoLostWakeUp == Spec => []SomebodyActive
<1>1. IInv => SomebodyActive
  BY DEF IInv, OnlyActive, SomebodyActive
<1> QED BY <1>1, Inductive, PTL

\* What has been dealt with: all that was started and does not run any more.
Dealt == Len(started) - Cardinality(Running)

\* The size of a set that holds one element at most.
LEMMA AtMostOne == ASSUME NEW S, NEW a, S \subseteq {a}
                   PROVE  Cardinality(S) = IF a \in S THEN 1 ELSE 0
<1>1. CASE a \in S
  <2>1. S = {a}
    BY <1>1
  <2> QED BY <1>1, <2>1, FS_Singleton
<1>2. CASE a \notin S
  <2>1. S = {}
    BY <1>2
  <2> QED BY <1>2, <2>1, FS_EmptySet
<1> QED BY <1>1, <1>2

\* The steps of Mailbox, with the refinement mapping written out.
LEMMA MailboxStep == IInv /\ [Next]_vars => [M!Next]_M!vars
<1> SUFFICES ASSUME IInv, [Next]_vars PROVE [M!Next]_M!vars
  OBVIOUS
<1>1. /\ mActive \in Tasks \cup {NoTask} /\ NoTask \notin Tasks
      /\ started \in Seq(Tasks) /\ Len(started) \in Nat
  BY SerialAssumption DEF IInv, TypeOK
<1>2. \A t \in Tasks : where[t] = "running" => t = mActive /\ mActive # NoTask
  BY <1>1 DEF IInv, OnlyActive, InPool
<1>3. IInv'
  BY NextIInv
<1>4. mActive' \in Tasks \cup {NoTask}
  BY <1>3 DEF IInv, TypeOK
<1>5. \A t \in Tasks : where'[t] = "running" => t = mActive' /\ mActive' # NoTask
  BY <1>1, <1>3 DEF IInv, OnlyActive, InPool
<1>a. Dealt = IF mActive # NoTask /\ where[mActive] = "running"
                THEN Len(started) - 1 ELSE Len(started)
  <2>1. Running \subseteq {mActive}
    BY <1>2 DEF Running
  <2>2. mActive \in Running <=> mActive # NoTask /\ where[mActive] = "running"
    BY <1>1 DEF Running
  <2> QED BY <1>1, <2>1, <2>2, AtMostOne DEF Dealt
<1>b. Dealt' = IF mActive' # NoTask /\ where'[mActive'] = "running"
                 THEN Len(started') - 1 ELSE Len(started')
  <2>1. Running' \subseteq {mActive'}
    BY <1>5 DEF Running
  <2>2. mActive' \in Running' <=> mActive' # NoTask /\ where'[mActive'] = "running"
    BY <1>1, <1>4 DEF Running
  <2>3. Len(started') \in Nat
    BY <1>3 DEF IInv, TypeOK
  <2> QED BY <2>1, <2>2, <2>3, AtMostOne DEF Dealt
<1>6. ASSUME NEW t \in Tasks, execute(t) PROVE M!Accept(t)
  <2>1. /\ started' = started /\ submitted' = Append(submitted, t)
        /\ \A u \in Tasks : where'[u] = "running" <=> where[u] = "running"
        /\ (mActive # NoTask => mActive' = mActive)
    BY <1>6, ExecuteStep
  <2>2. Dealt' = Dealt
    BY <1>1, <1>2, <1>4, <1>5, <1>a, <1>b, <2>1
  <2> QED BY <2>1, <2>2 DEF M!Accept, Dealt
<1>7. ASSUME NEW t \in Tasks, Begin(t) \/ Fetch(t) PROVE M!Take
  <2>1. /\ submitted' = submitted
        /\ t = mActive /\ mActive' = mActive
        /\ where'[t] = "running" /\ where[t] # "running"
        /\ Len(started) < Len(submitted)
        /\ started' = Append(started, submitted[Len(started) + 1])
        /\ Len(started') = Len(started) + 1
    BY <1>7, StartStep
  <2>2. Dealt = Len(started) /\ Dealt' = Len(started)
    BY <1>1, <1>a, <1>b, <2>1
  <2> QED BY <2>1, <2>2 DEF M!Take, Dealt
<1>8. ASSUME NEW t \in Tasks, RunEnds(t) PROVE M!Finish
  <2>1. /\ UNCHANGED history
        /\ t = mActive /\ mActive' = mActive
        /\ where[t] = "running" /\ where'[t] # "running"
    BY <1>8, RunEndsStep
  <2>2. Dealt = Len(started) - 1 /\ Dealt' = Len(started)
    BY <1>1, <1>a, <1>b, <2>1 DEF history
  <2>3. Len(started) - 1 < Len(started) /\ Len(started) = Len(started) - 1 + 1
    BY <1>1
  <2>4. submitted' = submitted /\ started' = started
    BY <2>1 DEF history
  <2>5. Dealt < Len(started) /\ Dealt' = Dealt + 1
    BY <2>2, <2>3
  <2> QED BY <2>4, <2>5 DEF M!Finish, Dealt
<1>9. ASSUME NEW t \in Tasks, Finally(t) PROVE UNCHANGED M!vars
  <2>1. /\ UNCHANGED history
        /\ \A u \in Tasks : where[u] # "running" /\ where'[u] # "running"
    BY <1>9, FinallyStep
  <2>2. Dealt' = Dealt
    BY <1>1, <1>4, <1>a, <1>b, <2>1 DEF history
  <2> QED BY <2>1, <2>2 DEF M!vars, Dealt, history
<1>10. CASE SubmitOther \/ FetchOther \/ OtherEnds \/ TimeOut \/ UNCHANGED vars
  BY <1>10, OthersStep DEF M!vars, Running, executor, history
<1> QED BY <1>6, <1>7, <1>8, <1>9, <1>10 DEF Next, M!Next

\* Tasks run one at a time and in the order of execute: the executor is a
\* Mailbox, for any number of tasks and whatever else the pool has to do.
THEOREM OneAtATime == Spec => ImplementsMailbox
<1>1. Init => M!Init
  <2> SUFFICES ASSUME Init PROVE M!Init
    OBVIOUS
  <2>1. Running = {}
    BY DEF Init, Running
  <2>2. Cardinality(Running) = 0 /\ Len(started) = 0
    BY <2>1, FS_EmptySet DEF Init
  <2> QED BY <2>2 DEF Init, M!Init
<1> QED BY <1>1, MailboxStep, Inductive, PTL DEF Spec, ImplementsMailbox, M!Spec
=============================================================================
