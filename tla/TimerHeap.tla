------------------------------ MODULE TimerHeap ------------------------------
(***************************************************************************)
(* TimerX.TimerImpl.TimerHeap: the binary heap in an array that holds the  *)
(* scheduled tasks, with the operations of the timer on it.  Position i of *)
(* heap is timers[i - 1]; a task is its entry, when and cancelled.  The    *)
(* growth of the array is left out.  The definitions named Bug... are      *)
(* faulty variants: they show what the properties would find.              *)
(***************************************************************************)
EXTENDS Naturals, Sequences, FiniteSets

CONSTANTS Times,        \* values of TimerTaskX.when
          MaxSize,      \* bound on the number of tasks in the heap
          SafeHeapSize  \* see TimerQueue

ASSUME HeapAssumption == Times \subseteq Nat \ {0} /\ MaxSize \in Nat

Entry == [when : Times, cancelled : BOOLEAN]

VARIABLE heap

Earlier(s, i, j) == s[i].when < s[j].when
Swap(s, i, j) == [s EXCEPT ![i] = s[j], ![j] = s[i]]

upHeap[s \in Seq(Entry), i \in Nat] ==
    IF i > 1 /\ Earlier(s, i, i \div 2)
    THEN upHeap[Swap(s, i, i \div 2), i \div 2] ELSE s

\* The right child is overlooked.
BugChild(s, i) == 2 * i

\* The child that downHeap compares with position i.
Child(s, i) == IF 2 * i < Len(s) /\ Earlier(s, 2 * i + 1, 2 * i) THEN 2 * i + 1 ELSE 2 * i

downHeap[s \in Seq(Entry), i \in Nat] ==
    IF 2 * i > Len(s) \/ Earlier(s, i, Child(s, i))
    THEN s ELSE downHeap[Swap(s, i, Child(s, i)), Child(s, i)]

insert(s, e) == upHeap[Append(s, e), Len(s) + 1]

\* The last entry takes the place of the deleted one and only moves down from there.
delete(s, i) == downHeap[SubSeq([s EXCEPT ![i] = s[Len(s)]], 1, Len(s) - 1), i]

deleteIfCancelled[s \in Seq(Entry), i \in Nat] ==
    IF i > Len(s) THEN s
    ELSE IF s[i].cancelled THEN deleteIfCancelled[delete(s, i), i]
    ELSE deleteIfCancelled[s, i + 1]

-----------------------------------------------------------------------------
Task(w) == [when |-> w, cancelled |-> FALSE]

Init == heap = <<>>

\* scheduleImpl
Schedule(w) == /\ Len(heap) < MaxSize
               /\ heap' = insert(heap, Task(w))

\* The run loop takes the first task, and inserts it again if it repeats.
DropFirst == /\ heap # <<>>
             /\ heap' = delete(heap, 1)

RepeatFirst(w) == /\ heap # <<>>
                  /\ ~heap[1].cancelled
                  /\ w >= heap[1].when
                  /\ heap' = insert(delete(heap, 1), Task(w))

\* TimerTaskX.cancel leaves the task where it is.
Cancel(i) == heap' = [heap EXCEPT ![i].cancelled = TRUE]

purge == heap' = deleteIfCancelled[heap, 1]

reset == heap' = <<>>

Next == \/ \E w \in Times : Schedule(w) \/ RepeatFirst(w)
        \/ DropFirst
        \/ \E i \in 1..Len(heap) : Cancel(i)
        \/ purge
        \/ reset

Spec == Init /\ [][Next]_heap

-----------------------------------------------------------------------------
InHeapOrder == \A i \in 2..Len(heap) : ~Earlier(heap, i, i \div 2)

CountOf(e) == LET at == {i \in 1..Len(heap) : heap[i] = e} IN Cardinality(at)

\* The heap is the queue that TimerX.tla assumes: no operation loses, duplicates or
\* keeps a wrong entry, and the order survives everything but a purge of a large heap.
Queue == INSTANCE TimerQueue WITH
            entries <- [e \in {heap[i] : i \in 1..Len(heap)} |-> CountOf(e)],
            sorted  <- InHeapOrder
ImplementsTimerQueue == Queue!Spec
=============================================================================
