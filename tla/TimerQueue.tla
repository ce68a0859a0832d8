----------------------------- MODULE TimerQueue ------------------------------
(***************************************************************************)
(* The queue of a timer as TimerX.tla sees it: a bag of entries, and       *)
(* whether it still hands out an earliest one first.  TimerHeap shows that *)
(* the array heap of the code implements it.                               *)
(***************************************************************************)
EXTENDS Naturals, Bags

CONSTANT SafeHeapSize  \* deleting anywhere in a heap of this size keeps its order

VARIABLES entries,  \* bag of [when, cancelled]
          sorted    \* minimum() is an earliest entry

vars == <<entries, sorted>>

Entries == BagToSet(entries)
Minimum == {e \in Entries : sorted => \A f \in Entries : e.when <= f.when}

Replace(e, added) == entries' = (entries (-) SetToBag({e})) (+) added

\* An order once lost may come back, but only a purge may lose it.
OrderKept == sorted => sorted'

Init == entries = EmptyBag /\ sorted = TRUE

Add == /\ \E e \in BagToSet(entries') :
             /\ ~e.cancelled
             /\ entries' = entries (+) SetToBag({e})
       /\ OrderKept

\* The earliest entry leaves; a repeating task comes back, later or at the same time.
Take == /\ \E e \in Minimum :
             \/ Replace(e, EmptyBag)
             \/ /\ ~e.cancelled
                /\ \E f \in BagToSet(entries') :
                      ~f.cancelled /\ f.when >= e.when /\ Replace(e, SetToBag({f}))
        /\ OrderKept

Mark == /\ \E e \in Entries : Replace(e, SetToBag({[e EXCEPT !.cancelled = TRUE]}))
        /\ OrderKept

\* purge removes the cancelled entries and no other.
Purge == /\ entries' = [e \in {f \in Entries : ~f.cancelled} |-> entries[e]]
         /\ \/ OrderKept
            \/ BagCardinality(entries) > SafeHeapSize /\ entries' # EmptyBag

Reset == entries' = EmptyBag /\ sorted'

Next == Add \/ Take \/ Mark \/ Purge \/ Reset

Spec == Init /\ [][Next]_vars
=============================================================================
