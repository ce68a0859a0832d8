------------------------------ MODULE TimerSpec ------------------------------
(***************************************************************************)
(* What TimerX promises its callers: a task that was accepted fires no     *)
(* earlier than its due time, keeps firing only if it was rescheduled, and *)
(* never fires once it has been withdrawn or the timer has been closed.    *)
(* There is no queue, no thread and no lock here.                          *)
(***************************************************************************)
EXTENDS Naturals

CONSTANT Tasks

VARIABLES open,   \* TimerX.cancel has not been called and no task has thrown
          life,   \* where each task is in its life
          due,    \* the time each scheduled task is due
          clock   \* the wall clock

vars == <<open, life, due, clock>>

Init == /\ open = TRUE
        /\ life = [t \in Tasks |-> "new"]
        /\ due = [t \in Tasks |-> 0]
        /\ clock \in Nat \ {0}

Accept(t) == /\ open
             /\ life[t] = "new"
             /\ life' = [life EXCEPT ![t] = "scheduled"]
             /\ due'[t] > 0 /\ due' = [due EXCEPT ![t] = due'[t]]
             /\ UNCHANGED <<open, clock>>

\* One firing: the task is over, or it is due again, never earlier than before.
FireOnce(t) == /\ open
               /\ life[t] = "scheduled"
               /\ due[t] <= clock
               /\ \/ /\ life' = [life EXCEPT ![t] = "over"]
                     /\ due' = [due EXCEPT ![t] = 0]
                  \/ /\ due'[t] >= due[t] /\ due' = [due EXCEPT ![t] = due'[t]]
                     /\ UNCHANGED life
               /\ UNCHANGED <<open, clock>>

Withdraw(t) == /\ life' = [life EXCEPT ![t] = "withdrawn"]
               /\ UNCHANGED <<open, due, clock>>

Close == /\ open' = FALSE
         /\ UNCHANGED <<life, due, clock>>

Advance == /\ clock' \in Nat
           /\ clock' > clock
           /\ UNCHANGED <<open, life, due>>

Next == \/ \E t \in Tasks : Accept(t) \/ FireOnce(t) \/ Withdraw(t)
        \/ Close
        \/ Advance

Spec == Init /\ [][Next]_vars
=============================================================================
