------------------------------- MODULE Mailbox -------------------------------
(***************************************************************************)
(* What a serial executor of messages promises: it takes them one at a     *)
(* time, in the order in which it accepted them, and once it is closed it  *)
(* accepts and takes no more; what it had not taken then is dropped.       *)
(* LuaThread is shown to keep this promise, and so is SerialExecutor,      *)
(* which is never closed.                                                  *)
(***************************************************************************)
EXTENDS Naturals, Sequences

CONSTANT Messages

VARIABLES accepted, \* the messages in the order of their acceptance
          taken,    \* the messages in the order in which they were taken
          done,     \* how many of them have been dealt with
          closed

vars == <<accepted, taken, done, closed>>

Init == accepted = <<>> /\ taken = <<>> /\ done = 0 /\ closed = FALSE

Accept(m) == /\ ~closed
             /\ accepted' = Append(accepted, m)
             /\ UNCHANGED <<taken, done, closed>>

\* The oldest message that has not been taken, when nothing is in hand.
Take == /\ ~closed
        /\ done = Len(taken)
        /\ Len(taken) < Len(accepted)
        /\ taken' = Append(taken, accepted[Len(taken) + 1])
        /\ UNCHANGED <<accepted, done, closed>>

Finish == /\ done < Len(taken)
          /\ done' = done + 1
          /\ UNCHANGED <<accepted, taken, closed>>

Close == closed' = TRUE /\ UNCHANGED <<accepted, taken, done>>

Next == \/ \E m \in Messages : Accept(m)
        \/ Take \/ Finish \/ Close

Spec == Init /\ [][Next]_vars
=============================================================================
