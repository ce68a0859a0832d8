------------------------------- MODULE LuaThread -----------------------------
(***************************************************************************)
(* com.yan.luaide.LuaThread, and LuaRunnable, which has the same code: a   *)
(* thread with a Lua state of its own that runs its script and then, if it *)
(* was made with isLoop, serves the messages other threads push to it      *)
(* until one of them, or a script of its own, makes it quit.               *)
(*                                                                         *)
(* isRun and thandler are plain fields, so another thread may see the two  *)
(* stores of run() in either order: each becomes visible by an action of   *)
(* its own.  Looper and MessageQueue belong to the platform; they are      *)
(* modelled as this code relies on them.                                   *)
(*                                                                         *)
(* The definitions named Bug... are faulty variants of the ones they stand *)
(* before: they show what each property would find.                        *)
(***************************************************************************)
EXTENDS Naturals, Sequences, SequencesExt, FiniteSets

CONSTANTS Callers,  \* the threads that call push, quit and gc
          Messages  \* the messages they push, each at most once

VARIABLES
    pc,        \* where run() is
    mIsLoop,
    isRun,     \* as the other threads see it
    thandler,  \* thandler is not null, as the other threads see it
    queue,     \* the messages in the queue of the Looper
    quitting,  \* Looper.quit() has been called
    at,        \* where each caller is
    holds,     \* the message each caller pushes
    mGc,
    posted,    \* history: the messages the queue took, in order
    taken,     \* history: the messages dispatched, in order
    refused,   \* history: the messages push did not send
    lost,      \* history: the messages push tried to send in vain
    asked      \* history: quit() or gc() was called while the Looper ran

looper  == <<queue, quitting>>
calls   == <<at, holds>>
history == <<posted, taken, refused, lost>>
vars    == <<pc, mIsLoop, isRun, thandler, looper, calls, mGc, history, asked>>

\* Where run() has published the handler and the Looper still serves it.
Serving == {"run", "loop", "handling", "quit"}

TypeOK == /\ pc \in Serving \cup {"new", "script", "publish", "handlerShown", "runningShown",
                                  "returned", "dead"}
          /\ mIsLoop \in BOOLEAN
          /\ isRun \in BOOLEAN
          /\ thandler \in BOOLEAN
          /\ queue \in Seq(Messages)
          /\ quitting \in BOOLEAN
          /\ at \in [Callers -> {"idle", "push", "quit", "gc", "crashed"}]
          /\ holds \in [Callers -> Messages]
          /\ mGc \in BOOLEAN
          /\ posted \in Seq(Messages)
          /\ taken \in Seq(Messages)
          /\ refused \subseteq Messages
          /\ lost \subseteq Messages
          /\ asked \in BOOLEAN

Init == /\ pc = "new"
        /\ mIsLoop \in BOOLEAN
        /\ isRun = FALSE /\ thandler = FALSE
        /\ queue = <<>> /\ quitting = FALSE
        /\ at = [c \in Callers |-> "idle"]
        /\ holds \in [Callers -> Messages]
        /\ mGc = FALSE
        /\ posted = <<>> /\ taken = <<>>
        /\ refused = {} /\ lost = {}
        /\ asked = FALSE

Goto(from, to) == pc = from /\ pc' = to

Move(c, from, to) == at[c] = from /\ at' = [at EXCEPT ![c] = to]

BugCloseLooper == queue' = queue /\ quitting' = TRUE

\* Looper.quit(): what is still in the queue is thrown away.
CloseLooper == queue' = <<>> /\ quitting' = TRUE

(***************************************************************************)
(* The thread.                                                             *)
(***************************************************************************)

\* A thread that calls itself running before it knows whether it will loop.
BugStart == /\ Goto("new", "script") \/ Goto("new", "dead")
            /\ isRun' = TRUE
            /\ UNCHANGED <<mIsLoop, thandler, looper, calls, mGc, history, asked>>

\* Thread.start(): the script begins unless initLua throws.
Start == /\ Goto("new", "script") \/ Goto("new", "dead")
         /\ UNCHANGED <<mIsLoop, isRun, thandler, looper, calls, mGc, history, asked>>

\* The script returns, or throws: newLuaThread then calls quit(), which does
\* nothing because isRun is not set yet.
ScriptEnds == /\ Goto("script", IF mIsLoop THEN "publish" ELSE "returned")
              /\ UNCHANGED <<mIsLoop, isRun, thandler, looper, calls, mGc, history, asked>>

\* thandler = new ThreadHandler() and isRun = true become visible, in either order.
ShowHandler == /\ Goto("publish", "handlerShown") \/ Goto("runningShown", "run")
               /\ thandler' = TRUE
               /\ UNCHANGED <<mIsLoop, isRun, looper, calls, mGc, history, asked>>

ShowRunning == /\ Goto("publish", "runningShown") \/ Goto("handlerShown", "run")
               /\ isRun' = TRUE
               /\ UNCHANGED <<mIsLoop, thandler, looper, calls, mGc, history, asked>>

\* The queue made anew when the loop begins.
BugRunReturns == /\ Goto("run", "loop")
                 /\ queue' = <<>>
                 /\ UNCHANGED <<mIsLoop, isRun, thandler, quitting, calls, mGc, history, asked>>

\* The script's function run returns; what it throws is caught in runFunc.
RunReturns == /\ Goto("run", "loop")
              /\ UNCHANGED <<mIsLoop, isRun, thandler, looper, calls, mGc, history, asked>>

\* Looper.loop takes the next message, and returns when there is none and it
\* has been told to quit.
Dispatch == /\ queue # <<>>
            /\ Goto("loop", "handling")
            /\ queue' = Tail(queue)
            /\ taken' = Append(taken, Head(queue))
            /\ UNCHANGED <<mIsLoop, isRun, thandler, quitting, calls, mGc, posted, refused, lost, asked>>

LoopReturns == /\ queue = <<>> /\ quitting
               /\ Goto("loop", "returned")
               /\ UNCHANGED <<mIsLoop, isRun, thandler, looper, calls, mGc, history, asked>>

\* A NullPointerException in handleMessage, which would end the process, is left out.
HandleReturns == /\ Goto("handling", "loop")
                 /\ UNCHANGED <<mIsLoop, isRun, thandler, looper, calls, mGc, history, asked>>

\* A script sent as a message throws, and nothing catches it.
BugHandleFails == /\ Goto("handling", "dead")
                  /\ isRun' = FALSE
                  /\ UNCHANGED <<mIsLoop, thandler, looper, calls, mGc, history, asked>>

\* A script sent as a message throws, and newLuaThread calls quit().
HandleFails == /\ Goto("handling", IF isRun THEN "quit" ELSE "loop")
               /\ isRun' = FALSE
               /\ asked' = TRUE
               /\ UNCHANGED <<mIsLoop, thandler, looper, calls, mGc, history>>

QuitItself == /\ Goto("quit", "loop")
              /\ CloseLooper
              /\ UNCHANGED <<mIsLoop, isRun, thandler, calls, mGc, history, asked>>

RunEnds == /\ Goto("returned", "dead")
           /\ isRun' = FALSE
           /\ UNCHANGED <<mIsLoop, thandler, looper, calls, mGc, history, asked>>

(***************************************************************************)
(* The callers.  Reading isRun and clearing it is one step of quit(): in   *)
(* between no other thread writes anything but FALSE.                      *)
(***************************************************************************)

\* A message that has not been pushed: the bound on the calls of push.
Unsent(m) == m \notin refused \cup lost \cup Range(posted) \cup
                      {holds[c] : c \in {d \in Callers : at[d] = "push"}}

\* The first test of push: a thread that does not run gets no message.
PushRefused(m) == /\ ~isRun
                  /\ Unsent(m)
                  /\ refused' = refused \cup {m}
                  /\ UNCHANGED <<pc, mIsLoop, isRun, thandler, looper, calls, mGc,
                                 posted, taken, lost, asked>>

PushBegins(c, m) == /\ isRun /\ Unsent(m)
                    /\ Move(c, "idle", "push")
                    /\ holds' = [holds EXCEPT ![c] = m]
                    /\ UNCHANGED <<pc, mIsLoop, isRun, thandler, looper, mGc, history, asked>>

\* thandler.sendMessage puts the message into the queue.
Send(c) == /\ thandler /\ ~quitting
           /\ Move(c, "push", "idle")
           /\ queue' = Append(queue, holds[c])
           /\ posted' = Append(posted, holds[c])
           /\ UNCHANGED <<pc, mIsLoop, isRun, thandler, quitting, holds, mGc,
                          taken, refused, lost, asked>>

\* The Looper has quit since isRun was read and drops the message, or the
\* caller does not see the handler yet and gets a NullPointerException.
SendInVain(c) == /\ ~thandler \/ quitting
                 /\ Move(c, "push", "idle")
                 /\ lost' = lost \cup {holds[c]}
                 /\ UNCHANGED <<pc, mIsLoop, isRun, thandler, looper, holds, mGc,
                                posted, taken, refused, asked>>

\* quit(), which does nothing while isRun is false, and gc(), which calls it.
QuitBegins(c, how) == /\ isRun
                      /\ Move(c, "idle", how)
                      /\ isRun' = FALSE
                      /\ asked' = (asked \/ pc \in Serving)
                      /\ UNCHANGED <<pc, mIsLoop, thandler, looper, holds, mGc, history>>

QuitIgnored(how) == /\ ~isRun
                    /\ mGc' = (mGc \/ how = "gc")
                    /\ asked' = (asked \/ pc \in Serving)
                    /\ UNCHANGED <<pc, mIsLoop, isRun, thandler, looper, calls, history>>

\* A gc() that marks the thread and leaves its Looper alone.
BugQuitLooper(c, how) == /\ thandler
                         /\ Move(c, how, "idle")
                         /\ IF how = "quit" THEN CloseLooper ELSE UNCHANGED looper
                         /\ mGc' = (mGc \/ how = "gc")
                         /\ UNCHANGED <<pc, mIsLoop, isRun, thandler, holds, history, asked>>

\* thandler.getLooper().quit().
QuitLooper(c, how) == /\ thandler
                      /\ Move(c, how, "idle")
                      /\ CloseLooper
                      /\ mGc' = (mGc \/ how = "gc")
                      /\ UNCHANGED <<pc, mIsLoop, isRun, thandler, holds, history, asked>>

\* The same before the caller sees the handler: a NullPointerException.
QuitCrashes(c, how) == /\ ~thandler
                       /\ Move(c, how, "crashed")
                       /\ UNCHANGED <<pc, mIsLoop, isRun, thandler, looper, holds, mGc, history, asked>>

(***************************************************************************)

Calls == {"quit", "gc"}

Thread == \/ Start \/ ScriptEnds \/ ShowHandler \/ ShowRunning \/ RunReturns
          \/ Dispatch \/ LoopReturns \/ HandleReturns \/ HandleFails \/ QuitItself \/ RunEnds

CallEnds(c) == \/ Send(c) \/ SendInVain(c)
               \/ \E how \in Calls : QuitLooper(c, how) \/ QuitCrashes(c, how)

Next == \/ Thread
        \/ \E m \in Messages : PushRefused(m) \/ \E c \in Callers : PushBegins(c, m)
        \/ \E how \in Calls : QuitIgnored(how) \/ \E c \in Callers : QuitBegins(c, how)
        \/ \E c \in Callers : CallEnds(c)

Spec == Init /\ [][Next]_vars

\* The scheduler runs every thread: the scripts end, and a call that was begun
\* is ended.  Nobody is bound to start the thread, to push or to quit.
FairSpec == /\ Spec
            /\ WF_vars(Thread /\ ~Start)
            /\ \A c \in Callers : WF_vars(CallEnds(c))

(***************************************************************************)
(* Properties.                                                             *)
(***************************************************************************)

\* isRun says whether a message would be served.  While the Looper serves the
\* queue isRun is set unless somebody is quitting (push and quit rely on it),
\* and it is never set before the script has ended or after run() has.
IsRunTells == /\ pc \in {"runningShown", "run", "loop", "handling"} /\ ~isRun =>
                    quitting \/ \E c \in Callers : at[c] \in Calls \cup {"crashed"}
              /\ pc \in {"new", "script", "publish", "handlerShown", "dead"} => ~isRun

\* Nothing is thrown away or left undone by a thread nobody told to quit: its
\* queue and its message in hand are all that has been posted and not served.
NothingMissing == ~quitting => posted = taken \o queue

\* Messages are dispatched one at a time and in the order of posting, and none
\* is accepted or dispatched after quit() has closed the Looper.
M == INSTANCE Mailbox WITH accepted <- posted,
                           done <- IF pc = "handling" THEN Len(taken) - 1 ELSE Len(taken),
                           closed <- quitting
ImplementsMailbox == M!Spec

\* quit() or gc() called while the Looper serves messages ends the thread,
\* even when several are called at once; only a quit() that did not see the
\* handler yet, and died of it, can leave the thread running.
QuitEndsThread == asked ~> (pc = "dead" \/ \E c \in Callers : at[c] = "crashed")

\* A posted message is dispatched unless the Looper is told to quit.
PostedIsServed == \A m \in Messages : m \in Range(posted) ~> (m \in Range(taken) \/ quitting)
=============================================================================
